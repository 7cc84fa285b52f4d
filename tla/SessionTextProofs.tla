------------------------- MODULE SessionTextProofs -------------------------
(***************************************************************************)
(* Theorems about SessionText, for every value of the constants that       *)
(* TextAssumption and the assumptions of the stores allow: limits of any   *)
(* size, any lines, reads and terminal sizes, and any number of them.      *)
(*                                                                         *)
(* Bytes are summed, and output is fed to the terminal, by folds.          *)
(* FoldTheorems says what a fold does with one more element; what is       *)
(* needed of folds follows by induction over sequences.                    *)
(*                                                                         *)
(* First come strings, the buffer, the terminal and the record, which      *)
(* share the invariant OutputInv; then the terminal and the paper, with    *)
(* PaperInv, and the buffer's queries; then the log and the observations   *)
(* (StoresInv) and the log's filters and queries; and the theorems at the  *)
(* end.                                                                    *)
(***************************************************************************)
EXTENDS SessionText, SequenceTheorems, TLAPS

Widths == INSTANCE FoldTheorems WITH Op <- LAMBDA sum, c : sum + Width(c)

-----------------------------------------------------------------------------
(* Numbers and sequences.                                                  *)

\* The least number of a set that has one.
LEMMA LeastIs ==
  ASSUME NEW S \in SUBSET Nat, S # {}
  PROVE  Min(S) \in S /\ \A y \in S : Min(S) <= y
BY Widths!MinOfNaturals DEF Min, Widths!Min

\* Two sequences put together.
LEMMA JoinIs ==
  ASSUME NEW T, NEW a \in Seq(T), NEW b \in Seq(T), NEW m, m = Len(a), NEW n, n = Len(b)
  PROVE  /\ a \o b \in Seq(T) /\ Len(a \o b) = m + n /\ DOMAIN (a \o b) = 1 .. m + n
         /\ \A x \in 1 .. m : (a \o b)[x] = a[x]
         /\ \A y \in 1 .. n : (a \o b)[m + y] = b[y]
OBVIOUS

\* What is left of a sequence without its first j elements.
LEMMA RestOf ==
  ASSUME NEW T, NEW s \in Seq(T), NEW n, n = Len(s), NEW j \in 0 .. n
  PROVE  /\ SubSeq(s, j + 1, n) \in Seq(T)
         /\ Len(SubSeq(s, j + 1, n)) = n - j
         /\ \A i \in 1 .. n - j : SubSeq(s, j + 1, n)[i] = s[i + j]
OBVIOUS

\* The fields of the history.
PastFields ==
  {"reads", "resizes", "sizes", "shrunk", "paper", "texts", "logged", "seen"}

-----------------------------------------------------------------------------
(* Strings and their bytes.                                                *)

AsciiKinds == Kinds \ {"wide", "bad"}
AsciiChars == [k : AsciiKinds, n : Nat]

\* A character has one to three bytes; an ASCII character has one.
LEMMA WidthIs ==
  /\ \A c : Width(c) \in 1 .. 3
  /\ \A c \in AsciiChars : Width(c) = 1
<1>1. \A c : c.k = "wide" => Width(c) = 2
  BY DEF Width
<1>2. \A c : c.k = "bad" => Width(c) = 3
  BY DEF Width
<1>3. \A c : c.k # "wide" /\ c.k # "bad" => Width(c) = 1
  BY DEF Width
<1>4. \A c \in AsciiChars : c.k # "wide" /\ c.k # "bad"
  BY DEF AsciiChars, AsciiKinds
<1> QED BY <1>1, <1>2, <1>3, <1>4

\* The bytes of strings add up.
LEMMA ByteLenSums ==
  /\ ByteLen(<<>>) = 0
  /\ \A c : ByteLen(<<c>>) = Width(c)
  /\ \A T : \A s \in Seq(T) : ByteLen(s) \in Nat
  /\ \A T : \A s, t \in Seq(T) : ByteLen(s \o t) = ByteLen(s) + ByteLen(t)
<1>1. \A s : ByteLen(s) = Widths!Fold(0, s)
  BY DEF ByteLen, FoldLeft, MapThenFoldSet, Max,
         Widths!Fold, Widths!FoldLeft, Widths!MapThenFoldSet, Widths!Max
<1>2. \A x \in Nat : \A c : 0 + Width(c) \in Nat /\ x + Width(c) = x + (0 + Width(c))
  BY WidthIs
<1>3. ASSUME NEW T, NEW s \in Seq(T), NEW base \in Nat
      PROVE  Widths!Fold(0, s) \in Nat /\ Widths!Fold(base, s) = base + Widths!Fold(0, s)
  <2>1. \A x \in Nat, c \in T : 0 + Width(c) \in Nat /\ x + Width(c) = x + (0 + Width(c))
    BY <1>2
  <2> QED BY ONLY <2>1, s \in Seq(T), base \in Nat, Widths!FoldAdds
<1>4. ByteLen(<<>>) = 0
  BY <1>1, Widths!FoldEmpty
<1>5. ASSUME NEW c PROVE ByteLen(<<c>>) = Width(c)
  <2>1. Widths!Fold(0, <<c>>) = 0 + Width(c)
    BY Widths!FoldOne
  <2> QED BY <1>1, <2>1, WidthIs
<1>6. ASSUME NEW T, NEW s \in Seq(T) PROVE ByteLen(s) \in Nat
  BY <1>1, <1>3
<1>7. ASSUME NEW T, NEW s \in Seq(T), NEW t \in Seq(T)
      PROVE  ByteLen(s \o t) = ByteLen(s) + ByteLen(t)
  <2>1. Widths!Fold(0, s \o t) = Widths!Fold(Widths!Fold(0, s), t)
    BY Widths!FoldConcat
  <2>2. Widths!Fold(0, s) \in Nat
    BY <1>3
  <2>3. Widths!Fold(Widths!Fold(0, s), t) = Widths!Fold(0, s) + Widths!Fold(0, t)
    BY <1>3, <2>2
  <2> QED BY <1>1, <2>1, <2>3
<1> QED BY <1>4, <1>5, <1>6, <1>7

\* A string has at least as many bytes as characters, as many if it is ASCII.
LEMMA ByteLenBounds ==
  /\ \A T : \A s \in Seq(T) : Len(s) <= ByteLen(s)
  /\ \A s \in Seq(AsciiChars) : ByteLen(s) = Len(s)
<1>1. ASSUME NEW T, NEW s \in Seq(T) PROVE Len(s) <= ByteLen(s)
  <2> DEFINE K == {r \in Seq(T) : Len(r) <= ByteLen(r)}
  <2>1. <<>> \in K
    BY ByteLenSums
  <2>2. ASSUME NEW r \in Seq(T), NEW e \in T, r \in K PROVE Append(r, e) \in K
    <3>1. Append(r, e) = r \o <<e>> /\ <<e>> \in Seq(T) /\ Append(r, e) \in Seq(T)
          /\ Len(Append(r, e)) = Len(r) + 1 /\ Len(r) \in Nat
      OBVIOUS
    <3>2. ByteLen(r \o <<e>>) = ByteLen(r) + Width(e) /\ ByteLen(r) \in Nat
      BY <3>1, ByteLenSums
    <3>3. Width(e) \in 1 .. 3 /\ Len(r) <= ByteLen(r)
      BY <2>2, WidthIs
    <3>4. Len(Append(r, e)) <= ByteLen(Append(r, e))
      BY <3>1, <3>2, <3>3
    <3> QED BY <3>1, <3>4
  <2>3. \A r \in Seq(T) : r \in K
    <3> HIDE DEF K
    <3> QED BY <2>1, <2>2, Widths!SequenceInduction
  <2> QED BY <2>3
<1>2. ASSUME NEW s \in Seq(AsciiChars) PROVE ByteLen(s) = Len(s)
  <2> DEFINE K == {r \in Seq(AsciiChars) : ByteLen(r) = Len(r)}
  <2>1. <<>> \in K
    BY ByteLenSums
  <2>2. ASSUME NEW r \in Seq(AsciiChars), NEW e \in AsciiChars, r \in K
        PROVE  Append(r, e) \in K
    <3>1. /\ Append(r, e) = r \o <<e>> /\ <<e>> \in Seq(AsciiChars)
          /\ Append(r, e) \in Seq(AsciiChars) /\ Len(Append(r, e)) = Len(r) + 1
      OBVIOUS
    <3>2. ByteLen(r \o <<e>>) = ByteLen(r) + Width(e)
      BY <3>1, ByteLenSums
    <3>3. Width(e) = 1 /\ ByteLen(r) = Len(r)
      BY <2>2, WidthIs
    <3> QED BY <3>1, <3>2, <3>3
  <2>3. \A r \in Seq(AsciiChars) : r \in K
    <3> HIDE DEF K
    <3> QED BY <2>1, <2>2, Widths!SequenceInduction
  <2> QED BY <2>3
<1> QED BY <1>1, <1>2

\* A string with no bytes is empty.
LEMMA NoBytes == ASSUME NEW T, NEW s \in Seq(T) PROVE ByteLen(s) = 0 <=> s = <<>>
<1>1. Len(s) <= ByteLen(s) /\ Len(s) \in Nat
  BY ByteLenBounds
<1> QED BY <1>1, ByteLenSums

\* A suffix of a string is what comes after some first part.
LEMMA SuffixSplits ==
  ASSUME NEW T, NEW s \in Seq(T), NEW t \in Suffixes(s)
  PROVE  t \in Seq(T) /\ \E p \in Seq(T) : s = p \o t
<1>1. CASE t = <<>>
  BY <1>1
<1>2. CASE t # <<>>
  <2>1. PICK l \in 1 .. Len(s) : t = SubSeq(s, l, Len(s))
    BY <1>2 DEF Suffixes
  <2> DEFINE p == SubSeq(s, 1, l - 1)
  <2>2. p \in Seq(T) /\ t \in Seq(T)
    BY <2>1
  <2>3. s = p \o t
    <3>1. 1 \in 1 .. Len(s) + 1 /\ l - 1 \in 0 .. Len(s) /\ Len(s) \in l - 1 .. Len(s)
      OBVIOUS
    <3> DEFINE j == l - 1
    <3>2. SubSeq(s, 1, j) \o SubSeq(s, j + 1, Len(s)) = SubSeq(s, 1, Len(s))
      <4> HIDE DEF j
      <4>1. 1 \in 1 .. Len(s) + 1 /\ j \in 1 - 1 .. Len(s) /\ Len(s) \in j .. Len(s)
        BY <3>1 DEF j
      <4> QED BY <4>1, ConcatAdjacentSubSeq
    <3>3. j + 1 = l /\ SubSeq(s, 1, Len(s)) = s
      OBVIOUS
    <3> QED BY <2>1, <3>2, <3>3
  <2> QED BY <2>2, <2>3
<1> QED BY <1>1, <1>2

\* What comes after a first part is a suffix.
LEMMA SplitIsSuffix ==
  ASSUME NEW T, NEW p \in Seq(T), NEW t \in Seq(T)
  PROVE  IsSuffix(t, p \o t)
<1> DEFINE s == p \o t
           a == Reverse(t)
           b == Reverse(s)
<1>1. s \in Seq(T) /\ Len(s) = Len(p) + Len(t) /\ Len(p) \in Nat /\ Len(t) \in Nat
      /\ \A i \in 1 .. Len(t) : s[Len(p) + i] = t[i]
  OBVIOUS
<1>2. a \in Seq(T) /\ Len(a) = Len(t) /\ \A i \in 1 .. Len(t) : a[i] = t[(Len(t) - i) + 1]
  BY DEF Reverse
<1> HIDE DEF s
<1>3. b \in Seq(T) /\ Len(b) = Len(s) /\ \A i \in 1 .. Len(s) : b[i] = s[(Len(s) - i) + 1]
  BY <1>1 DEF Reverse
<1>4. ASSUME NEW i \in 1 .. Len(t) PROVE a[i] = b[i]
  <2>1. (Len(t) - i) + 1 \in 1 .. Len(t) /\ i \in 1 .. Len(s)
        /\ (Len(s) - i) + 1 = Len(p) + ((Len(t) - i) + 1)
    BY <1>1
  <2> QED BY <1>1, <1>2, <1>3, <2>1
<1> HIDE DEF a, b
<1>5. SubSeq(a, 1, Len(a)) = SubSeq(b, 1, Len(a)) /\ Len(a) <= Len(b)
  BY <1>1, <1>2, <1>3, <1>4
<1> QED BY <1>5 DEF IsSuffix, IsPrefix, a, b, s

\* The last bytes of a string that cuts clean.
LEMMA LastBytesIs ==
  ASSUME NEW T, NEW s \in Seq(T), NEW max, CutsClean(s, max)
  PROVE  /\ LastBytes(s, max) \in Seq(T) /\ ByteLen(LastBytes(s, max)) = max
         /\ \E p \in Seq(T) : s = p \o LastBytes(s, max)
<1> DEFINE t == LastBytes(s, max)
<1>1. t \in Suffixes(s) /\ ByteLen(t) = max
  BY DEF CutsClean, LastBytes
<1> HIDE DEF t
<1> QED BY <1>1, SuffixSplits DEF t

\* ASCII can be cut anywhere.
LEMMA AsciiCuts ==
  ASSUME NEW s \in Seq(AsciiChars), NEW max \in Nat, max <= Len(s)
  PROVE  CutsClean(s, max)
<1>1. CASE max = 0
  BY <1>1, ByteLenSums DEF CutsClean, Suffixes
<1>2. CASE max # 0
  <2> DEFINE l == Len(s) - max + 1
             t == SubSeq(s, l, Len(s))
  <2>1. l \in 1 .. Len(s) /\ t \in Suffixes(s)
    <3>1. l \in 1 .. Len(s)
      BY <1>2
    <3> HIDE DEF l
    <3> QED BY <3>1 DEF Suffixes
  <2>2. t \in Seq(AsciiChars) /\ Len(t) = max
    BY <2>1
  <2>3. ByteLen(t) = max
    BY <2>2, ByteLenBounds
  <2> QED BY <2>1, <2>3 DEF CutsClean
<1> QED BY <1>1, <1>2

-----------------------------------------------------------------------------
(* Strings put together.                                                   *)

\* What the strings from the i-th on are together.
Flat(h, i) == FlattenSeq(SubSeq(h, i, Len(h)))

\* FoldTheorems' facts, for the operator of this module.
LEMMA FlatNone == FlattenSeq(<<>>) = <<>>
BY Widths!FlattenEmpty DEF FlattenSeq, Widths!FlattenSeq
LEMMA FlatOne ==
  ASSUME NEW T, NEW t \in Seq(T) PROVE FlattenSeq(<<t>>) = t
BY Widths!FlattenOne DEF FlattenSeq, Widths!FlattenSeq
LEMMA FlatType ==
  ASSUME NEW T, NEW h \in Seq(Seq(T)) PROVE FlattenSeq(h) \in Seq(T)
BY Widths!FlattenType DEF FlattenSeq, Widths!FlattenSeq
LEMMA FlatConcat ==
  ASSUME NEW T, NEW h \in Seq(Seq(T)), NEW g \in Seq(Seq(T))
  PROVE  FlattenSeq(h \o g) = FlattenSeq(h) \o FlattenSeq(g)
<1>1. \A x : FlattenSeq(x) = Widths!FlattenSeq(x)
  BY DEF FlattenSeq, Widths!FlattenSeq
<1> QED BY <1>1, Widths!FlattenConcat

\* The strings from the i-th on are those up to the j-th and those from it on.
LEMMA FlatSplit ==
  ASSUME NEW T, NEW h \in Seq(Seq(T)), NEW i \in 1 .. Len(h) + 1, NEW j \in i .. Len(h) + 1
  PROVE  /\ Flat(h, j) \in Seq(T) /\ FlattenSeq(SubSeq(h, i, j - 1)) \in Seq(T)
         /\ Flat(h, i) = FlattenSeq(SubSeq(h, i, j - 1)) \o Flat(h, j)
<1> DEFINE n == Len(h)
           a == SubSeq(h, i, j - 1)
           b == SubSeq(h, j, n)
<1>1. a \in Seq(Seq(T)) /\ b \in Seq(Seq(T))
  OBVIOUS
<1>2. a \o b = SubSeq(h, i, n)
  <2> DEFINE k == j - 1
  <2>1. i \in 1 .. Len(h) + 1 /\ k \in i - 1 .. Len(h) /\ n \in k .. Len(h) /\ k + 1 = j
    OBVIOUS
  <2> HIDE DEF k, n
  <2>2. SubSeq(h, i, k) \o SubSeq(h, k + 1, n) = SubSeq(h, i, n)
    BY <2>1, ConcatAdjacentSubSeq
  <2> QED BY <2>1, <2>2 DEF k
<1> HIDE DEF a, b
<1>3. FlattenSeq(a \o b) = FlattenSeq(a) \o FlattenSeq(b)
  BY <1>1, FlatConcat
<1>4. FlattenSeq(a) \in Seq(T) /\ FlattenSeq(b) \in Seq(T)
  BY <1>1, FlatType
<1> QED BY <1>2, <1>3, <1>4 DEF Flat, a, b

\* The first of them, and the others.
LEMMA FlatFirst ==
  ASSUME NEW T, NEW h \in Seq(Seq(T)), NEW i \in 1 .. Len(h)
  PROVE  /\ h[i] \in Seq(T) /\ Flat(h, i + 1) \in Seq(T)
         /\ Flat(h, i) = h[i] \o Flat(h, i + 1)
<1> DEFINE j == i + 1
<1>1. i \in 1 .. Len(h) + 1 /\ j \in i .. Len(h) + 1 /\ j - 1 = i
  OBVIOUS
<1>2. SubSeq(h, i, i) = <<h[i]>> /\ h[i] \in Seq(T)
  <2>1. i \in i .. Len(h) /\ i + 1 \in Int /\ i \in Int /\ i < i + 1
    OBVIOUS
  <2>2. SubSeq(h, i, i) = <<h[i]>> \o SubSeq(h, i + 1, i)
    BY <2>1, SubSeqRecursiveFirst
  <2>3. SubSeq(h, i + 1, i) = <<>>
    BY <2>1, SubSeqEmpty
  <2>4. h[i] \in Seq(T) /\ <<h[i]>> \o <<>> = <<h[i]>>
    OBVIOUS
  <2> QED BY <2>2, <2>3, <2>4
<1> HIDE DEF j
<1>3. Flat(h, j) \in Seq(T) /\ Flat(h, i) = FlattenSeq(SubSeq(h, i, j - 1)) \o Flat(h, j)
  BY ONLY <1>1, h \in Seq(Seq(T)), FlatSplit
<1> QED BY <1>1, <1>2, <1>3, FlatOne DEF j

\* None, and one more at the end.
LEMMA FlatEnds ==
  ASSUME NEW T, NEW h \in Seq(Seq(T))
  PROVE  /\ Flat(h, Len(h) + 1) = <<>>
         /\ \A t \in Seq(T), i \in 1 .. Len(h) + 1 : Flat(Append(h, t), i) = Flat(h, i) \o t
<1>1. Flat(h, Len(h) + 1) = <<>>
  <2>1. SubSeq(h, Len(h) + 1, Len(h)) = <<>>
    OBVIOUS
  <2> QED BY <2>1, FlatNone DEF Flat
<1>2. ASSUME NEW t \in Seq(T), NEW i \in 1 .. Len(h) + 1
      PROVE  Flat(Append(h, t), i) = Flat(h, i) \o t
  <2> DEFINE g == Append(h, t)
             n == Len(h)
  <2>1. n \in Nat /\ g \in Seq(Seq(T)) /\ Len(g) = n + 1 /\ g[n + 1] = t
        /\ \A k \in 1 .. n : g[k] = h[k]
    OBVIOUS
  <2>2. SubSeq(g, i, n + 1) = SubSeq(g, i, n) \o <<t>>
    <3>1. i \in 1 .. Len(g) /\ n + 1 \in i .. Len(g) /\ (n + 1) - 1 = n
      BY <2>1
    <3> HIDE DEF g, n
    <3>2. SubSeq(g, i, n + 1) = SubSeq(g, i, (n + 1) - 1) \o <<g[n + 1]>>
      <4> DEFINE m == n + 1
      <4> HIDE DEF m
      <4>1. i \in 1 .. Len(g) /\ m \in i .. Len(g)
        BY <3>1 DEF m
      <4>2. SubSeq(g, i, m) = SubSeq(g, i, m - 1) \o <<g[m]>>
        BY ONLY <2>1, <4>1, SubSeqRecursiveSecond
      <4> QED BY <4>2 DEF m
    <3> QED BY <2>1, <3>1, <3>2
  <2>3. SubSeq(g, i, n) = SubSeq(h, i, n) /\ SubSeq(h, i, n) \in Seq(Seq(T))
        /\ <<t>> \in Seq(Seq(T))
    OBVIOUS
  <2> HIDE DEF g, n
  <2>4. FlattenSeq(SubSeq(h, i, n) \o <<t>>) = FlattenSeq(SubSeq(h, i, n)) \o t
    <3>1. FlattenSeq(SubSeq(h, i, n) \o <<t>>) = FlattenSeq(SubSeq(h, i, n)) \o FlattenSeq(<<t>>)
      BY <2>3, FlatConcat
    <3> QED BY <3>1, FlatOne
  <2> QED BY <2>1, <2>2, <2>3, <2>4 DEF Flat, g, n
<1> QED BY <1>1, <1>2

-----------------------------------------------------------------------------
(* What is read.                                                           *)

RawChars == [k : Bytes, n : Nat]

\* Every read becomes text, ASCII becomes ASCII.
LEMMA LossyKeeps ==
  ASSUME NEW b \in Seq(RawChars), b # <<>>
  PROVE  /\ Lossy(b) \in Seq(Chars) /\ Lossy(b) # <<>>
         /\ (\A i \in DOMAIN b : b[i].k \notin Wide) => Lossy(b) \in Seq(AsciiChars)
<1> DEFINE paired(j) == j \in DOMAIN b /\ j + 1 \in DOMAIN b
                        /\ b[j].k = "lead" /\ b[j + 1].k = "cont"
           part(i) ==
             CASE b[i].k = "lead" -> <<[b[i] EXCEPT !.k = IF paired(i) THEN "wide" ELSE "bad"]>>
               [] b[i].k = "cont" -> IF paired(i - 1) THEN <<>> ELSE <<[b[i] EXCEPT !.k = "bad"]>>
               [] OTHER -> <<b[i]>>
           parts == [i \in DOMAIN b |-> part(i)]
<1>1. Lossy(b) = FlattenSeq(parts)
  BY DEF Lossy
<1>2. ASSUME NEW i \in DOMAIN b
      PROVE  /\ part(i) \in Seq(Chars) /\ (i = 1 => part(i) # <<>>)
             /\ b[i].k \notin Wide => part(i) \in Seq(AsciiChars)
  <2>1. b[i] \in RawChars
    OBVIOUS
  <2>2. b[i] = [k |-> b[i].k, n |-> b[i].n] /\ b[i].k \in Bytes /\ b[i].n \in Nat
    BY <2>1 DEF RawChars
  <2>3. CASE b[i].k = "lead"
    <3>1. part(i) = <<[b[i] EXCEPT !.k = IF paired(i) THEN "wide" ELSE "bad"]>>
      BY <2>3
    <3>2. [b[i] EXCEPT !.k = IF paired(i) THEN "wide" ELSE "bad"] \in Chars
      BY <2>2 DEF Chars, Kinds
    <3> HIDE DEF paired, part
    <3> QED BY <2>3, <3>1, <3>2 DEF Wide
  <2>4. CASE b[i].k = "cont"
    <3>1. part(i) = IF paired(i - 1) THEN <<>> ELSE <<[b[i] EXCEPT !.k = "bad"]>>
      BY <2>4
    <3>2. [b[i] EXCEPT !.k = "bad"] \in Chars
      BY <2>2 DEF Chars, Kinds
    <3>3. i = 1 => ~paired(i - 1)
      OBVIOUS
    <3> HIDE DEF paired, part
    <3> QED BY <2>4, <3>1, <3>2, <3>3 DEF Wide
  <2>5. CASE b[i].k \notin {"lead", "cont"}
    <3>1. part(i) = <<b[i]>>
      BY <2>5
    <3>2. b[i] \in Chars /\ b[i] \in AsciiChars
      BY <2>2, <2>5 DEF Chars, AsciiChars, AsciiKinds, Kinds, Bytes
    <3> HIDE DEF paired, part
    <3> QED BY <3>1, <3>2
  <2> QED BY <2>3, <2>4, <2>5
<1> HIDE DEF part
<1>3. /\ parts \in Seq(Seq(Chars)) /\ Len(parts) = Len(b) /\ Len(b) \in Nat /\ Len(b) # 0
      /\ parts[1] # <<>>
      /\ (\A i \in DOMAIN b : b[i].k \notin Wide) => parts \in Seq(Seq(AsciiChars))
  <2>1. Len(b) \in Nat /\ Len(b) # 0 /\ 1 \in DOMAIN b /\ DOMAIN b = 1 .. Len(b)
    OBVIOUS
  <2>2. parts \in Seq(Seq(Chars)) /\ Len(parts) = Len(b)
    BY <1>2, <2>1
  <2>3. parts[1] # <<>>
    BY <1>2, <2>1
  <2>4. ASSUME \A i \in DOMAIN b : b[i].k \notin Wide PROVE parts \in Seq(Seq(AsciiChars))
    BY <1>2, <2>1, <2>4
  <2> QED BY <2>1, <2>2, <2>3, <2>4
<1> HIDE DEF parts
<1>4. FlattenSeq(parts) # <<>>
  <2>1. 1 \in 1 .. Len(parts) /\ SubSeq(parts, 1, Len(parts)) = parts
    BY <1>3
  <2>2. /\ parts[1] \in Seq(Chars) /\ Flat(parts, 1 + 1) \in Seq(Chars)
        /\ Flat(parts, 1) = parts[1] \o Flat(parts, 1 + 1)
    BY <1>3, <2>1, FlatFirst
  <2>3. FlattenSeq(parts) = parts[1] \o Flat(parts, 1 + 1)
    BY <2>1, <2>2 DEF Flat
  <2>4. parts[1] \o Flat(parts, 1 + 1) # <<>>
    BY <1>3, <2>2
  <2> QED BY <2>3, <2>4
<1> QED BY <1>1, <1>3, <1>4, FlatType

-----------------------------------------------------------------------------
(* The output buffer and the strings it was given.                         *)

Datas == INSTANCE FoldTheorems WITH Op <- LAMBDA sum, c : sum + ByteLen(c.data)

\* What a chunk may hold.
Strings == {s \in Seq(Chars) : s # <<>> /\ ByteLen(s) <= Capacity}
Chunks == [seq : Nat, data : Strings]

\* Strings are sequences of characters, ASCII or any.
LEMMA StringsAre ==
  /\ AsciiChars \subseteq Chars /\ Seq(AsciiChars) \subseteq Seq(Chars)
  /\ Strings \subseteq Seq(Chars) /\ Seq(Strings) \subseteq Seq(Seq(Chars))
<1>1. AsciiChars \subseteq Chars
  BY DEF AsciiChars, AsciiKinds, Chars
<1>2. Strings \subseteq Seq(Chars)
  BY DEF Strings
<1>3. \A A, B : A \subseteq B => Seq(A) \subseteq Seq(B)
  OBVIOUS
<1> QED BY <1>1, <1>2, <1>3

\* A string that is cut is cut to the capacity, and what is left is its end.
LEMMA TruncatedIs ==
  ASSUME NEW s \in Seq(Chars), s # <<>>, ~TruncationPanics(s)
  PROVE  /\ Truncated(s) \in Strings
         /\ \E p \in Seq(Chars) : s = p \o Truncated(s)
         /\ Truncated(s) = s \/ ByteLen(Truncated(s)) = Capacity
<1>1. CASE ByteLen(s) > Capacity
  <2>1. CutsClean(s, Capacity) /\ Truncated(s) = LastBytes(s, Capacity)
    BY <1>1 DEF TruncationPanics, Truncated
  <2>2. /\ LastBytes(s, Capacity) \in Seq(Chars) /\ ByteLen(LastBytes(s, Capacity)) = Capacity
        /\ \E p \in Seq(Chars) : s = p \o LastBytes(s, Capacity)
    BY <2>1, LastBytesIs
  <2>3. LastBytes(s, Capacity) # <<>> /\ ByteLen(LastBytes(s, Capacity)) <= Capacity
    BY <2>2, OutputBufferAssumption, ByteLenSums
  <2> QED BY <2>1, <2>2, <2>3 DEF Strings
<1>2. CASE ~(ByteLen(s) > Capacity)
  <2>1. Truncated(s) = s /\ ByteLen(s) \in Nat
    BY <1>2, ByteLenSums DEF Truncated
  <2>2. s = <<>> \o s /\ <<>> \in Seq(Chars)
    OBVIOUS
  <2>3. ByteLen(s) <= Capacity
    BY <1>2, <2>1, OutputBufferAssumption
  <2> QED BY <2>1, <2>2, <2>3 DEF Strings
<1> QED BY <1>1, <1>2

\* ASCII stays so, and can always be cut.
LEMMA AsciiTruncated ==
  ASSUME NEW s \in Seq(AsciiChars)
  PROVE  ~TruncationPanics(s) /\ (s # <<>> => Truncated(s) \in Seq(AsciiChars))
<1>1. ByteLen(s) = Len(s)
  BY ByteLenBounds
<1>2. ~TruncationPanics(s)
  BY <1>1, AsciiCuts, OutputBufferAssumption DEF TruncationPanics
<1>3. CASE ByteLen(s) > Capacity
  <2>1. CutsClean(s, Capacity) /\ Truncated(s) = LastBytes(s, Capacity)
    BY <1>2, <1>3 DEF TruncationPanics, Truncated
  <2> QED BY <1>2, <2>1, LastBytesIs
<1>4. CASE ~(ByteLen(s) > Capacity)
  BY <1>2, <1>4 DEF Truncated
<1> QED BY <1>3, <1>4

\* The buffer b has the last of the strings h, under their numbers, within its
\* capacity; a string that it has no more did not fit.
Dropped(b) == b.next - Len(b.chunks)
BufferKept(b, h) ==
  /\ h \in Seq(Strings)
  /\ b \in [chunks : Seq(Chunks), size : Nat, next : Nat]
  /\ b.next = Len(h) /\ Len(b.chunks) <= Len(h)
  /\ \A i \in 1 .. Len(b.chunks) :
       b.chunks[i] = [seq |-> Dropped(b) + i - 1, data |-> h[Dropped(b) + i]]
  /\ b.size = ByteLen(Flat(h, Dropped(b) + 1)) /\ b.size <= Capacity
  /\ Dropped(b) > 0 => ByteLen(Flat(h, Dropped(b))) > Capacity

\* The bytes of the chunks after the k-th.
LEMMA DataLeft ==
  ASSUME NEW h \in Seq(Strings), NEW cs \in Seq(Chunks), NEW f \in Nat,
         f + Len(cs) = Len(h), \A i \in 1 .. Len(cs) : cs[i].data = h[f + i],
         NEW k \in 0 .. Len(cs)
  PROVE  /\ ByteLen(Flat(h, f + k + 1)) \in Nat
         /\ ByteLen(Flat(h, f + 1)) - DataBytes(SubSeq(cs, 1, k)) = ByteLen(Flat(h, f + k + 1))
<1> DEFINE w(j) == ByteLen(Flat(h, f + j + 1))
           d(j) == DataBytes(SubSeq(cs, 1, j))
           K == {j \in Nat : j <= Len(cs) => d(j) \in Nat /\ w(0) = d(j) + w(j)}
<1>0. h \in Seq(Seq(Chars)) /\ Len(h) \in Nat /\ Len(cs) \in Nat
  BY StringsAre
<1>1. \A j \in 0 .. Len(cs) : w(j) \in Nat
  <2> TAKE j \in 0 .. Len(cs)
  <2> DEFINE i == f + j + 1
  <2>1. i \in 1 .. Len(h) + 1 /\ i \in i .. Len(h) + 1
    BY <1>0
  <2> HIDE DEF i
  <2>2. Flat(h, i) \in Seq(Chars)
    BY <1>0, <2>1, FlatSplit
  <2> QED BY <2>2, ByteLenSums DEF i
<1>2. \A s : DataBytes(s) = Datas!Fold(0, s)
  BY DEF DataBytes, FoldLeft, MapThenFoldSet, Max,
         Datas!Fold, Datas!FoldLeft, Datas!MapThenFoldSet, Datas!Max
<1>3. 0 \in K
  <2>1. SubSeq(cs, 1, 0) = <<>>
    OBVIOUS
  <2>2. d(0) = 0
    BY <2>1, <1>2, Datas!FoldEmpty
  <2>3. w(0) \in Nat
    BY <1>0, <1>1
  <2> HIDE DEF w, d
  <2> QED BY <2>2, <2>3
<1>4. ASSUME NEW j \in Nat, j \in K PROVE j + 1 \in K
  <2> SUFFICES ASSUME j + 1 <= Len(cs) PROVE d(j + 1) \in Nat /\ w(0) = d(j + 1) + w(j + 1)
    OBVIOUS
  <2>1. j \in 0 .. Len(cs) /\ j + 1 \in 0 .. Len(cs) /\ j + 1 \in 1 .. Len(cs)
    BY <1>0
  <2>2. w(j) \in Nat /\ w(j + 1) \in Nat /\ d(j) \in Nat /\ w(0) = d(j) + w(j)
    BY <1>1, <1>4, <2>1
  <2>3. d(j + 1) = d(j) + ByteLen(cs[j + 1].data)
    <3>1. /\ SubSeq(cs, 1, j) \in Seq(Chunks) /\ cs[j + 1] \in Chunks
          /\ SubSeq(cs, 1, j + 1) = Append(SubSeq(cs, 1, j), cs[j + 1])
      BY <2>1
    <3>2. Datas!Fold(0, Append(SubSeq(cs, 1, j), cs[j + 1]))
            = Datas!Fold(0, SubSeq(cs, 1, j)) + ByteLen(cs[j + 1].data)
      BY ONLY ZenonT(40), <3>1, Datas!FoldAppend
    <3> QED BY <1>2, <3>1, <3>2
  <2>4. w(j) = ByteLen(cs[j + 1].data) + w(j + 1) /\ ByteLen(cs[j + 1].data) \in Nat
    <3> DEFINE i == f + j + 1
    <3>1. i \in 1 .. Len(h) /\ i + 1 = f + (j + 1) + 1 /\ i = f + (j + 1)
      BY <1>0, <2>1
    <3>2. cs[j + 1].data = h[i]
      BY <2>1, <3>1
    <3> HIDE DEF i
    <3>3. /\ h[i] \in Seq(Chars) /\ Flat(h, i + 1) \in Seq(Chars)
          /\ Flat(h, i) = h[i] \o Flat(h, i + 1)
      BY <1>0, <3>1, FlatFirst
    <3>4. ByteLen(Flat(h, i)) = ByteLen(h[i]) + ByteLen(Flat(h, i + 1)) /\ ByteLen(h[i]) \in Nat
      BY <3>3, ByteLenSums
    <3> QED BY <3>1, <3>2, <3>4 DEF i
  <2> HIDE DEF w, d
  <2> QED BY <2>2, <2>3, <2>4
<1>5. \A j \in Nat : j \in K
  <2> HIDE DEF K
  <2> QED BY <1>3, <1>4, Datas!Induction
<1>6. k \in K /\ k <= Len(cs) /\ f + 0 + 1 = f + 1 /\ w(k) \in Nat
  BY <1>0, <1>1, <1>5
<1> QED BY <1>6

\* append keeps the buffer the last of the strings, whatever it evicts.
LEMMA AppendKeeps ==
  ASSUME NEW b, NEW h, BufferKept(b, h),
         NEW s \in Seq(Chars), s # <<>>, ~TruncationPanics(s)
  PROVE  BufferKept(Appended(b, s), Append(h, Truncated(s)))
<1> DEFINE d == Truncated(s)
           g == Append(h, d)
           f == Dropped(b)
           cs == Append(b.chunks, [seq |-> b.next, data |-> d])
<1>2. /\ d \in Strings /\ d \in Seq(Chars) /\ ByteLen(d) \in Nat
  BY TruncatedIs, ByteLenSums DEF Strings
<1> HIDE DEF d
<1>3. /\ h \in Seq(Strings) /\ Len(h) \in Nat /\ b.next = Len(h)
      /\ b.chunks \in Seq(Chunks) /\ Len(b.chunks) \in Nat /\ Len(b.chunks) <= Len(h)
      /\ f = Len(h) - Len(b.chunks) /\ f \in Nat /\ b.size \in Nat
  BY DEF BufferKept, Dropped
<1>4. /\ g \in Seq(Strings) /\ Len(g) = Len(h) + 1
      /\ \A i \in 1 .. Len(h) : g[i] = h[i]
      /\ g[Len(h) + 1] = d
  BY <1>2, <1>3
<1>5. /\ cs \in Seq(Chunks) /\ Len(cs) = Len(b.chunks) + 1
      /\ \A i \in 1 .. Len(b.chunks) : cs[i] = b.chunks[i]
      /\ cs[Len(b.chunks) + 1] = [seq |-> Len(h), data |-> d]
  <2>1. [seq |-> b.next, data |-> d] \in Chunks
    BY <1>2, <1>3 DEF Chunks
  <2> QED BY <1>3, <2>1
<1>1. Len(h) \in Nat /\ f \in Nat /\ Len(b.chunks) \in Nat /\ f + Len(b.chunks) = Len(h)
  BY <1>3
<1> HIDE DEF g, cs, f
<1>6. \A i \in 1 .. Len(b.chunks) : b.chunks[i] = [seq |-> f + i - 1, data |-> h[f + i]]
  BY DEF BufferKept, f
<1>7. /\ h \in Seq(Seq(Chars)) /\ g \in Seq(Seq(Chars))
      /\ b.size = ByteLen(Flat(h, f + 1)) /\ b.size <= Capacity
      /\ f > 0 => ByteLen(Flat(h, f)) > Capacity
  BY <1>3, <1>4, StringsAre DEF BufferKept, f
<1>8. \A i \in 1 .. Len(h) + 1 : /\ Flat(g, i) = Flat(h, i) \o d
                                 /\ Flat(h, i) \in Seq(Chars)
                                 /\ ByteLen(Flat(h, i)) \in Nat
                                 /\ ByteLen(Flat(g, i)) = ByteLen(Flat(h, i)) + ByteLen(d)
  <2> TAKE i \in 1 .. Len(h) + 1
  <2>1. Flat(g, i) = Flat(h, i) \o d
    BY <1>2, <1>7, FlatEnds DEF g
  <2>2. i \in i .. Len(h) + 1
    BY <1>1
  <2>3. Flat(h, i) \in Seq(Chars)
    BY ONLY <1>7, <2>2, i \in 1 .. Len(h) + 1, FlatSplit
  <2>4. ByteLen(Flat(h, i) \o d) = ByteLen(Flat(h, i)) + ByteLen(d)
    BY <1>2, <2>3, ByteLenSums
  <2> QED BY <2>1, <2>3, <2>4, ByteLenSums
<1>9. \A i \in 1 .. Len(cs) : cs[i] = [seq |-> f + i - 1, data |-> g[f + i]]
  <2> TAKE i \in 1 .. Len(cs)
  <2>1. CASE i = Len(b.chunks) + 1
    <3>1. f + i = Len(h) + 1 /\ f + i - 1 = Len(h)
      BY <1>1, <2>1
    <3> QED BY <1>4, <1>5, <2>1, <3>1
  <2>2. CASE i # Len(b.chunks) + 1
    <3>1. i \in 1 .. Len(b.chunks) /\ f + i \in 1 .. Len(h)
      BY <1>1, <1>5, <2>2
    <3> QED BY <1>4, <1>5, <1>6, <3>1
  <2> QED BY <2>1, <2>2
<1> DEFINE c == [chunks |-> cs, size |-> b.size + ByteLen(d), next |-> b.next + 1]
           left(j) == c.size - DataBytes(SubSeq(c.chunks, 1, j))
           S == {j \in 0 .. Len(c.chunks) : left(j) <= Capacity \/ j = Len(c.chunks)}
           k == Min(S)
           e == [c EXCEPT !.chunks = SubSeq(@, k + 1, Len(@)), !.size = left(k)]
<1>0. Appended(b, s) = e
  BY DEF Appended, Evicted, d, cs
<1>10. c.chunks = cs /\ c.size = ByteLen(Flat(g, f + 1)) /\ c.next = Len(g)
  <2>1. f + 1 \in 1 .. Len(h) + 1
    BY <1>1
  <2>2. ByteLen(Flat(g, f + 1)) = b.size + ByteLen(d)
    BY <1>7, <1>8, <2>1
  <2> QED BY <1>3, <1>4, <2>2 DEF cs
<1> HIDE DEF c, left, S, k, e
<1>11. f + Len(cs) = Len(g) /\ cs \in Seq(Chunks) /\ Len(cs) \in Nat
  <2>1. Len(g) = Len(h) + 1
    BY <1>4
  <2>2. Len(cs) = Len(b.chunks) + 1 /\ cs \in Seq(Chunks)
    BY <1>5
  <2>3. f + Len(b.chunks) = Len(h) /\ f \in Nat /\ Len(b.chunks) \in Nat
    BY <1>1
  <2> QED BY <2>1, <2>2, <2>3
<1>12. \A j \in 0 .. Len(cs) :
         ByteLen(Flat(g, f + j + 1)) \in Nat /\ left(j) = ByteLen(Flat(g, f + j + 1))
  <2> TAKE j \in 0 .. Len(cs)
  <2>1. \A i \in 1 .. Len(cs) : cs[i].data = g[f + i]
    <3> TAKE i \in 1 .. Len(cs)
    <3>1. cs[i] = [seq |-> f + i - 1, data |-> g[f + i]]
      BY <1>9
    <3> QED BY <3>1
  <2>2. /\ ByteLen(Flat(g, f + j + 1)) \in Nat
        /\ ByteLen(Flat(g, f + 1)) - DataBytes(SubSeq(cs, 1, j)) = ByteLen(Flat(g, f + j + 1))
    BY ONLY <1>3, <1>4, <1>5, <1>11, <2>1, j \in 0 .. Len(cs), DataLeft
  <2> QED BY <1>10, <2>2 DEF left
<1>13. /\ k \in 0 .. Len(cs) /\ left(k) <= Capacity
       /\ \A j \in 0 .. k - 1 : left(j) > Capacity
  <2>1. S \in SUBSET Nat /\ Len(cs) \in S /\ Len(cs) \in Nat
    BY <1>1, <1>5, <1>10 DEF S
  <2>2. k \in S /\ \A y \in S : k <= y
    <3> QED BY <2>1, LeastIs DEF k
  <2>3. left(Len(cs)) <= Capacity
    <3>1. Len(cs) \in 0 .. Len(cs) /\ f + Len(cs) + 1 = Len(g) + 1
      BY <1>1, <1>11
    <3>2. Flat(g, Len(g) + 1) = <<>>
      BY <1>7, FlatEnds
    <3>3. left(Len(cs)) = 0
      BY <1>12, <3>1, <3>2, ByteLenSums
    <3> QED BY <3>3, OutputBufferAssumption
  <2>4. k \in 0 .. Len(cs) /\ (left(k) <= Capacity \/ k = Len(cs))
    BY <1>10, <2>2 DEF S
  <2>5. ASSUME NEW j \in 0 .. k - 1 PROVE left(j) > Capacity
    <3>1. j \in 0 .. Len(cs) /\ ~(k <= j)
      BY <2>1, <2>4
    <3>2. ~(left(j) <= Capacity)
      BY <1>10, <2>2, <3>1 DEF S
    <3>3. left(j) \in Nat
      BY <1>12, <3>1
    <3> QED BY <3>2, <3>3, OutputBufferAssumption
  <2> QED BY <2>3, <2>4, <2>5
<1> DEFINE r == SubSeq(cs, k + 1, Len(cs))
<1>15. /\ r \in Seq(Chunks) /\ Len(r) = Len(cs) - k
       /\ \A i \in 1 .. Len(r) : r[i] = cs[i + k]
  <2>1. k \in 0 .. Len(cs)
    BY <1>13
  <2> DEFINE n == Len(cs)
  <2> HIDE DEF n
  <2>2. /\ SubSeq(cs, k + 1, n) \in Seq(Chunks) /\ Len(SubSeq(cs, k + 1, n)) = n - k
        /\ \A i \in 1 .. n - k : SubSeq(cs, k + 1, n)[i] = cs[i + k]
    BY ONLY <1>11, <2>1, RestOf DEF n
  <2> QED BY <2>2 DEF n
<1> HIDE DEF r
<1>18. left(k) \in Nat /\ left(k) = ByteLen(Flat(g, f + k + 1))
  BY <1>12, <1>13
<1>16. /\ e.chunks = r /\ e.size = left(k) /\ e.next = Len(g)
       /\ e \in [chunks : Seq(Chunks), size : Nat, next : Nat]
  <2> DEFINE x == left(k)
  <2>1. e = [c EXCEPT !.chunks = r, !.size = x]
    BY <1>10 DEF e, r
  <2>2. c \in [chunks : Seq(Chunks), size : Nat, next : Nat] /\ c.next = Len(g)
    <3>1. cs \in Seq(Chunks)
      BY <1>11
    <3>2. b.size + ByteLen(d) \in Nat /\ b.next + 1 \in Nat
      BY <1>2, <1>3
    <3> QED BY <1>10, <3>1, <3>2 DEF c
  <2>3. r \in Seq(Chunks) /\ x \in Nat
    BY <1>15, <1>18
  <2> HIDE DEF x
  <2> QED BY ONLY <2>1, <2>2, <2>3 DEF x
<1>17. Dropped(e) = f + k /\ k \in Nat /\ Len(cs) \in Nat /\ Len(r) \in Nat
  <2>1. k \in 0 .. Len(cs) /\ Len(cs) \in Nat
    BY <1>11, <1>13
  <2>2. Len(r) = Len(cs) - k
    BY <1>15
  <2>3. Dropped(e) = Len(g) - Len(r)
    BY <1>16 DEF Dropped
  <2> QED BY <1>1, <1>11, <2>1, <2>2, <2>3
<1>20. \A i \in 1 .. Len(r) : r[i] = [seq |-> (f + k) + i - 1, data |-> g[(f + k) + i]]
  <2> TAKE i \in 1 .. Len(r)
  <2>1. i + k \in 1 .. Len(cs) /\ f + (i + k) = (f + k) + i
    BY <1>1, <1>15, <1>17
  <2> DEFINE m == i + k
  <2>2. cs[m] = [seq |-> f + m - 1, data |-> g[f + m]]
    <3> HIDE DEF m
    <3>1. m \in 1 .. Len(cs)
      BY <2>1 DEF m
    <3> QED BY <1>9, <3>1
  <2>3. r[i] = cs[m]
    BY <1>15
  <2>4. m = i + k /\ f + m = (f + k) + i
    BY <2>1
  <2> HIDE DEF m
  <2>5. r[i] = [seq |-> f + m - 1, data |-> g[f + m]]
    BY <2>2, <2>3
  <2>6. f + m - 1 = (f + k) + i - 1
    BY <1>1, <1>17, <2>4
  <2> QED BY ONLY <2>4, <2>5, <2>6
<1>21. f + k > 0 => ByteLen(Flat(g, f + k)) > Capacity
  <2>1. CASE k > 0
    <3>1. k - 1 \in 0 .. k - 1 /\ k - 1 \in 0 .. Len(cs) /\ f + (k - 1) + 1 = f + k
      BY <1>1, <1>13, <1>17, <2>1
    <3>2. left(k - 1) = ByteLen(Flat(g, f + k)) /\ left(k - 1) > Capacity
      BY <1>12, <1>13, <3>1
    <3> QED BY <3>2
  <2>2. CASE k = 0 /\ f > 0
    <3>1. f + k = f /\ f \in 1 .. Len(h) + 1
      BY <1>1, <2>2
    <3>2. /\ ByteLen(Flat(g, f)) = ByteLen(Flat(h, f)) + ByteLen(d)
          /\ ByteLen(Flat(h, f)) \in Nat /\ ByteLen(Flat(h, f)) > Capacity
      BY <1>7, <1>8, <2>2, <3>1
    <3> QED BY <1>2, <3>1, <3>2, OutputBufferAssumption
  <2> QED BY <1>1, <1>17, <2>1, <2>2
<1>22. BufferKept(e, g)
  <2>1. Len(r) <= Len(g)
    BY <1>1, <1>11, <1>15, <1>17
  <2> QED BY <1>4, <1>13, <1>16, <1>17, <1>18, <1>20, <1>21, <2>1 DEF BufferKept
<1> QED BY <1>0, <1>22 DEF g, d

-----------------------------------------------------------------------------
(* The terminal. Its lines are of the characters C: all, or ASCII only.    *)

Feeds == INSTANCE FoldTheorems WITH Op <- LAMBDA t, ch : Feed(t, ch)

Sized == [columns : Nat, rows : Nat]
Changes == [kind : {"none", "CosmeticChurn", "MeaningfulOutput"}, scrolled : Nat, chars : Nat]
Screens(C) == [size : Sized, screen : Seq(Seq(C)), scrollback : Seq(Seq(C)), row : Nat,
               col : Nat, revision : Nat, ok : BOOLEAN, change : Changes]
Terminals(C, size) ==
  {t \in Screens(C) : /\ t.size = size /\ Len(t.screen) = size.rows
                      /\ Len(t.scrollback) <= MaxScrollback}

\* The larger and the smaller of two numbers.
LEMMA LargerIs ==
  ASSUME NEW a \in Int, NEW b \in Int
  PROVE  Max({a, b}) = IF a >= b THEN a ELSE b
BY DEF Max
LEMMA SmallerIs ==
  ASSUME NEW a \in Int, NEW b \in Int
  PROVE  Min({a, b}) = IF a <= b THEN a ELSE b
BY DEF Min

\* Trimming leaves at most max lines.
LEMMA TrimmedKeeps ==
  ASSUME NEW T, NEW lines \in Seq(T), NEW max \in Nat
  PROVE  Trimmed(lines, max) \in Seq(T) /\ Len(Trimmed(lines, max)) <= max
<1> DEFINE n == Len(lines)
           m == Max({1, n - max + 1})
<1>1. n \in Nat
  OBVIOUS
<1> HIDE DEF n
<1>2. m = IF 1 >= n - max + 1 THEN 1 ELSE n - max + 1
  BY <1>1, LargerIs
<1> HIDE DEF m
<1>3. m \in 1 .. n + 1 /\ n - m + 1 <= max
  BY <1>1, <1>2
<1>4. SubSeq(lines, m, n) \in Seq(T) /\ Len(SubSeq(lines, m, n)) = n - m + 1
  BY <1>1, <1>3 DEF n
<1> QED BY <1>3, <1>4 DEF Trimmed, m, n

\* A line feed scrolls at most; it panics only on a terminal without rows.
LEMMA NewlineKeeps ==
  ASSUME NEW C, NEW size \in Sized, NEW t \in Terminals(C, size)
  PROVE  /\ Newline(t) \in Terminals(C, size)
         /\ size.rows > 0 => Newline(t).ok = t.ok
<1>1. /\ t \in Screens(C) /\ t.size = size /\ Len(t.screen) = size.rows
      /\ Len(t.scrollback) <= MaxScrollback
      /\ t.screen \in Seq(Seq(C)) /\ t.scrollback \in Seq(Seq(C))
      /\ t.row \in Nat /\ size.rows \in Nat /\ t.change \in Changes
  BY DEF Terminals, Screens, Sized
<1>2. CASE t.row + 1 < t.size.rows
  <2> DEFINE row == t.row + 1
             u == [t EXCEPT !.row = row, !.col = 0]
  <2>1. Newline(t) = u
    BY <1>2 DEF Newline
  <2>3. row \in Nat
    BY <1>1
  <2> HIDE DEF row
  <2>2. u \in Screens(C) /\ u.size = t.size /\ u.screen = t.screen
        /\ u.scrollback = t.scrollback /\ u.ok = t.ok
    BY <1>1, <2>3 DEF Screens
  <2> HIDE DEF u
  <2> QED BY <1>1, <2>1, <2>2 DEF Terminals
<1>3. CASE ~(t.row + 1 < t.size.rows) /\ t.screen = <<>>
  <2> DEFINE u == [t EXCEPT !.ok = FALSE]
  <2>1. Newline(t) = u
    BY <1>3 DEF Newline, Panicked
  <2>2. u \in Screens(C) /\ u.size = t.size /\ u.screen = t.screen
        /\ u.scrollback = t.scrollback
    BY <1>1 DEF Screens
  <2>3. size.rows = 0
    BY <1>1, <1>3
  <2> HIDE DEF u
  <2> QED BY <1>1, <2>1, <2>2, <2>3 DEF Terminals
<1>4. CASE ~(t.row + 1 < t.size.rows) /\ t.screen # <<>>
  <2> DEFINE screen == Append(Tail(t.screen), <<>>)
             back == Trimmed(Append(t.scrollback, Head(t.screen)), MaxScrollback)
             row == t.size.rows - 1
             u == [t EXCEPT !.row = row, !.col = 0, !.screen = screen,
                            !.scrollback = back, !.change.scrolled = @ + 1]
  <2>1. Newline(t) = u
    BY <1>4 DEF Newline
  <2>2. screen \in Seq(Seq(C)) /\ Len(screen) = size.rows /\ row \in Nat
    <3>1. Tail(t.screen) \in Seq(Seq(C)) /\ Len(Tail(t.screen)) = Len(t.screen) - 1
          /\ Len(t.screen) > 0
      BY <1>1, <1>4
    <3>2. <<>> \in Seq(C)
      OBVIOUS
    <3> QED BY <1>1, <3>1, <3>2
  <2>3. back \in Seq(Seq(C)) /\ Len(back) <= MaxScrollback
    <3>1. Append(t.scrollback, Head(t.screen)) \in Seq(Seq(C))
      BY <1>1, <1>4
    <3> QED BY <3>1, TrimmedKeeps, TerminalAssumption
  <2>4. [t.change EXCEPT !.scrolled = @ + 1] \in Changes
    <3> DEFINE x == t.change.scrolled + 1
    <3>1. x \in Nat /\ t.change \in Changes
      BY <1>1 DEF Changes
    <3> HIDE DEF x
    <3>2. [t.change EXCEPT !.scrolled = x] \in Changes
      BY ONLY <3>1 DEF Changes
    <3> QED BY <3>2 DEF x
  <2> HIDE DEF screen, back, row
  <2>5. u \in Screens(C) /\ u.size = t.size /\ u.screen = screen
        /\ u.scrollback = back /\ u.ok = t.ok
    BY <1>1, <2>2, <2>3, <2>4 DEF Screens
  <2> HIDE DEF u
  <2> QED BY <1>1, <2>1, <2>2, <2>3, <2>5 DEF Terminals
<1> QED BY <1>2, <1>3, <1>4

\* A tab moves the cursor; it panics only on a terminal without columns.
LEMMA TabKeeps ==
  ASSUME NEW C, NEW size \in Sized, NEW t \in Terminals(C, size)
  PROVE  /\ TabTo(t) \in Terminals(C, size)
         /\ size.columns > 0 => TabTo(t).ok = t.ok
<1> DEFINE next == (t.col \div TabStop + 1) * TabStop
           to == Min({next, size.columns - 1})
<1>1. /\ t \in Screens(C) /\ t.size = size /\ Len(t.screen) = size.rows
      /\ Len(t.scrollback) <= MaxScrollback /\ t.col \in Nat /\ size.columns \in Nat
  BY DEF Terminals, Screens, Sized
<1>2. next \in Nat
  BY <1>1 DEF TabStop
<1>3. size.columns > 0 => to \in Nat
  BY <1>1, <1>2, SmallerIs
<1>4. TabTo(t) = IF size.columns > 0 THEN [t EXCEPT !.col = to]
                 ELSE IF OverflowChecks THEN [t EXCEPT !.ok = FALSE]
                 ELSE [t EXCEPT !.col = next]
  BY <1>1 DEF TabTo, Panicked
<1> HIDE DEF to, next
<1>5. ASSUME NEW c \in Nat
      PROVE  [t EXCEPT !.col = c] \in Terminals(C, size) /\ [t EXCEPT !.col = c].ok = t.ok
  BY <1>1 DEF Terminals, Screens
<1>6. [t EXCEPT !.ok = FALSE] \in Terminals(C, size)
  BY <1>1 DEF Terminals, Screens
<1>7. CASE size.columns > 0
  <2>1. TabTo(t) = [t EXCEPT !.col = to] /\ to \in Nat
    BY <1>3, <1>4, <1>7
  <2>2. [t EXCEPT !.col = to] \in Terminals(C, size) /\ [t EXCEPT !.col = to].ok = t.ok
    BY <1>5, <2>1
  <2> QED BY <2>1, <2>2
<1>8. CASE ~(size.columns > 0)
  BY <1>2, <1>4, <1>5, <1>6, <1>8
<1> QED BY <1>7, <1>8

\* A line with another one character in it.
LEMMA PutCharKeeps ==
  ASSUME NEW C, Blank \in C, NEW size \in Sized, NEW t \in Terminals(C, size), NEW ch \in C
  PROVE  /\ PutChar(t, ch) \in Terminals(C, size)
         /\ C = AsciiChars => PutChar(t, ch).ok = t.ok
<1> DEFINE r == t.row + 1
           old == t.screen[r]
           pad == Max({0, t.col + 1 - ByteLen(old)})
           line == Padded(old, t.col)
           i == t.col + 1
<1>1. /\ t \in Screens(C) /\ t.size = size /\ Len(t.screen) = size.rows
      /\ Len(t.scrollback) <= MaxScrollback /\ t.col \in Nat /\ size.columns \in Nat
      /\ t.row \in Nat /\ size.rows \in Nat /\ t.screen \in Seq(Seq(C))
      /\ t.change \in Changes
  BY DEF Terminals, Screens, Sized
<1>2. CASE t.row >= t.size.rows
  BY <1>2 DEF PutChar
<1>3. CASE ~(t.row >= t.size.rows)
  <2>1. r \in 1 .. Len(t.screen) /\ old \in Seq(C) /\ i \in Nat \ {0}
    BY <1>1, <1>3
  <2> HIDE DEF old
  <2>2. pad \in Nat /\ ByteLen(old) \in Nat /\ ByteLen(old) + pad >= i
    <3>1. ByteLen(old) \in Nat
      BY <2>1, ByteLenSums
    <3>2. pad = IF 0 >= t.col + 1 - ByteLen(old) THEN 0 ELSE t.col + 1 - ByteLen(old)
      BY <1>1, <3>1, LargerIs
    <3> HIDE DEF pad
    <3> QED BY <1>1, <3>1, <3>2
  <2> HIDE DEF pad
  <2>3. line \in Seq(C) /\ Len(line) = Len(old) + pad
    <3> DEFINE blanks == [j \in 1 .. pad |-> Blank]
    <3>1. blanks \in Seq(C) /\ Len(blanks) = pad
      BY <2>2
    <3>2. line = old \o blanks
      BY DEF Padded, pad
    <3>3. old \in Seq(C) /\ Len(old) \in Nat
      BY <2>1
    <3> HIDE DEF blanks, line
    <3>4. line \in Seq(C) /\ Len(line) = Len(old) + Len(blanks)
      BY ONLY <3>1, <3>2, <3>3, ConcatProperties
    <3> QED BY <3>1, <3>4
  <2> HIDE DEF line, r
  <2>15. i = t.col + 1
    OBVIOUS
  <2> HIDE DEF i
  <2>4. ASSUME NEW l \in Seq(C)
        PROVE  /\ [t EXCEPT !.screen[r] = l] \in Terminals(C, size)
               /\ [t EXCEPT !.screen[r] = l].ok = t.ok
    <3>1. [t.screen EXCEPT ![r] = l] \in Seq(Seq(C)) /\ Len([t.screen EXCEPT ![r] = l]) = size.rows
      BY <1>1, <2>1
    <3> DEFINE x == [t.screen EXCEPT ![r] = l]
    <3> HIDE DEF x
    <3>2. [t EXCEPT !.screen = x] \in Terminals(C, size) /\ [t EXCEPT !.screen = x].ok = t.ok
      BY <1>1, <3>1 DEF Terminals, Screens, x
    <3> QED BY <3>2 DEF x
  <2>5. ASSUME NEW l \in Seq(C)
        PROVE  /\ [t EXCEPT !.screen[r] = l, !.col = @ + 1, !.change.chars = @ + 1]
                     \in Terminals(C, size)
               /\ [t EXCEPT !.screen[r] = l, !.col = @ + 1, !.change.chars = @ + 1].ok = t.ok
    <3> DEFINE x == [t.screen EXCEPT ![r] = l]
               y == t.col + 1
               n == t.change.chars + 1
               z == [t.change EXCEPT !.chars = n]
               u == [t EXCEPT !.screen = x, !.col = y, !.change = z]
    <3>1. x \in Seq(Seq(C)) /\ Len(x) = size.rows
      BY <1>1, <2>1
    <3>2. y \in Nat /\ n \in Nat
      BY <1>1 DEF Changes
    <3> HIDE DEF n
    <3>3. z \in Changes
      BY <1>1, <3>2 DEF Changes
    <3> HIDE DEF x, y, z
    <3>4. u \in Screens(C) /\ u.size = t.size /\ u.screen = x
          /\ u.scrollback = t.scrollback /\ u.ok = t.ok
      BY <1>1, <3>1, <3>2, <3>3 DEF Screens
    <3>5. u = [t EXCEPT !.screen[r] = l, !.col = @ + 1, !.change.chars = @ + 1]
      BY DEF x, y, z, n
    <3> HIDE DEF u
    <3>6. u \in Terminals(C, size)
      BY <1>1, <3>1, <3>4 DEF Terminals
    <3> QED BY <3>4, <3>5, <3>6
  <2> DEFINE put(l) == [t EXCEPT !.screen[r] = l, !.col = @ + 1, !.change.chars = @ + 1]
             over == Overwritten(line, i, ch)
  <2>6. PutChar(t, ch) =
          IF t.col >= t.size.columns THEN [t EXCEPT !.screen[r] = line]
          ELSE IF i > Len(line) THEN put(Append(line, ch))
          ELSE IF over = {} THEN Panicked(t)
          ELSE put(SubSeq(line, 1, t.col) \o <<ch>> \o SubSeq(line, Min(over) + 1, Len(line)))
    BY <1>3 DEF PutChar, r, old, line, i
  <2>7. ASSUME ~(i > Len(line)), over # {}
        PROVE  SubSeq(line, 1, t.col) \o <<ch>> \o SubSeq(line, Min(over) + 1, Len(line)) \in Seq(C)
    <3> DEFINE j == Min(over)
    <3>1. over \in SUBSET Nat /\ \A x \in over : x \in i .. Len(line)
      BY <2>1 DEF Overwritten
    <3>2. j \in i .. Len(line)
      BY <2>7, <3>1, LeastIs
    <3> HIDE DEF j
    <3> DEFINE m == j + 1
    <3>3. t.col \in 0 .. Len(line) /\ m \in 1 .. Len(line) + 1 /\ Len(line) \in Nat
      BY <1>1, <2>1, <2>3, <2>7, <2>15, <3>2
    <3> HIDE DEF m
    <3>4. SubSeq(line, 1, t.col) \in Seq(C) /\ SubSeq(line, m, Len(line)) \in Seq(C) /\ <<ch>> \in Seq(C)
      BY <2>3, <3>3
    <3>5. SubSeq(line, 1, t.col) \o <<ch>> \o SubSeq(line, m, Len(line)) \in Seq(C)
      BY ONLY <3>4
    <3> QED BY <3>5 DEF m, j
  <2>8. ASSUME C = AsciiChars, ~(i > Len(line)) PROVE over # {}
    <3>1. i \in i .. Len(line) /\ i \in 1 .. Len(line)
      BY <2>1, <2>3, <2>8
    <3>2. SubSeq(line, i, i) \in Seq(AsciiChars) /\ Len(SubSeq(line, i, i)) = 1
      BY <2>3, <2>8, <3>1
    <3>3. ByteLen(SubSeq(line, i, i)) = 1 /\ Width(ch) = 1
      BY <2>8, <3>2, ByteLenBounds, WidthIs
    <3> QED BY <3>1, <3>3 DEF Overwritten
  <2>9. Panicked(t) \in Terminals(C, size)
    BY <1>1 DEF Panicked, Terminals, Screens
  <2>10. Append(line, ch) \in Seq(C)
    BY <2>3
  <2> HIDE DEF over
  <2>11. CASE t.col >= t.size.columns
    <3>1. PutChar(t, ch) = [t EXCEPT !.screen[r] = line]
      BY <2>6, <2>11
    <3>2. line \in Seq(C)
      BY <2>3
    <3>3. [t EXCEPT !.screen[r] = line] \in Terminals(C, size)
          /\ [t EXCEPT !.screen[r] = line].ok = t.ok
      BY <2>4, <3>2
    <3> QED BY <3>1, <3>3
  <2>12. CASE ~(t.col >= t.size.columns) /\ i > Len(line)
    <3> DEFINE l == Append(line, ch)
    <3>1. PutChar(t, ch) = put(l)
      BY <2>6, <2>12
    <3>2. l \in Seq(C)
      BY <2>10
    <3> HIDE DEF l
    <3>3. put(l) \in Terminals(C, size) /\ put(l).ok = t.ok
      BY <2>5, <3>2
    <3> QED BY <3>1, <3>3
  <2>13. CASE ~(t.col >= t.size.columns) /\ ~(i > Len(line)) /\ over = {}
    BY <2>6, <2>8, <2>9, <2>13
  <2>14. CASE ~(t.col >= t.size.columns) /\ ~(i > Len(line)) /\ over # {}
    <3> DEFINE l == SubSeq(line, 1, t.col) \o <<ch>> \o SubSeq(line, Min(over) + 1, Len(line))
    <3>1. PutChar(t, ch) = put(l)
      BY <2>6, <2>14
    <3>2. l \in Seq(C)
      BY <2>7, <2>14
    <3> HIDE DEF l
    <3>3. put(l) \in Terminals(C, size) /\ put(l).ok = t.ok
      BY <2>5, <3>2
    <3> QED BY <3>1, <3>3
  <2> QED BY <2>11, <2>12, <2>13, <2>14
<1> QED BY <1>2, <1>3

\* A character keeps a terminal one; ASCII on a screen with rows and columns
\* does not make it panic.
LEMMA FeedKeeps ==
  ASSUME NEW C, Blank \in C, NEW size \in Sized, NEW t \in Terminals(C, size), NEW ch \in C
  PROVE  /\ Feed(t, ch) \in Terminals(C, size)
         /\ C = AsciiChars /\ size.rows > 0 /\ size.columns > 0 => Feed(t, ch).ok = t.ok
<1>1. t \in Screens(C) /\ t.size = size /\ Len(t.screen) = size.rows
      /\ Len(t.scrollback) <= MaxScrollback /\ t.change \in Changes
  BY DEF Terminals, Screens
<1>2. CASE ~t.ok
  BY <1>2 DEF Feed
<1>3. CASE t.ok
  <2>1. Feed(t, ch) =
         CASE ch.k = "nl"  -> Newline(t)
           [] ch.k = "cr"  -> [t EXCEPT !.col = 0]
           [] ch.k = "tab" -> TabTo(t)
           [] ch.k = "esc" -> [t EXCEPT !.change.kind = "CosmeticChurn"]
           [] OTHER        -> PutChar(t, ch)
    BY <1>3 DEF Feed
  <2>2. CASE ch.k = "nl"
    <3>1. Feed(t, ch) = Newline(t)
      BY <2>1, <2>2
    <3> QED BY <3>1, NewlineKeeps
  <2>3. CASE ch.k = "cr"
    <3>1. Feed(t, ch) = [t EXCEPT !.col = 0]
      BY <2>1, <2>3
    <3>2. [t EXCEPT !.col = 0] \in Terminals(C, size) /\ [t EXCEPT !.col = 0].ok = t.ok
      BY <1>1 DEF Terminals, Screens
    <3> QED BY <3>1, <3>2
  <2>4. CASE ch.k = "tab"
    <3>1. Feed(t, ch) = TabTo(t)
      BY <2>1, <2>4
    <3> QED BY <3>1, TabKeeps
  <2>5. CASE ch.k = "esc"
    <3> DEFINE x == [t.change EXCEPT !.kind = "CosmeticChurn"]
    <3>1. Feed(t, ch) = [t EXCEPT !.change = x]
      BY <2>1, <2>5
    <3>2. x \in Changes
      BY <1>1 DEF Changes
    <3> HIDE DEF x
    <3>3. [t EXCEPT !.change = x] \in Terminals(C, size) /\ [t EXCEPT !.change = x].ok = t.ok
      BY <1>1, <3>2 DEF Terminals, Screens
    <3> QED BY <3>1, <3>3
  <2>6. CASE ch.k # "nl" /\ ch.k # "cr" /\ ch.k # "tab" /\ ch.k # "esc"
    <3>1. Feed(t, ch) = PutChar(t, ch)
      BY ONLY <2>1, <2>6, Zenon
    <3> QED BY <3>1, PutCharKeeps
  <2> QED BY <2>2, <2>3, <2>4, <2>5, <2>6
<1> QED BY <1>2, <1>3

\* So does a string.
LEMMA TextKeeps ==
  ASSUME NEW C, Blank \in C, NEW size \in Sized, NEW t \in Terminals(C, size),
         NEW s \in Seq(C)
  PROVE  /\ TerminalAppended(t, s) \in Terminals(C, size)
         /\ C = AsciiChars /\ size.rows > 0 /\ size.columns > 0 /\ t.ok
              => TerminalAppended(t, s).ok
<1> DEFINE none == [kind |-> "none", scrolled |-> 0, chars |-> 0]
           start == [t EXCEPT !.change = none]
           fed == FoldLeft(Feed, start, s)
<1>1. \A u, cs : FoldLeft(Feed, u, cs) = Feeds!Fold(u, cs)
  BY DEF FoldLeft, MapThenFoldSet, Max,
         Feeds!Fold, Feeds!FoldLeft, Feeds!MapThenFoldSet, Feeds!Max
<1>2. start \in Terminals(C, size) /\ start.ok = t.ok
  <2>1. none \in Changes
    BY DEF Changes
  <2>2. t \in Screens(C) /\ t.size = size /\ Len(t.screen) = size.rows
        /\ Len(t.scrollback) <= MaxScrollback
    BY DEF Terminals
  <2> HIDE DEF none
  <2> QED BY <2>1, <2>2 DEF Terminals, Screens
<1> HIDE DEF start
<1>3. fed \in Terminals(C, size)
  <2> DEFINE S == Terminals(C, size)
  <2>1. \A u \in S, ch \in C : Feed(u, ch) \in S
    BY FeedKeeps
  <2>2. start \in S
    BY <1>2
  <2> HIDE DEF S
  <2>3. Feeds!Fold(start, s) \in S
    BY ONLY <2>1, <2>2, s \in Seq(C), Feeds!FoldKeeps
  <2> QED BY <1>1, <2>3 DEF S
<1>4. ASSUME C = AsciiChars, size.rows > 0, size.columns > 0, t.ok PROVE fed.ok
  <2> DEFINE S == {u \in Terminals(C, size) : u.ok}
  <2>1. \A u \in S, ch \in C : Feed(u, ch) \in S
    BY <1>4, FeedKeeps
  <2>2. start \in S
    BY <1>2, <1>4
  <2> HIDE DEF S
  <2>3. Feeds!Fold(start, s) \in S
    BY ONLY <2>1, <2>2, s \in Seq(C), Feeds!FoldKeeps
  <2> QED BY <1>1, <2>3 DEF S
<1> DEFINE end == [fed EXCEPT !.change.kind = "MeaningfulOutput", !.revision = @ + 1]
<1>5. TerminalAppended(t, s) = IF s = <<>> THEN t ELSE IF fed.ok /\ fed.change.chars > 0 THEN end ELSE fed
  BY DEF TerminalAppended, start
<1> HIDE DEF fed
<1>6. end \in Terminals(C, size) /\ end.ok = fed.ok
  <2> DEFINE x == [fed.change EXCEPT !.kind = "MeaningfulOutput"]
             n == fed.revision + 1
  <2>1. fed \in Screens(C) /\ fed.size = size /\ Len(fed.screen) = size.rows
        /\ Len(fed.scrollback) <= MaxScrollback /\ fed.change \in Changes /\ fed.revision \in Nat
    BY <1>3 DEF Terminals, Screens
  <2>2. x \in Changes /\ n \in Nat
    BY <2>1 DEF Changes
  <2> HIDE DEF x, n
  <2>3. [fed EXCEPT !.change = x, !.revision = n] \in Terminals(C, size)
        /\ [fed EXCEPT !.change = x, !.revision = n].ok = fed.ok
    BY <2>1, <2>2 DEF Terminals, Screens
  <2> QED BY <2>3 DEF x, n
<1> HIDE DEF end
<1> QED BY <1>3, <1>4, <1>5, <1>6

\* A line of ASCII can be cut anywhere, and what is left of a line is of its characters.
LEMMA LineCut ==
  ASSUME NEW T, NEW line \in Seq(T), NEW bytes \in Nat
  PROVE  /\ ~TruncatePanics(line, bytes) => TruncateLine(line, bytes) \in Seq(T)
         /\ T = AsciiChars => ~TruncatePanics(line, bytes)
<1>1. \A p \in Prefixes(line) : p \in Seq(T)
  BY DEF Prefixes
<1>2. ASSUME ~TruncatePanics(line, bytes) PROVE TruncateLine(line, bytes) \in Seq(T)
  <2>1. CASE ByteLen(line) <= bytes
    BY <2>1 DEF TruncateLine
  <2>2. CASE ~(ByteLen(line) <= bytes)
    <3>1. ByteLen(line) > bytes
      BY <2>2, ByteLenSums
    <3>2. \E p \in Prefixes(line) : ByteLen(p) = bytes
      BY <1>2, <3>1 DEF TruncatePanics
    <3> QED BY <1>1, <2>2, <3>2 DEF TruncateLine
  <2> QED BY <2>1, <2>2
<1>3. ASSUME T = AsciiChars, ByteLen(line) > bytes PROVE \E p \in Prefixes(line) : ByteLen(p) = bytes
  <2> DEFINE p == SubSeq(line, 1, bytes)
  <2>1. ByteLen(line) = Len(line) /\ bytes \in 0 .. Len(line)
    BY <1>3, ByteLenBounds
  <2>2. p \in Seq(AsciiChars) /\ Len(p) = bytes /\ p \in Prefixes(line)
    BY <1>3, <2>1 DEF Prefixes
  <2>3. ByteLen(p) = bytes
    BY <2>2, ByteLenBounds
  <2> QED BY <2>2, <2>3
<1> QED BY <1>2, <1>3 DEF TruncatePanics

\* A new size keeps a terminal one, of that size if it does not panic; ASCII
\* does not make it panic, whatever the size and wherever the cursor.
LEMMA ResizedKeeps ==
  ASSUME NEW C, NEW old \in Sized, NEW t \in Terminals(C, old), NEW size \in Sized
  PROVE  /\ Resized(t, size) \in Terminals(C, size) \cup Terminals(C, old)
         /\ C = AsciiChars =>
              Resized(t, size) \in Terminals(C, size) /\ Resized(t, size).ok = t.ok
<1> DEFINE r == ResizedRows(t, size.rows)
<1>1. /\ t \in Screens(C) /\ t.size = old /\ Len(t.screen) = old.rows
      /\ old.rows \in Nat /\ size.rows \in Nat /\ size.columns \in Nat
      /\ t.screen \in Seq(Seq(C)) /\ t.scrollback \in Seq(Seq(C)) /\ t.revision \in Nat
  BY DEF Terminals, Screens, Sized
<1>2. /\ r \in Screens(C) /\ Len(r.screen) = size.rows /\ r.ok = t.ok
  <2>1. CASE size.rows > t.size.rows
    <3> DEFINE n == size.rows - old.rows
               x == t.screen \o BlankLines(n)
    <3>1. n \in Nat /\ old.rows + n = size.rows
      BY <1>1, <2>1
    <3> HIDE DEF n
    <3>2. BlankLines(n) \in Seq(Seq(C)) /\ Len(BlankLines(n)) = n
      BY <3>1 DEF BlankLines
    <3>3. x \in Seq(Seq(C)) /\ Len(x) = size.rows
      <4> DEFINE y == BlankLines(n)
                 z == t.screen
      <4>1. y \in Seq(Seq(C)) /\ Len(y) = n /\ z \in Seq(Seq(C)) /\ Len(z) = old.rows
        BY <1>1, <3>2
      <4> HIDE DEF y, z
      <4>2. z \o y \in Seq(Seq(C)) /\ Len(z \o y) = Len(z) + Len(y)
        BY ONLY <4>1, ConcatProperties
      <4>3. z \o y = x
        BY DEF y, z
      <4> QED BY ONLY <3>1, <4>1, <4>2, <4>3
    <3>4. r = [t EXCEPT !.screen = x]
      BY <1>1, <2>1 DEF ResizedRows, n
    <3> HIDE DEF x, r
    <3>5. [t EXCEPT !.screen = x] \in Screens(C) /\ [t EXCEPT !.screen = x].screen = x
          /\ [t EXCEPT !.screen = x].ok = t.ok
      BY <1>1, <3>3 DEF Screens
    <3> QED BY <3>3, <3>4, <3>5
  <2>2. CASE ~(size.rows > t.size.rows)
    <3> DEFINE n == old.rows - size.rows
               m == size.rows + 1
               x == SubSeq(t.screen, 1, size.rows)
               moved == [i \in 1 .. n |-> t.screen[m]]
               y == t.scrollback \o moved
    <3>1. n \in Nat /\ (n > 0 => m \in 1 .. Len(t.screen)) /\ size.rows \in 0 .. Len(t.screen)
      BY <1>1, <2>2
    <3>2. r = [t EXCEPT !.screen = x, !.scrollback = y]
      BY <1>1, <2>2 DEF ResizedRows
    <3>3. x \in Seq(Seq(C)) /\ Len(x) = size.rows
      BY <1>1, <3>1
    <3> HIDE DEF n, m
    <3>4. moved \in Seq(Seq(C))
      <4>1. \A i \in 1 .. n : t.screen[m] \in Seq(C)
        BY <1>1, <3>1
      <4> QED BY <3>1, <4>1
    <3> HIDE DEF moved
    <3>5. y \in Seq(Seq(C))
      BY <1>1, <3>4, ConcatProperties
    <3> HIDE DEF x, y, r
    <3>6. [t EXCEPT !.screen = x, !.scrollback = y] \in Screens(C)
          /\ [t EXCEPT !.screen = x, !.scrollback = y].screen = x
          /\ [t EXCEPT !.screen = x, !.scrollback = y].ok = t.ok
      BY <1>1, <3>3, <3>5 DEF Screens
    <3> QED BY <3>2, <3>3, <3>6
  <2> QED BY <2>1, <2>2
<1> DEFINE panics == \E i \in DOMAIN r.screen : TruncatePanics(r.screen[i], size.columns)
           u == [r EXCEPT !.size = size,
                          !.screen = [i \in DOMAIN @ |-> TruncateLine(@[i], size.columns)],
                          !.scrollback = Trimmed(@, MaxScrollback),
                          !.revision = @ + 1]
<1>3. Resized(t, size) = IF panics THEN Panicked(t) ELSE u
  BY DEF Resized
<1> HIDE DEF r
<1>4. r.screen \in Seq(Seq(C)) /\ r.scrollback \in Seq(Seq(C)) /\ r.revision \in Nat
  BY <1>2 DEF Screens
<1>5. Panicked(t) \in Terminals(C, old)
  <2>1. Len(t.scrollback) <= MaxScrollback
    BY DEF Terminals
  <2> QED BY <1>1, <2>1 DEF Panicked, Terminals, Screens
<1>6. ASSUME ~panics PROVE u \in Terminals(C, size) /\ u.ok = t.ok
  <2> DEFINE x == [i \in DOMAIN r.screen |-> TruncateLine(r.screen[i], size.columns)]
             y == Trimmed(r.scrollback, MaxScrollback)
             n == r.revision + 1
  <2>1. \A i \in DOMAIN r.screen : TruncateLine(r.screen[i], size.columns) \in Seq(C)
    <3> TAKE i \in DOMAIN r.screen
    <3>1. r.screen[i] \in Seq(C) /\ ~TruncatePanics(r.screen[i], size.columns)
      BY <1>4, <1>6
    <3> QED BY <1>1, <3>1, LineCut
  <2>2. x \in Seq(Seq(C)) /\ Len(x) = size.rows
    <3>1. DOMAIN r.screen = 1 .. size.rows /\ size.rows \in Nat
      BY <1>1, <1>2, <1>4
    <3> QED BY <2>1, <3>1
  <2>3. y \in Seq(Seq(C)) /\ Len(y) <= MaxScrollback
    BY <1>4, TrimmedKeeps, TerminalAssumption
  <2>4. n \in Nat
    BY <1>4
  <2>5. u = [r EXCEPT !.size = size, !.screen = x, !.scrollback = y, !.revision = n]
    OBVIOUS
  <2> HIDE DEF x, y, n, u
  <2> DEFINE w == [r EXCEPT !.size = size, !.screen = x, !.scrollback = y, !.revision = n]
  <2>6. w \in Screens(C) /\ w.size = size /\ w.screen = x /\ w.scrollback = y /\ w.ok = r.ok
    BY <1>2, <2>2, <2>3, <2>4 DEF Screens
  <2> HIDE DEF w
  <2> QED BY <1>2, <2>2, <2>3, <2>5, <2>6 DEF Terminals, w
<1>7. ASSUME C = AsciiChars PROVE ~panics
  <2> SUFFICES ASSUME NEW i \in DOMAIN r.screen PROVE ~TruncatePanics(r.screen[i], size.columns)
    OBVIOUS
  <2>1. r.screen[i] \in Seq(C)
    BY <1>4
  <2> QED BY <1>1, <1>7, <2>1, LineCut
<1> HIDE DEF panics, u
<1> QED BY <1>3, <1>5, <1>6, <1>7

\* The chunks a slice is put together of.
LEMMA SliceKeeps ==
  ASSUME NEW C, NEW b, NEW i \in 1 .. Len(b.chunks), b.chunks \in Seq(Chunks),
         \A j \in 1 .. Len(b.chunks) : b.chunks[j].data \in Seq(C)
  PROVE  SliceAt(b, i).data \in Seq(C)
<1> DEFINE n == Len(b.chunks) - i + 1
           parts == [j \in 1 .. n |-> b.chunks[i + j - 1].data]
<1>1. n \in Nat
  OBVIOUS
<1>2. \A j \in 1 .. n : b.chunks[i + j - 1].data \in Seq(C)
  <2> TAKE j \in 1 .. n
  <2> DEFINE k == i + j - 1
  <2>1. k \in 1 .. Len(b.chunks)
    OBVIOUS
  <2> HIDE DEF k
  <2>2. b.chunks[k].data \in Seq(C)
    BY <2>1
  <2> QED BY <2>2 DEF k
<1>3. SliceAt(b, i).data = FlattenSeq(parts)
  BY DEF SliceAt
<1> HIDE DEF n
<1>4. parts \in Seq(Seq(C))
  BY <1>1, <1>2
<1> HIDE DEF parts
<1> QED BY <1>3, <1>4, FlatType

\* Where a tail starts.
LEMMA TailFromIs ==
  ASSUME NEW b, NEW max, b.chunks \in Seq(Chunks), b.chunks # <<>>
  PROVE  TailFrom(b, max) \in 1 .. Len(b.chunks)
<1> DEFINE taken == [i \in DOMAIN b.chunks |-> Min({ByteLen(b.chunks[i].data), max})]
           collected(i) == FoldLeft(LAMBDA sum, n : sum + n, 0, SubSeq(taken, i, Len(taken)))
           S == {1} \cup {i \in DOMAIN b.chunks : collected(i) >= max}
<1>1. TailFrom(b, max) = Max(S)
  BY DEF TailFrom
<1>2. S \in SUBSET Nat /\ 1 \in S /\ Len(b.chunks) \in Nat
      /\ \A y \in S : y \in 1 .. Len(b.chunks)
  <2>1. Len(b.chunks) \in Nat /\ 1 \in 1 .. Len(b.chunks) /\ DOMAIN b.chunks = 1 .. Len(b.chunks)
    OBVIOUS
  <2> HIDE DEF collected
  <2> QED BY <2>1
<1> HIDE DEF S
<1>3. Max(S) \in S
  <2>1. \A y \in S : y <= Len(b.chunks)
    BY <1>2
  <2>2. Widths!Max(S) \in S
    BY <1>2, <2>1, Widths!MaxOfNaturals
  <2> QED BY <2>2 DEF Max, Widths!Max
<1> QED BY <1>1, <1>2, <1>3

\* A tail is of the characters of the chunks and not longer than asked for;
\* one of ASCII never panics.
LEMMA TailKeeps ==
  ASSUME NEW C, NEW b, NEW max \in Nat, b.chunks \in Seq(Chunks),
         \A j \in 1 .. Len(b.chunks) : b.chunks[j].data \in Seq(C)
  PROVE  /\ ~TailPanics(b, max) => /\ BufferTail(b, max).data \in Seq(C)
                                   /\ ByteLen(BufferTail(b, max).data) <= max
         /\ C = AsciiChars => ~TailPanics(b, max)
<1>1. CASE b.chunks = <<>> \/ max = 0
  BY <1>1, ByteLenSums DEF TailPanics, BufferTail, NoSlice
<1>2. CASE b.chunks # <<>> /\ max # 0
  <2> DEFINE x == SliceAt(b, TailFrom(b, max))
             s == x.data
  <2>1. s \in Seq(C) /\ ByteLen(s) \in Nat
    BY <1>2, TailFromIs, SliceKeeps, ByteLenSums
  <2>2. TailPanics(b, max) <=> ByteLen(s) > max /\ ~CutsClean(s, max)
    BY <1>2 DEF TailPanics
  <2>3. BufferTail(b, max).data = IF ByteLen(s) > max THEN LastBytes(s, max) ELSE s
    BY <1>2 DEF BufferTail, SliceAt
  <2> HIDE DEF s
  <2>4. ASSUME ~TailPanics(b, max)
        PROVE  BufferTail(b, max).data \in Seq(C) /\ ByteLen(BufferTail(b, max).data) <= max
    <3>1. CASE ByteLen(s) > max
      BY <2>1, <2>2, <2>3, <2>4, <3>1, LastBytesIs
    <3>2. CASE ~(ByteLen(s) > max)
      BY <2>1, <2>3, <3>2
    <3> QED BY <3>1, <3>2
  <2>5. ASSUME C = AsciiChars, ByteLen(s) > max PROVE CutsClean(s, max)
    <3>1. s \in Seq(AsciiChars) /\ max <= Len(s)
      BY <2>1, <2>5, ByteLenBounds
    <3> QED BY <3>1, AsciiCuts
  <2> QED BY <2>2, <2>4, <2>5
<1> QED BY <1>1, <1>2

-----------------------------------------------------------------------------
(* The invariant of the output.                                            *)

NonEmptyReads == Seq(RawChars) \ {<<>>}
ReadsKept ==
  /\ DOMAIN past = PastFields /\ past.reads \in Seq(NonEmptyReads)
  /\ ok \in BOOLEAN /\ kind \in {"pty", "log", "audit"}
  /\ buf.next = Len(past.reads) \/ (~ok /\ buf.next = Len(past.reads) - 1)
ScreenKept ==
  /\ past.sizes \subseteq {FirstSize} \cup Sizes
  /\ mux.size \in past.sizes /\ mux \in Terminals(Chars, mux.size)
  /\ ok => mux.ok
RecordKept ==
  /\ record \in [sequence : Nat, tail : Seq(Chars)] /\ ByteLen(record.tail) <= TailBytes
  /\ ok /\ past.reads # <<>> =>
       /\ ~TailPanics(buf, TailBytes)
       /\ record = [sequence |-> buf.next - 1, tail |-> BufferTail(buf, TailBytes).data]
ViewsKept ==
  /\ DOMAIN views \subseteq Viewers /\ \A v \in DOMAIN views : views[v] \in ViewSizes
AsciiKept ==
  AsciiOnly /\ NeverEmpty =>
    ok /\ mux \in Terminals(AsciiChars, mux.size) /\ History \in Seq(Seq(AsciiChars))
OutputInv ==
  ReadsKept /\ BufferKept(buf, History) /\ ScreenKept /\ RecordKept /\ ViewsKept /\ AsciiKept

\* The constants.
LEMMA SizesAre ==
  /\ {FirstSize} \cup Sizes \subseteq Sized /\ ViewSizes \subseteq Sized
  /\ TailBytes \in Nat /\ Reads \subseteq Seq(Bytes) \ {<<>>}
BY TextAssumption DEF Sized

\* A blank is one of the characters.
LEMMA BlankIs == Blank \in Chars /\ Blank \in AsciiChars
BY DEF Blank, Chars, AsciiChars, AsciiKinds, Kinds

\* A terminal with no lines used.
LEMMA NewTerminalIs ==
  ASSUME NEW C, NEW size \in Sized
  PROVE  NewTerminal(size) \in Terminals(C, size) /\ NewTerminal(size).ok
<1> DEFINE t == NewTerminal(size)
<1>1. size.rows \in Nat
  BY DEF Sized
<1> DEFINE n == size.rows
           lines == BlankLines(n)
           c == [kind |-> "none", scrolled |-> 0, chars |-> 0]
<1>2. lines \in Seq(Seq(C)) /\ Len(lines) = n
  <2> HIDE DEF n
  <2>1. n \in Nat
    BY <1>1 DEF n
  <2> QED BY <2>1 DEF BlankLines
<1>3. c \in Changes
  BY DEF Changes
<1> HIDE DEF lines, c
<1>4. /\ t = [size |-> size, screen |-> lines, scrollback |-> <<>>, row |-> 0, col |-> 0,
              revision |-> 0, ok |-> TRUE, change |-> c]
  BY DEF NewTerminal, lines, c
<1>6. <<>> \in Seq(Seq(C))
  OBVIOUS
<1> HIDE DEF t, n
<1>7. t \in Screens(C) /\ t.size = size /\ t.screen = lines /\ t.scrollback = <<>> /\ t.ok
  BY ONLY <1>2, <1>3, <1>4, <1>6, size \in Sized DEF Screens
<1>5. Len(t.scrollback) <= MaxScrollback
  BY <1>7, TerminalAssumption
<1> QED BY <1>2, <1>5, <1>7 DEF Terminals, t, n

\* The invariant holds at the start.
LEMMA OutputInit == Init => OutputInv
<1> SUFFICES ASSUME Init PROVE OutputInv
  OBVIOUS
<1>1. /\ past.reads = <<>> /\ past.sizes = {FirstSize} /\ DOMAIN past = PastFields
      /\ mux = NewTerminal(FirstSize) /\ views = << >> /\ ok = TRUE
      /\ kind \in {"pty", "log", "audit"}
      /\ record = [sequence |-> 0, tail |-> <<>>]
      /\ buf = [chunks |-> <<>>, size |-> 0, next |-> 0]
  BY DEF Init, NewBuffer, PastFields
<1>2. History = <<>>
  BY <1>1 DEF History
<1>3. ReadsKept /\ ViewsKept
  BY <1>1 DEF ReadsKept, ViewsKept
<1>4. BufferKept(buf, History)
  <2>1. SubSeq(<<>>, 1, Len(<<>>)) = <<>>
    OBVIOUS
  <2>2. Flat(<<>>, 1) = <<>>
    BY <2>1, FlatNone DEF Flat
  <2>3. buf \in [chunks : Seq(Chunks), size : Nat, next : Nat] /\ History \in Seq(Strings)
        /\ Len(buf.chunks) = 0 /\ Len(History) = 0 /\ buf.size = 0 /\ buf.next = 0
    BY <1>1, <1>2
  <2>4. Dropped(buf) = 0 /\ Flat(History, Dropped(buf) + 1) = <<>>
    BY <1>2, <2>2, <2>3 DEF Dropped
  <2>5. ByteLen(<<>>) = 0 /\ 0 <= Capacity
    BY ByteLenSums, OutputBufferAssumption
  <2> QED BY <2>3, <2>4, <2>5 DEF BufferKept
<1>5. \A C : mux \in Terminals(C, FirstSize) /\ mux.ok /\ mux.size = FirstSize
  BY <1>1, SizesAre, NewTerminalIs DEF Terminals
<1>6. ScreenKept /\ AsciiKept
  BY <1>1, <1>2, <1>5 DEF ScreenKept, AsciiKept
<1>7. RecordKept
  <2>1. ByteLen(<<>>) <= TailBytes
    BY SizesAre, ByteLenSums
  <2> QED BY <1>1, <2>1 DEF RecordKept
<1> QED BY <1>3, <1>4, <1>6, <1>7 DEF OutputInv

\* What the calls of the other stores do not touch.
LEMMA OutputUntouched ==
  ASSUME OutputInv, kind' = kind, UNCHANGED runtimeVars, DOMAIN past' = DOMAIN past,
         past'.reads = past.reads, past'.sizes = past.sizes
  PROVE  OutputInv'
<1>1. buf' = buf /\ mux' = mux /\ views' = views /\ record' = record /\ ok' = ok
  BY DEF runtimeVars
<1>2. History' = History
  BY <1>1 DEF History
<1>3. (AsciiOnly <=> AsciiOnly') /\ (NeverEmpty <=> NeverEmpty')
  BY DEF AsciiOnly, NeverEmpty
<1>4. ReadsKept'
  BY <1>1 DEF OutputInv, ReadsKept
<1>5. BufferKept(buf, History)'
  BY <1>1, <1>2 DEF OutputInv
<1>6. ScreenKept'
  BY <1>1 DEF OutputInv, ScreenKept
<1>7. RecordKept' /\ ViewsKept'
  BY <1>1 DEF OutputInv, RecordKept, ViewsKept
<1>8. AsciiKept'
  BY <1>1, <1>2, <1>3 DEF OutputInv, AsciiKept
<1> QED BY <1>4, <1>5, <1>6, <1>7, <1>8 DEF OutputInv

\* A read numbered.
LEMMA NumberedIs ==
  ASSUME NEW b \in Reads, past.reads \in Seq(NonEmptyReads)
  PROVE  Numbered(b) \in NonEmptyReads
<1> DEFINE n == Len(FlattenSeq(past.reads))
<1>1. n \in Nat
  <2>1. past.reads \in Seq(Seq(RawChars))
    BY DEF NonEmptyReads
  <2>2. FlattenSeq(past.reads) \in Seq(RawChars)
    BY <2>1, FlatType
  <2> QED BY <2>2
<1>2. b \in Seq(Bytes) /\ b # <<>>
  BY SizesAre
<1>3. Numbered(b) = [i \in 1 .. Len(b) |-> [k |-> b[i], n |-> i + n]]
  BY <1>2 DEF Numbered
<1> HIDE DEF n
<1>4. \A i \in 1 .. Len(b) : [k |-> b[i], n |-> i + n] \in RawChars
  BY <1>1, <1>2 DEF RawChars
<1> DEFINE r == [i \in 1 .. Len(b) |-> [k |-> b[i], n |-> i + n]]
<1>5. r \in Seq(RawChars) /\ Len(r) = Len(b)
  BY <1>2, <1>4
<1> HIDE DEF r
<1>6. r # <<>>
  BY <1>2, <1>5
<1> QED BY <1>3, <1>5, <1>6 DEF NonEmptyReads, r

\* PollRead takes over its text, or panics before it does.
LEMMA PollReadKeeps ==
  ASSUME OutputInv, NEW b \in Reads, PollRead(b)
  PROVE  OutputInv'
<1> DEFINE raw == Numbered(b)
           text == Lossy(raw)
           reads == past.reads
           size == mux.size
<1>1. /\ DOMAIN past = PastFields /\ reads \in Seq(NonEmptyReads)
      /\ ok = TRUE /\ kind \in {"pty", "log", "audit"} /\ buf.next = Len(reads)
      /\ reads \in Seq(Seq(RawChars))
  BY DEF OutputInv, ReadsKept, PollRead, NonEmptyReads
<1>2. raw \in NonEmptyReads /\ raw \in Seq(RawChars) /\ raw # <<>>
  BY <1>1, NumberedIs DEF NonEmptyReads
<1>3. /\ kind' = kind /\ views' = views /\ DOMAIN past' = PastFields
      /\ past'.reads = Append(reads, raw) /\ past'.sizes = past.sizes
  BY <1>1 DEF PollRead, PastFields
<1>4. /\ text \in Seq(Chars) /\ text # <<>>
      /\ (\A i \in DOMAIN raw : raw[i].k \notin Wide) => text \in Seq(AsciiChars)
  BY <1>2, LossyKeeps
<1>5. /\ TruncationPanics(text) => ok' = FALSE /\ buf' = buf /\ mux' = mux /\ record' = record
      /\ ~TruncationPanics(text) =>
           /\ buf' = Appended(buf, text) /\ mux' = TerminalAppended(mux, text)
           /\ ok' = (mux'.ok /\ ~TailPanics(buf', TailBytes))
           /\ record' = [sequence |-> IF mux'.ok THEN buf'.next - 1 ELSE record.sequence,
                         tail |-> IF ok' THEN BufferTail(buf', TailBytes).data ELSE record.tail]
  BY DEF PollRead
<1> HIDE DEF raw, text
<1>6. /\ past'.reads \in Seq(NonEmptyReads) /\ Len(past'.reads) = Len(reads) + 1
      /\ Len(reads) \in Nat /\ past'.reads[Len(reads) + 1] = raw
      /\ \A i \in 1 .. Len(reads) : past'.reads[i] = reads[i]
  BY <1>1, <1>2, <1>3
<1>7. /\ mux \in Terminals(Chars, size) /\ size \in past.sizes /\ size \in Sized
      /\ past.sizes \subseteq {FirstSize} \cup Sizes
  BY SizesAre DEF OutputInv, ScreenKept
<1>8. BufferKept(buf, History) /\ History \in Seq(Strings) /\ Len(History) = buf.next
  BY DEF OutputInv, BufferKept
<1>9. ViewsKept'
  BY <1>3 DEF OutputInv, ViewsKept
<1>10. ASSUME AsciiOnly', NeverEmpty'
       PROVE  /\ AsciiOnly /\ NeverEmpty /\ text \in Seq(AsciiChars)
              /\ size.rows > 0 /\ size.columns > 0
              /\ mux \in Terminals(AsciiChars, size) /\ History \in Seq(Seq(AsciiChars))
  <2>1. NeverEmpty /\ size.rows > 0 /\ size.columns > 0
    BY <1>3, <1>7, <1>10 DEF NeverEmpty
  <2>2. DOMAIN past'.reads = 1 .. Len(reads) + 1 /\ DOMAIN reads = 1 .. Len(reads)
    BY <1>1, <1>6
  <2>3. \A i \in 1 .. Len(reads) + 1 : \A j \in DOMAIN past'.reads[i] :
          past'.reads[i][j].k \notin Wide
    BY <1>10, <2>2 DEF AsciiOnly
  <2>4. Len(reads) + 1 \in 1 .. Len(reads) + 1 /\ 1 .. Len(reads) \subseteq 1 .. Len(reads) + 1
    BY <1>6
  <2>5. \A j \in DOMAIN raw : raw[j].k \notin Wide
    BY <1>6, <2>3, <2>4
  <2>6. AsciiOnly
    BY <1>6, <2>2, <2>3, <2>4 DEF AsciiOnly
  <2> QED BY <1>4, <2>1, <2>5, <2>6 DEF OutputInv, AsciiKept
<1>11. CASE TruncationPanics(text)
  <2>1. ok' = FALSE /\ buf' = buf /\ mux' = mux /\ record' = record
    BY <1>5, <1>11
  <2>2. History' = History
    <3>1. \A i \in 1 .. buf.next : past'.reads[i] = reads[i]
      BY <1>1, <1>6
    <3> QED BY <2>1, <3>1 DEF History
  <2>3. ~(AsciiOnly' /\ NeverEmpty')
    BY <1>10, <1>11, AsciiTruncated
  <2>4. ReadsKept'
    <3>1. buf'.next = Len(past'.reads) - 1
      BY <1>1, <1>6, <2>1
    <3> QED BY <1>1, <1>3, <1>6, <2>1, <3>1 DEF ReadsKept
  <2>5. ScreenKept' /\ RecordKept' /\ AsciiKept'
    BY <1>3, <1>7, <2>1, <2>3 DEF OutputInv, ScreenKept, RecordKept, AsciiKept
  <2> QED BY <1>8, <1>9, <2>1, <2>2, <2>4, <2>5 DEF OutputInv
<1>12. CASE ~TruncationPanics(text)
  <2> DEFINE d == Truncated(text)
             g == Append(History, d)
  <2>1. /\ buf' = Appended(buf, text) /\ mux' = TerminalAppended(mux, text)
        /\ ok' = (mux'.ok /\ ~TailPanics(buf', TailBytes))
        /\ record' = [sequence |-> IF mux'.ok THEN buf'.next - 1 ELSE record.sequence,
                      tail |-> IF ok' THEN BufferTail(buf', TailBytes).data ELSE record.tail]
    BY <1>5, <1>12
  <2>2. BufferKept(buf', g) /\ d \in Strings
    BY <1>4, <1>8, <1>12, <2>1, AppendKeeps, TruncatedIs
  <2>3. buf'.next = Len(reads) + 1 /\ g \in Seq(Strings) /\ Len(g) = buf'.next
    BY <1>1, <1>8, <2>2 DEF BufferKept
  <2>4. History' = g
    <3>1. History = [i \in 1 .. Len(reads) |-> Truncated(Lossy(reads[i]))]
      BY <1>1 DEF History
    <3>2. History' = [i \in 1 .. Len(reads) + 1 |-> Truncated(Lossy(past'.reads[i]))]
      BY <2>3 DEF History
    <3>3. \A i \in 1 .. Len(reads) : Truncated(Lossy(past'.reads[i])) = History[i]
      BY <1>6, <3>1
    <3>4. Truncated(Lossy(past'.reads[Len(reads) + 1])) = d
      BY <1>6 DEF text
    <3>5. Len(History) = Len(reads) /\ History \in Seq(Strings)
      BY <1>1, <1>8
    <3>6. \A i \in 1 .. Len(reads) + 1 : g[i] = Truncated(Lossy(past'.reads[i]))
      <4> TAKE i \in 1 .. Len(reads) + 1
      <4>1. CASE i = Len(reads) + 1
        BY <1>6, <3>4, <3>5, <4>1
      <4>2. CASE i # Len(reads) + 1
        BY <1>6, <3>3, <3>5, <4>2
      <4> QED BY <4>1, <4>2
    <3>7. g \in Seq(Strings) /\ Len(g) = Len(reads) + 1
      BY <2>3
    <3> HIDE DEF g
    <3> QED BY <3>2, <3>6, <3>7
  <2> HIDE DEF g
  <2>5. BufferKept(buf, History)'
    BY <2>2, <2>4
  <2>6. ReadsKept'
    BY <1>1, <1>3, <1>6, <2>1, <2>3 DEF ReadsKept
  <2>7. mux' \in Terminals(Chars, size) /\ mux'.size = size
    <3>1. mux' \in Terminals(Chars, size)
      BY <1>4, <1>7, <2>1, BlankIs, TextKeeps
    <3> QED BY <3>1 DEF Terminals
  <2>8. ScreenKept'
    BY <1>3, <1>7, <2>1, <2>7 DEF ScreenKept
  <2>9. buf'.chunks \in Seq(Chunks) /\ \A j \in 1 .. Len(buf'.chunks) : buf'.chunks[j].data \in Seq(Chars)
    <3>1. buf'.chunks \in Seq(Chunks)
      BY <2>2 DEF BufferKept
    <3>2. \A j \in 1 .. Len(buf'.chunks) : buf'.chunks[j] \in Chunks
      BY <3>1
    <3>3. \A x \in Chunks : x.data \in Seq(Chars)
      BY DEF Chunks, Strings
    <3> QED BY <3>1, <3>2, <3>3
  <2>10. RecordKept'
    <3>1. ~TailPanics(buf', TailBytes) =>
            /\ BufferTail(buf', TailBytes).data \in Seq(Chars)
            /\ ByteLen(BufferTail(buf', TailBytes).data) <= TailBytes
      BY <2>9, SizesAre, TailKeeps
    <3>2. /\ record.sequence \in Nat /\ record.tail \in Seq(Chars)
          /\ ByteLen(record.tail) <= TailBytes /\ buf'.next - 1 \in Nat
      BY <1>6, <2>3 DEF OutputInv, RecordKept
    <3> QED BY <2>1, <3>1, <3>2 DEF RecordKept
  <2>11. AsciiKept'
    <3> SUFFICES ASSUME AsciiOnly', NeverEmpty'
                 PROVE  /\ ok' /\ mux' \in Terminals(AsciiChars, size)
                        /\ g \in Seq(Seq(AsciiChars))
      BY <2>4, <2>7 DEF AsciiKept
    <3>1. mux' \in Terminals(AsciiChars, size) /\ mux'.ok
      <4>1. mux.ok
        BY <1>1 DEF OutputInv, ScreenKept
      <4> QED BY <1>7, <1>10, <2>1, <4>1, BlankIs, TextKeeps
    <3>2. g \in Seq(Seq(AsciiChars))
      <4>1. d \in Seq(AsciiChars)
        BY <1>4, <1>10, AsciiTruncated
      <4> QED BY <1>10, <4>1 DEF g
    <3>3. \A j \in 1 .. Len(buf'.chunks) : buf'.chunks[j].data \in Seq(AsciiChars)
      <4> TAKE j \in 1 .. Len(buf'.chunks)
      <4> DEFINE m == Dropped(buf') + j
      <4>1. buf'.chunks[j].data = g[m]
        <5>1. buf'.chunks[j] = [seq |-> Dropped(buf') + j - 1, data |-> g[Dropped(buf') + j]]
          BY <2>2 DEF BufferKept
        <5> QED BY <5>1
      <4>2. m \in 1 .. Len(g)
        BY <2>2, <2>3 DEF BufferKept, Dropped
      <4> HIDE DEF m
      <4>3. g[m] \in Seq(AsciiChars)
        BY <3>2, <4>2
      <4> QED BY <4>1, <4>3
    <3>4. ~TailPanics(buf', TailBytes)
      BY <2>9, <3>3, SizesAre, TailKeeps
    <3> QED BY <2>1, <3>1, <3>2, <3>4
  <2> QED BY <1>9, <2>5, <2>6, <2>8, <2>10, <2>11 DEF OutputInv
<1> QED BY <1>11, <1>12

\* ResizeTerminal adds its size, or panics under the one before.
LEMMA ResizeKeeps ==
  ASSUME OutputInv, NEW size \in Sizes, ResizeTerminal(size)
  PROVE  OutputInv'
<1>1. /\ kind' = kind /\ views' = views /\ buf' = buf /\ record' = record
      /\ mux' = Resized(mux, size) /\ ok' = mux'.ok /\ ok = TRUE
  BY DEF ResizeTerminal
<1>2. /\ DOMAIN past' = PastFields /\ past'.reads = past.reads
      /\ past'.sizes = past.sizes \cup {size}
  BY DEF ResizeTerminal, OutputInv, ReadsKept, PastFields
<1>3. /\ mux \in Terminals(Chars, mux.size) /\ mux.size \in past.sizes /\ mux.size \in Sized
      /\ size \in Sized /\ past.sizes \subseteq {FirstSize} \cup Sizes /\ mux.ok
  BY <1>1, SizesAre DEF OutputInv, ScreenKept
<1>4. mux' \in Terminals(Chars, size) \cup Terminals(Chars, mux.size)
  BY <1>1, <1>3, ResizedKeeps
<1>5. mux'.size \in past'.sizes /\ mux' \in Terminals(Chars, mux'.size) /\ mux'.ok \in BOOLEAN
  BY <1>2, <1>3, <1>4 DEF Terminals, Screens
<1>6. History' = History
  BY <1>1, <1>2 DEF History
<1>7. AsciiOnly' = AsciiOnly /\ (NeverEmpty' => NeverEmpty)
  BY <1>2 DEF AsciiOnly, NeverEmpty
<1>8. ReadsKept' /\ BufferKept(buf, History)' /\ ViewsKept'
  BY <1>1, <1>2, <1>5, <1>6 DEF OutputInv, ReadsKept, ViewsKept
<1>9. ScreenKept'
  BY <1>1, <1>2, <1>3, <1>5 DEF ScreenKept
<1>10. RecordKept'
  BY <1>1, <1>2 DEF OutputInv, RecordKept
<1>11. AsciiKept'
  <2> SUFFICES ASSUME AsciiOnly', NeverEmpty'
               PROVE  /\ ok' /\ mux' \in Terminals(AsciiChars, mux'.size)
                      /\ History' \in Seq(Seq(AsciiChars))
    BY DEF AsciiKept
  <2>1. ok /\ mux \in Terminals(AsciiChars, mux.size) /\ History \in Seq(Seq(AsciiChars))
    BY <1>7 DEF OutputInv, AsciiKept
  <2>2. mux' \in Terminals(AsciiChars, size) /\ mux'.ok = mux.ok
    BY <1>1, <1>3, <2>1, ResizedKeeps
  <2>3. mux'.size = size
    BY <2>2 DEF Terminals
  <2> QED BY <1>1, <1>3, <1>6, <2>1, <2>2, <2>3
<1> QED BY <1>8, <1>9, <1>10, <1>11 DEF OutputInv

\* Viewports come and go.
LEMMA ViewsKeep ==
  ASSUME OutputInv, NEW v \in Viewers,
         RemoveViewport(v) \/ \E size \in ViewSizes : UpdateViewport(v, size)
  PROVE  OutputInv'
<1>1. /\ kind' = kind /\ buf' = buf /\ mux' = mux /\ record' = record /\ ok' = ok /\ past' = past
  BY DEF RemoveViewport, UpdateViewport
<1>2. History' = History
  BY <1>1 DEF History
<1>3. (AsciiOnly <=> AsciiOnly') /\ (NeverEmpty <=> NeverEmpty')
  BY <1>1 DEF AsciiOnly, NeverEmpty
<1>4. DOMAIN views \subseteq Viewers /\ \A w \in DOMAIN views : views[w] \in ViewSizes
  BY DEF OutputInv, ViewsKept
<1>5. ViewsKept'
  <2>1. CASE RemoveViewport(v)
    BY <1>4, <2>1 DEF RemoveViewport, ViewsKept
  <2>2. CASE \E size \in ViewSizes : UpdateViewport(v, size)
    BY <1>4, <2>2 DEF UpdateViewport, ViewsKept
  <2> QED BY <2>1, <2>2
<1>6. ReadsKept' /\ BufferKept(buf, History)'
  BY <1>1, <1>2 DEF OutputInv, ReadsKept
<1>7. ScreenKept' /\ RecordKept'
  BY <1>1 DEF OutputInv, ScreenKept, RecordKept
<1>8. AsciiKept'
  BY <1>1, <1>2, <1>3 DEF OutputInv, AsciiKept
<1> QED BY <1>5, <1>6, <1>7, <1>8 DEF OutputInv

\* Every step keeps it.
LEMMA OutputStep == OutputInv /\ [Next]_vars => OutputInv'
<1> SUFFICES ASSUME OutputInv, [Next]_vars PROVE OutputInv'
  OBVIOUS
<1>1. DOMAIN past = PastFields
  BY DEF OutputInv, ReadsKept
<1>2. ASSUME NEW b \in Reads, PollRead(b) PROVE OutputInv'
  BY <1>2, PollReadKeeps
<1>3. ASSUME NEW size \in Sizes, ResizeTerminal(size) PROVE OutputInv'
  BY <1>3, ResizeKeeps
<1>4. ASSUME NEW v \in Viewers,
             RemoveViewport(v) \/ \E size \in ViewSizes : UpdateViewport(v, size)
      PROVE  OutputInv'
  BY <1>4, ViewsKeep
<1>5. ASSUME NEW text \in BoundedSeq(Lines, 2), NEW stream \in {"stdout", "stderr"},
             AppendLog(text, stream)
      PROVE  OutputInv'
  <2>1. /\ kind' = kind /\ UNCHANGED runtimeVars /\ DOMAIN past' = DOMAIN past
        /\ past'.reads = past.reads /\ past'.sizes = past.sizes
    BY <1>1, <1>5 DEF AppendLog, PastFields
  <2> QED BY <2>1, OutputUntouched
<1>6. ASSUME NEW s \in Watched, Observe(s) PROVE OutputInv'
  <2>1. /\ kind' = kind /\ UNCHANGED runtimeVars /\ DOMAIN past' = DOMAIN past
        /\ past'.reads = past.reads /\ past'.sizes = past.sizes
    BY <1>1, <1>6 DEF Observe, PastFields
  <2> QED BY <2>1, OutputUntouched
<1>7. CASE UNCHANGED vars
  BY <1>7, OutputUntouched DEF vars, runtimeVars
<1> QED BY <1>2, <1>3, <1>4, <1>5, <1>6, <1>7 DEF Next

\* What the invariant gives.
LEMMA OutputGives ==
  ASSUME OutputInv
  PROVE  /\ BufferIsRecent /\ PanicHasCause
         /\ kind \in {"pty", "log", "audit"} /\ ok \in BOOLEAN
         /\ buf.next \in Nat /\ buf.size \in Nat
         /\ \A i \in DOMAIN buf.chunks : buf.chunks[i].data \in Seq(Chars) \ {<<>>}
         /\ mux.size \in {FirstSize} \cup Sizes /\ Len(mux.screen) = mux.size.rows
         /\ mux.scrollback \in Seq(Seq(Chars)) /\ Len(mux.scrollback) <= MaxScrollback
         /\ mux.row \in Nat /\ mux.col \in Nat /\ mux.revision \in Nat
         /\ DOMAIN views \subseteq Viewers /\ \A v \in DOMAIN views : views[v] \in ViewSizes
         /\ record.sequence \in Nat /\ ByteLen(record.tail) <= TailBytes
<1>1. /\ buf \in [chunks : Seq(Chunks), size : Nat, next : Nat] /\ BufferKept(buf, History)
      /\ Len(History) = buf.next /\ DOMAIN buf.chunks = 1 .. Len(buf.chunks)
      /\ Len(buf.chunks) <= buf.next /\ Len(buf.chunks) \in Nat
  BY DEF OutputInv, BufferKept
<1>2. \A i \in DOMAIN buf.chunks : buf.chunks[i].data \in Seq(Chars) \ {<<>>}
  <2> TAKE i \in DOMAIN buf.chunks
  <2>1. buf.chunks[i] \in Chunks
    BY <1>1
  <2> QED BY <2>1 DEF Chunks, Strings
<1>3. BufferIsRecent
  <2>1. Dropped(buf) = FirstKept /\ \A i : Flat(History, i) = From(i)
    BY <1>1 DEF Dropped, FirstKept, Flat, From
  <2>2. buf.next \in {Len(past.reads)} \cup (IF ok THEN {} ELSE {Len(past.reads) - 1})
    BY DEF OutputInv, ReadsKept
  <2>3. \A i \in DOMAIN buf.chunks :
          buf.chunks[i] = [seq |-> FirstKept + i - 1, data |-> History[FirstKept + i]]
    BY <1>1, <2>1 DEF BufferKept
  <2>4. /\ buf.size = ByteLen(From(FirstKept + 1)) /\ buf.size <= Capacity
        /\ FirstKept > 0 => ByteLen(From(FirstKept)) > Capacity
    BY <1>1, <2>1 DEF BufferKept
  <2>5. FirstKept >= 0
    BY <1>1 DEF FirstKept
  <2> QED BY <2>2, <2>3, <2>4, <2>5 DEF BufferIsRecent
<1>4. PanicHasCause
  BY DEF OutputInv, AsciiKept, PanicHasCause
<1> QED BY <1>1, <1>2, <1>3, <1>4
      DEF OutputInv, ReadsKept, ScreenKept, RecordKept, ViewsKept, Terminals, Screens

-----------------------------------------------------------------------------
(* The screen and the paper, for ASCII.                                    *)

\* Lines are alike if they are equal but for blanks at the end.
Alike(a, b) == \A x \in Nat \ {0} : Cell(a, x) = Cell(b, x)
\* A line of the paper, empty where nothing was written.
LineAt(lines, r) == IF r \in DOMAIN lines THEN lines[r] ELSE <<>>
\* The scrollback and a screen show the paper's lines, with so many lines of
\* the paper above the screen; below the screen there are none. Lines are
\* missing only above a full scrollback.
Shown(back, screen, above, lines) ==
  /\ above \in Nat /\ Len(back) <= above
  /\ Len(back) < above => Len(back) = MaxScrollback
  /\ \A i \in DOMAIN back : Alike(back[i], LineAt(lines, above - Len(back) + i))
  /\ \A i \in DOMAIN screen : Alike(screen[i], LineAt(lines, above + i))
  /\ Len(lines) <= above + Len(screen)

\* For strings this is SameLine.
LEMMA AlikeIs ==
  ASSUME NEW T, NEW a \in Seq(T), NEW b \in Seq(T)
  PROVE  Alike(a, b) <=> SameLine(a, b)
<1>1. DOMAIN a \subseteq Nat \ {0} /\ DOMAIN b \subseteq Nat \ {0}
  OBVIOUS
<1>2. \A x : x \notin DOMAIN a \cup DOMAIN b => Cell(a, x) = Cell(b, x)
  BY DEF Cell
<1> QED BY ONLY <1>1, <1>2 DEF Alike, SameLine

\* What is left after trimming.
LEMMA TrimmedIs ==
  ASSUME NEW T, NEW lines \in Seq(T), NEW max \in Nat
  PROVE  LET m == IF Len(lines) <= max THEN Len(lines) ELSE max IN
         /\ Len(Trimmed(lines, max)) = m
         /\ \A j \in 1 .. m : Trimmed(lines, max)[j] = lines[Len(lines) - m + j]
<1> DEFINE n == Len(lines)
           k == Max({1, n - max + 1})
           m == IF n <= max THEN n ELSE max
<1>1. n \in Nat
  OBVIOUS
<1> HIDE DEF n
<1>2. k = IF 1 >= n - max + 1 THEN 1 ELSE n - max + 1
  BY <1>1, LargerIs
<1> HIDE DEF k
<1>3. k \in 1 .. n + 1 /\ n - k + 1 = m /\ m \in Nat
  BY <1>1, <1>2
<1>4. Len(SubSeq(lines, k, n)) = n - k + 1
      /\ \A j \in 1 .. n - k + 1 : SubSeq(lines, k, n)[j] = lines[k + j - 1]
  BY <1>1, <1>3 DEF n
<1>5. \A j \in 1 .. m : k + j - 1 = n - m + j
  BY <1>1, <1>3
<1> HIDE DEF m
<1>6. Trimmed(lines, max) = SubSeq(lines, k, n)
  BY DEF Trimmed, k, n
<1>7. Len(Trimmed(lines, max)) = m /\ \A j \in 1 .. m : Trimmed(lines, max)[j] = lines[n - m + j]
  BY <1>3, <1>4, <1>5, <1>6
<1> QED BY <1>7 DEF m, n

\* Scrolling shows the next line of the paper.
LEMMA ScrollShown ==
  ASSUME NEW T, <<>> \in T, NEW back \in Seq(T), NEW screen \in Seq(T), NEW lines \in Seq(T),
         NEW above, Shown(back, screen, above, lines),
         Len(back) <= MaxScrollback, screen # <<>>
  PROVE  Shown(Trimmed(Append(back, Head(screen)), MaxScrollback),
               Append(Tail(screen), <<>>), above + 1, lines)
<1> DEFINE n == Len(back)
           h == Len(screen)
           longer == Append(back, Head(screen))
           m == IF n + 1 <= MaxScrollback THEN n + 1 ELSE MaxScrollback
           newBack == Trimmed(longer, MaxScrollback)
           newScreen == Append(Tail(screen), <<>>)
<1>1. /\ n \in Nat /\ h \in Nat \ {0} /\ Len(lines) \in Nat /\ MaxScrollback \in Nat
      /\ DOMAIN back = 1 .. n /\ DOMAIN screen = 1 .. h /\ DOMAIN lines = 1 .. Len(lines)
  BY TerminalAssumption
<1>2. /\ above \in Nat /\ n <= above /\ (n < above => n = MaxScrollback)
      /\ n <= MaxScrollback
      /\ \A i \in 1 .. n : Alike(back[i], LineAt(lines, above - n + i))
      /\ \A i \in 1 .. h : Alike(screen[i], LineAt(lines, above + i))
      /\ Len(lines) <= above + h
  BY <1>1 DEF Shown
<1>3. longer \in Seq(T) /\ Len(longer) = n + 1 /\ longer[n + 1] = screen[1]
      /\ \A i \in 1 .. n : longer[i] = back[i]
  BY <1>1
<1>4. newScreen \in Seq(T) /\ Len(newScreen) = h /\ newScreen[h] = <<>>
      /\ \A i \in 1 .. h - 1 : newScreen[i] = screen[i + 1]
  <2>1. Tail(screen) \in Seq(T) /\ Len(Tail(screen)) = h - 1
        /\ \A i \in 1 .. h - 1 : Tail(screen)[i] = screen[i + 1]
    BY <1>1
  <2> DEFINE rest == Tail(screen)
  <2> HIDE DEF rest
  <2>2. Append(rest, <<>>) \in Seq(T) /\ Len(Append(rest, <<>>)) = h
        /\ Append(rest, <<>>)[h] = <<>>
        /\ \A i \in 1 .. h - 1 : Append(rest, <<>>)[i] = rest[i]
    BY <1>1, <2>1 DEF rest
  <2> QED BY <2>1, <2>2 DEF rest
<1> HIDE DEF longer, newScreen
<1>14. n \in Nat /\ above \in Nat /\ n <= above /\ (n < above => n = MaxScrollback)
       /\ n <= MaxScrollback /\ MaxScrollback \in Nat
  BY <1>1, <1>2
<1>5. newBack \in Seq(T) /\ Len(newBack) = m /\ \A j \in 1 .. m : newBack[j] = longer[n + 1 - m + j]
  <2> DEFINE k == n + 1
             l == IF k <= MaxScrollback THEN k ELSE MaxScrollback
             x == Trimmed(longer, MaxScrollback)
  <2> HIDE DEF k, l, n, x
  <2>1. Len(longer) = k
    BY <1>3 DEF k
  <2>2. x \in Seq(T)
    BY <1>3, <1>14, TrimmedKeeps DEF x
  <2>3. Len(x) = l /\ \A j \in 1 .. l : x[j] = longer[k - l + j]
    BY <1>3, <1>14, <2>1, TrimmedIs DEF x, l
  <2>4. m = l
    BY DEF k, l
  <2>5. newBack = x
    BY DEF x
  <2> HIDE DEF m, newBack
  <2>6. newBack \in Seq(T) /\ Len(newBack) = m
    BY ONLY <2>2, <2>3, <2>4, <2>5
  <2>7. \A j \in 1 .. m : newBack[j] = longer[k - m + j]
    BY ONLY <2>3, <2>4, <2>5
  <2>8. \A j \in 1 .. m : newBack[j] = longer[n + 1 - m + j]
    <3>1. k = n + 1
      BY DEF k
    <3>2. n \in Nat /\ m \in Nat
      BY <1>14 DEF m
    <3> TAKE j \in 1 .. m
    <3>3. newBack[j] = longer[k - m + j] /\ j \in Nat
      BY ONLY <2>7, <3>2, j \in 1 .. m
    <3>4. k - m + j = n + 1 - m + j
      BY ONLY <3>1, <3>2, <3>3
    <3> QED BY ONLY <3>3, <3>4
  <2> QED BY ONLY <2>6, <2>8
<1> HIDE DEF newBack, n
<1>6. m \in 0 .. n + 1 /\ m <= above + 1 /\ (m < above + 1 => m = MaxScrollback)
  BY ONLY <1>14
<1>13. /\ \A i \in 1 .. n : Alike(back[i], LineAt(lines, above - n + i))
       /\ \A i \in 1 .. h : Alike(screen[i], LineAt(lines, above + i))
       /\ Len(lines) <= above + h /\ above \in Nat /\ n \in Nat /\ h \in Nat \ {0}
  BY <1>1, <1>2 DEF n
<1> HIDE DEF m, n, h
<1>7. \A k \in 1 .. n + 1 : Alike(longer[k], LineAt(lines, above - n + k))
  <2> TAKE k \in 1 .. n + 1
  <2>1. CASE k = n + 1
    <3>1. 1 \in 1 .. h /\ above - n + k = above + 1
      BY <1>13, <2>1
    <3>2. Alike(screen[1], LineAt(lines, above + 1))
      BY ONLY <1>13, <3>1
    <3> QED BY <1>3, <2>1, <3>1, <3>2
  <2>2. CASE k # n + 1
    <3>1. k \in 1 .. n
      BY <1>13, <2>2
    <3> QED BY <1>13, <1>3, <3>1
  <2> QED BY <2>1, <2>2
<1>8. \A j \in 1 .. m : Alike(newBack[j], LineAt(lines, (above + 1) - m + j))
  <2> TAKE j \in 1 .. m
  <2> DEFINE k == n + 1 - m + j
  <2>1. k \in 1 .. n + 1 /\ above - n + k = (above + 1) - m + j
    BY <1>1, <1>2, <1>6
  <2>2. newBack[j] = longer[k]
    BY <1>5
  <2> HIDE DEF k
  <2> QED BY <1>7, <2>1, <2>2
<1>9. \A i \in 1 .. h : Alike(newScreen[i], LineAt(lines, (above + 1) + i))
  <2> TAKE i \in 1 .. h
  <2>1. CASE i = h
    <3>1. (above + 1) + i \notin DOMAIN lines
      BY <1>1, <1>2, <2>1
    <3>2. newScreen[i] = <<>> /\ LineAt(lines, (above + 1) + i) = <<>>
      BY <1>4, <2>1, <3>1 DEF LineAt
    <3> QED BY <3>2 DEF Alike
  <2>2. CASE i # h
    <3> DEFINE k == i + 1
    <3>1. i \in 1 .. h - 1 /\ k \in 1 .. h /\ above + k = (above + 1) + i
      BY <1>1, <1>2, <2>2
    <3>2. newScreen[i] = screen[k]
      BY <1>4, <3>1
    <3> HIDE DEF k
    <3> QED BY <1>2, <3>1, <3>2
  <2> QED BY <2>1, <2>2
<1>10. above + 1 \in Nat /\ Len(lines) <= (above + 1) + h
       /\ DOMAIN newBack = 1 .. m /\ DOMAIN newScreen = 1 .. h
  BY <1>1, <1>2, <1>4, <1>5
<1>11. Shown(newBack, newScreen, above + 1, lines)
  BY ONLY <1>4, <1>5, <1>6, <1>8, <1>9, <1>10 DEF Shown
<1> QED BY <1>11 DEF newBack, newScreen, longer

\* Alike is an equivalence.
LEMMA AlikeTrans ==
  /\ \A a : Alike(a, a)
  /\ \A a, b : Alike(a, b) => Alike(b, a)
  /\ \A a, b, c : Alike(a, b) /\ Alike(b, c) => Alike(a, c)
BY DEF Alike

\* Padding reaches the cursor and adds blanks only.
LEMMA PaddedIs ==
  ASSUME NEW line \in Seq(AsciiChars), NEW col \in Nat
  PROVE  /\ Padded(line, col) \in Seq(AsciiChars) /\ Len(Padded(line, col)) > col
         /\ Alike(Padded(line, col), line)
<1> DEFINE n == Len(line)
           pad == Max({0, col + 1 - ByteLen(line)})
           blanks == [j \in 1 .. pad |-> Blank]
           p == Padded(line, col)
<1>1. n \in Nat /\ ByteLen(line) = n
  BY ByteLenBounds
<1>2. pad \in Nat /\ n + pad > col
  <2>1. pad = IF 0 >= col + 1 - n THEN 0 ELSE col + 1 - n
    BY <1>1, LargerIs
  <2> HIDE DEF pad, n
  <2> QED BY <1>1, <2>1
<1>3. p = line \o blanks
  BY DEF Padded
<1> HIDE DEF pad, p
<1>4. blanks \in Seq(AsciiChars) /\ Len(blanks) = pad /\ \A j \in 1 .. pad : blanks[j] = Blank
  BY <1>2, BlankIs
<1> HIDE DEF blanks
<1>5. line \o blanks \in Seq(AsciiChars) /\ Len(line \o blanks) = n + pad
      /\ \A i \in 1 .. n + pad : (line \o blanks)[i] = IF i <= n THEN line[i] ELSE blanks[i - n]
  BY ONLY line \in Seq(AsciiChars), <1>4, ConcatProperties
<1> HIDE DEF n
<1>6. ASSUME NEW x \in Nat \ {0} PROVE Cell(p, x) = Cell(line, x)
  <2>1. DOMAIN p = 1 .. n + pad /\ DOMAIN line = 1 .. n
    BY <1>1, <1>3, <1>5 DEF n
  <2>2. CASE x <= n
    BY <1>1, <1>2, <1>3, <1>5, <2>1, <2>2 DEF Cell
  <2>3. CASE n < x /\ x <= n + pad
    <3>1. x - n \in 1 .. pad /\ x \in 1 .. n + pad /\ ~(x <= n)
      BY <1>1, <1>2, <2>3
    <3>2. p[x] = Blank
      BY <1>3, <1>4, <1>5, <3>1
    <3> QED BY <1>1, <2>1, <3>1, <3>2 DEF Cell
  <2>4. CASE n + pad < x
    BY <1>1, <1>2, <2>1, <2>4 DEF Cell
  <2> QED BY <1>1, <1>2, <2>2, <2>3, <2>4
<1> QED BY <1>2, <1>3, <1>5, <1>6 DEF Alike, p

\* A character in place of another one.
LEMMA ReplacedIs ==
  ASSUME NEW T, NEW line \in Seq(T), NEW i \in 1 .. Len(line), NEW ch \in T,
         NEW col, col = i - 1
  PROVE  LET l == SubSeq(line, 1, col) \o <<ch>> \o SubSeq(line, i + 1, Len(line)) IN
         /\ l \in Seq(T)
         /\ \A x \in Nat \ {0} : Cell(l, x) = IF x = i THEN ch ELSE Cell(line, x)
<1> DEFINE n == Len(line)
           a == SubSeq(line, 1, col)
           b == SubSeq(line, i + 1, n)
           ac == a \o <<ch>>
           l == ac \o b
<1>1. n \in Nat /\ i \in 1 .. n /\ col \in 0 .. n
  OBVIOUS
<1>2. a \in Seq(T) /\ Len(a) = col /\ \A x \in 1 .. col : a[x] = line[x]
  BY <1>1
<1>3. b \in Seq(T) /\ Len(b) = n - i /\ \A x \in 1 .. n - i : b[x] = line[x + i]
  BY RestOf, <1>1
<1> HIDE DEF a, b, n
<1>4. ac \in Seq(T) /\ Len(ac) = i /\ ac[i] = ch /\ \A x \in 1 .. col : ac[x] = line[x]
  <2> DEFINE one == <<ch>>
  <2> DEFINE u == 1
  <2>1. one \in Seq(T) /\ Len(one) = u /\ one[u] = ch /\ u \in 1 .. u
    OBVIOUS
  <2> HIDE DEF one, u
  <2>2. /\ a \o one \in Seq(T) /\ Len(a \o one) = col + u
        /\ \A x \in 1 .. col : (a \o one)[x] = a[x]
        /\ \A x \in 1 .. u : (a \o one)[col + x] = one[x]
    BY ONLY <1>2, <2>1, JoinIs
  <2>3. ac = a \o one /\ i = col + u
    BY <1>1 DEF one, u
  <2> HIDE DEF ac
  <2>4. (a \o one)[col + u] = ch
    BY ONLY <2>1, <2>2
  <2> QED BY ONLY <1>2, <2>2, <2>3, <2>4
<1> HIDE DEF ac
<1> DEFINE k == n - i
<1>9. k \in Nat /\ n = i + k /\ i \in Nat \ {0}
  BY <1>1
<1> HIDE DEF k
<1>5. /\ l \in Seq(T) /\ Len(l) = i + k
      /\ \A x \in 1 .. i : l[x] = ac[x]
      /\ \A y \in 1 .. k : l[i + y] = b[y]
  <2>1. b \in Seq(T) /\ Len(b) = k
    BY <1>3 DEF k
  <2> QED BY <1>4, <2>1, JoinIs
<1>6. DOMAIN l = 1 .. n /\ DOMAIN line = 1 .. n
  BY <1>1, <1>5, <1>9 DEF n
<1> HIDE DEF l
<1>7. ASSUME NEW x \in Nat \ {0} PROVE Cell(l, x) = IF x = i THEN ch ELSE Cell(line, x)
  <2>1. CASE x < i
    <3>1. x \in 1 .. col /\ x \in 1 .. i /\ x \in 1 .. n
      BY <1>1, <1>9, <2>1
    <3>2. l[x] = line[x]
      BY <1>4, <1>5, <3>1
    <3> QED BY <1>6, <2>1, <3>1, <3>2 DEF Cell
  <2>2. CASE x = i
    <3>1. x \in 1 .. i /\ x \in 1 .. n
      BY <1>1, <1>9, <2>2
    <3> QED BY <1>4, <1>5, <1>6, <2>2, <3>1 DEF Cell
  <2>3. CASE i < x /\ x <= n
    <3> DEFINE y == x - i
    <3>1. y \in 1 .. k /\ x = i + y /\ x = y + i /\ x \in 1 .. n
      BY <1>9, <2>3
    <3> HIDE DEF y
    <3>2. l[x] = b[y]
      BY <1>5, <3>1
    <3>3. l[x] = line[x]
      BY <1>3, <3>1, <3>2 DEF k
    <3> QED BY <1>6, <2>3, <3>1, <3>3 DEF Cell
  <2>4. CASE n < x
    BY <1>1, <1>6, <2>4 DEF Cell
  <2> QED BY <1>1, <2>1, <2>2, <2>3, <2>4
<1> QED BY <1>5, <1>7 DEF l, ac, a, b, n

\* The same on the paper, where a line may grow for it.
LEMMA WrittenIs ==
  ASSUME NEW T, Blank \in T, NEW line \in Seq(T), NEW i \in Nat \ {0}, NEW ch \in T
  PROVE  /\ Written(line, i, ch) \in Seq(T)
         /\ \A x \in Nat \ {0} : Cell(Written(line, i, ch), x) = IF x = i THEN ch ELSE Cell(line, x)
<1> DEFINE n == Len(line)
           m == Max2(n, i)
           w == [j \in 1 .. m |-> IF j = i THEN ch ELSE Cell(line, j)]
<1>1. n \in Nat /\ DOMAIN line = 1 .. n
  OBVIOUS
<1> HIDE DEF n
<1>2. m = IF n >= i THEN n ELSE i
  BY <1>1, LargerIs DEF Max2
<1> HIDE DEF m
<1>3. m \in Nat /\ n <= m /\ i <= m
  BY <1>1, <1>2
<1>4. \A j \in 1 .. m : (IF j = i THEN ch ELSE Cell(line, j)) \in T
  BY <1>1 DEF Cell, n
<1>5. w \in Seq(T) /\ DOMAIN w = 1 .. m
  BY <1>3, <1>4
<1>6. ASSUME NEW x \in Nat \ {0} PROVE Cell(w, x) = IF x = i THEN ch ELSE Cell(line, x)
  <2>1. CASE x \in 1 .. m
    BY <2>1 DEF Cell
  <2>2. CASE x \notin 1 .. m
    <3>1. x # i /\ x \notin 1 .. n
      BY <1>1, <1>3, <2>2
    <3> QED BY <1>1, <1>5, <2>2, <3>1 DEF Cell
  <2> QED BY <2>1, <2>2
<1>7. Written(line, i, ch) = w
  BY DEF Written, m, n
<1> QED BY <1>5, <1>6, <1>7

\* Cutting off blanks.
LEMMA TruncatedLineIs ==
  ASSUME NEW line \in Seq(AsciiChars), NEW n \in Nat,
         \A x \in Nat \ {0} : x > n => Cell(line, x) = Blank
  PROVE  TruncateLine(line, n) \in Seq(AsciiChars) /\ Alike(TruncateLine(line, n), line)
<1> DEFINE c == TruncateLine(line, n)
<1>1. c \in Seq(AsciiChars)
  BY LineCut
<1>2. CASE ByteLen(line) <= n
  BY <1>2, AlikeTrans DEF TruncateLine
<1>3. CASE ~(ByteLen(line) <= n)
  <2>1. ByteLen(line) = Len(line) /\ n \in 0 .. Len(line) /\ Len(line) \in Nat
    BY <1>3, ByteLenBounds
  <2> DEFINE p == SubSeq(line, 1, n)
  <2>2. p \in Prefixes(line) /\ ByteLen(p) = n
    <3>1. p \in Seq(AsciiChars) /\ Len(p) = n /\ p \in Prefixes(line)
      BY <2>1 DEF Prefixes
    <3> QED BY <3>1, ByteLenBounds
  <2>3. c \in Prefixes(line) /\ ByteLen(c) = n
    BY <1>3, <2>2 DEF TruncateLine
  <2> HIDE DEF p, c
  <2>4. PICK m \in 0 .. Len(line) : c = SubSeq(line, 1, m)
    BY <2>3 DEF Prefixes
  <2>5. Len(c) = m /\ \A x \in 1 .. m : c[x] = line[x]
    BY <2>1, <2>4
  <2>6. m = n
    BY <1>1, <2>3, <2>5, ByteLenBounds
  <2>7. ASSUME NEW x \in Nat \ {0} PROVE Cell(c, x) = Cell(line, x)
    <3>1. CASE x <= n
      <4>1. x \in 1 .. m /\ x \in DOMAIN line /\ x \in DOMAIN c
        BY <1>1, <2>1, <2>5, <2>6, <3>1
      <4> QED BY <2>5, <4>1 DEF Cell
    <3>2. CASE x > n
      <4>1. x \notin DOMAIN c
        BY <1>1, <2>5, <2>6, <3>2
      <4> QED BY <3>2, <4>1 DEF Cell
    <3> QED BY <3>1, <3>2
  <2> QED BY <1>1, <2>7 DEF Alike, c
<1> QED BY <1>1, <1>2, <1>3

\* A line written on the screen as on the paper.
LEMMA WriteShown ==
  ASSUME NEW T, NEW back \in Seq(T), NEW screen \in Seq(T), NEW lines \in Seq(T),
         NEW above, Shown(back, screen, above, lines),
         NEW r \in 1 .. Len(screen), NEW l \in T, NEW w \in T, Alike(l, w),
         NEW after \in Seq(T), Len(after) = Max2(Len(lines), above + r),
         \A k \in 1 .. Len(after) : after[k] = IF k = above + r THEN w ELSE LineAt(lines, k)
  PROVE  Shown(back, [screen EXCEPT ![r] = l], above, after)
<1> DEFINE n == Len(back)
           h == Len(screen)
           z == Len(lines)
           m == Len(after)
           s == [screen EXCEPT ![r] = l]
<1>1. /\ n \in Nat /\ h \in Nat /\ z \in Nat /\ m \in Nat /\ r \in 1 .. h
      /\ DOMAIN back = 1 .. n /\ DOMAIN screen = 1 .. h /\ DOMAIN lines = 1 .. z
      /\ DOMAIN after = 1 .. m
  OBVIOUS
<1>2. /\ above \in Nat /\ n <= above /\ (n < above => n = MaxScrollback)
      /\ \A i \in 1 .. n : Alike(back[i], LineAt(lines, above - n + i))
      /\ \A i \in 1 .. h : Alike(screen[i], LineAt(lines, above + i))
      /\ z <= above + h
  BY <1>1 DEF Shown
<1>3. Len(s) = h /\ DOMAIN s = 1 .. h /\ \A i \in 1 .. h : s[i] = IF i = r THEN l ELSE screen[i]
  BY <1>1
<1> HIDE DEF n, h, z, m, s
<1>4. m = IF z >= above + r THEN z ELSE above + r
  <2>1. m = Max({z, above + r}) /\ z \in Int /\ above + r \in Int
    BY <1>1, <1>2 DEF Max2, m, z
  <2> QED BY ONLY <2>1, LargerIs
<1>5. z <= m /\ above + r \in 1 .. m /\ m <= above + h
  BY <1>1, <1>2, <1>4
<1>6. ASSUME NEW k \in Nat \ {0} PROVE LineAt(after, k) = IF k = above + r THEN w ELSE LineAt(lines, k)
  <2>1. CASE k \in 1 .. m
    BY <1>1, <2>1 DEF LineAt, m
  <2>2. CASE k \notin 1 .. m
    <3>1. k # above + r /\ k \notin 1 .. z
      BY <1>1, <1>5, <2>2
    <3> QED BY <1>1, <2>2, <3>1 DEF LineAt
  <2> QED BY <2>1, <2>2
<1>7. ASSUME NEW i \in 1 .. n PROVE Alike(back[i], LineAt(after, above - n + i))
  <2>1. above - n + i \in Nat \ {0} /\ above - n + i # above + r
    BY <1>1, <1>2
  <2> DEFINE k == above - n + i
  <2> HIDE DEF k
  <2>2. LineAt(after, k) = LineAt(lines, k)
    BY <1>6, <2>1 DEF k
  <2>3. Alike(back[i], LineAt(lines, k))
    BY <1>2 DEF k
  <2> QED BY <2>2, <2>3 DEF k
<1>8. ASSUME NEW i \in 1 .. h PROVE Alike(s[i], LineAt(after, above + i))
  <2> DEFINE k == above + i
  <2>1. k \in Nat \ {0} /\ (k = above + r <=> i = r)
    BY <1>1, <1>2
  <2>4. Alike(screen[i], LineAt(lines, k))
    BY <1>2
  <2> HIDE DEF k
  <2>2. CASE i = r
    <3>1. s[i] = l /\ LineAt(after, k) = w
      BY <1>3, <1>6, <2>1, <2>2
    <3> QED BY <3>1 DEF k
  <2>3. CASE i # r
    <3>1. s[i] = screen[i] /\ LineAt(after, k) = LineAt(lines, k)
      BY <1>3, <1>6, <2>1, <2>3
    <3> QED BY <2>4, <3>1 DEF k
  <2> QED BY <2>2, <2>3
<1>9. Shown(back, s, above, after)
  <2>1. DOMAIN back = 1 .. Len(back) /\ DOMAIN s = 1 .. h /\ Len(s) = h /\ Len(back) = n /\ Len(after) = m
    BY <1>1, <1>3 DEF n, m
  <2>2. above \in Nat /\ n <= above /\ (n < above => n = MaxScrollback)
    BY <1>2
  <2> QED BY ONLY <1>5, <1>7, <1>8, <2>1, <2>2 DEF Shown
<1> QED BY <1>9 DEF s

\* A screen with more lines below.
LEMMA GrowShown ==
  ASSUME NEW T, NEW back \in Seq(T), NEW screen \in Seq(T), NEW lines \in Seq(T),
         NEW above, Shown(back, screen, above, lines),
         NEW newBack \in Seq(T), Len(newBack) = Len(back),
         \A i \in 1 .. Len(back) : newBack[i] = back[i],
         NEW newScreen \in Seq(T), Len(screen) <= Len(newScreen),
         \A i \in 1 .. Len(screen) : Alike(newScreen[i], screen[i]),
         \A i \in 1 .. Len(newScreen) : i > Len(screen) => Alike(newScreen[i], <<>>)
  PROVE  Shown(newBack, newScreen, above, lines)
<1> DEFINE n == Len(back)
           h == Len(screen)
           m == Len(newScreen)
           z == Len(lines)
<1>1. /\ n \in Nat /\ h \in Nat /\ m \in Nat /\ z \in Nat /\ h <= m
      /\ DOMAIN back = 1 .. n /\ DOMAIN screen = 1 .. h /\ DOMAIN lines = 1 .. z
      /\ DOMAIN newBack = 1 .. n /\ DOMAIN newScreen = 1 .. m
  OBVIOUS
<1>2. /\ above \in Nat /\ n <= above /\ (n < above => n = MaxScrollback)
      /\ \A i \in 1 .. n : Alike(back[i], LineAt(lines, above - n + i))
      /\ \A i \in 1 .. h : Alike(screen[i], LineAt(lines, above + i))
      /\ z <= above + h
  BY <1>1 DEF Shown
<1>3. Len(newBack) = n /\ Len(newScreen) = m /\ Len(lines) = z
      /\ \A i \in 1 .. n : newBack[i] = back[i]
  OBVIOUS
<1>4. /\ \A i \in 1 .. h : Alike(newScreen[i], screen[i])
      /\ \A i \in 1 .. m : i > h => Alike(newScreen[i], <<>>)
  OBVIOUS
<1> HIDE DEF n, h, m, z
<1>5. ASSUME NEW i \in 1 .. m PROVE Alike(newScreen[i], LineAt(lines, above + i))
  <2>1. CASE i <= h
    <3>1. i \in 1 .. h
      BY <1>1, <2>1
    <3> QED BY <1>2, <1>4, <3>1, AlikeTrans
  <2>2. CASE ~(i <= h)
    <3>1. i > h /\ above + i \notin 1 .. z
      BY <1>1, <1>2, <2>2
    <3>2. LineAt(lines, above + i) = <<>>
      BY <1>1, <3>1 DEF LineAt
    <3> QED BY <1>4, <3>1, <3>2
  <2> QED BY <2>1, <2>2
<1>6. \A i \in 1 .. n : Alike(newBack[i], LineAt(lines, above - n + i))
  BY <1>2, <1>3
<1>7. z <= above + m
  BY <1>1, <1>2
<1> QED BY ONLY <1>1, <1>2, <1>3, <1>5, <1>6, <1>7 DEF Shown

\* Output is fed to the paper by a fold, too.
Paper == INSTANCE FoldTheorems WITH Op <- LAMBDA p, ch : PaperFed(p, ch)
Papers == [lines : Seq(Seq(AsciiChars)), row : Nat, col : Nat, columns : Nat]
\* A line without text right of column n.
Narrow(line, n) == \A x \in Nat \ {0} : x > n => Cell(line, x) = Blank
\* The terminal t shows the paper p: the cursor is on the screen, in the
\* paper's column, and no text is right of the screen.
Shows(t, p) ==
  /\ p \in Papers /\ p.col = t.col /\ p.columns = t.size.columns
  /\ t.ok /\ t.size.columns > 0 /\ t.row < t.size.rows
  /\ Shown(t.scrollback, t.screen, p.row - t.row, p.lines)
  /\ \A i \in DOMAIN t.screen : Narrow(t.screen[i], t.size.columns)

\* Blanks do not count.
LEMMA NarrowAlike ==
  ASSUME NEW a, NEW b, NEW n, Alike(a, b), Narrow(b, n)
  PROVE  Narrow(a, n)
BY DEF Alike, Narrow

\* A line feed moves to the next line of the paper, on the screen or by
\* scrolling.
LEMMA NewlineShows ==
  ASSUME NEW size \in Sized, NEW t \in Terminals(AsciiChars, size), NEW p, Shows(t, p)
  PROVE  Shows(Newline(t), [p EXCEPT !.row = @ + 1, !.col = 0])
<1> DEFINE L == Seq(AsciiChars)
           row == p.row + 1
           q == [p EXCEPT !.row = row, !.col = 0]
           above == p.row - t.row
           rows == size.rows
<1>1. /\ t \in Screens(AsciiChars) /\ t.size = size /\ Len(t.screen) = rows
      /\ Len(t.scrollback) <= MaxScrollback
      /\ t.screen \in Seq(L) /\ t.scrollback \in Seq(L)
      /\ t.row \in Nat /\ rows \in Nat /\ t.row < rows /\ t.ok
      /\ t.size.columns > 0
  BY DEF Terminals, Screens, Sized, Shows
<1>2. /\ p \in Papers /\ p.lines \in Seq(L) /\ p.row \in Nat /\ p.columns = size.columns
      /\ Shown(t.scrollback, t.screen, above, p.lines)
      /\ \A i \in DOMAIN t.screen : Narrow(t.screen[i], size.columns)
  BY <1>1 DEF Shows, Papers
<1>3. /\ q \in Papers /\ q.lines = p.lines /\ q.row = p.row + 1 /\ q.col = 0
      /\ q.columns = size.columns
  <2>1. row \in Nat
    BY <1>2
  <2> HIDE DEF row
  <2>2. q \in Papers /\ q.lines = p.lines /\ q.row = row /\ q.col = 0 /\ q.columns = p.columns
    BY <1>2, <2>1 DEF Papers
  <2> QED BY <1>2, <2>2 DEF row
<1>4. q = [p EXCEPT !.row = @ + 1, !.col = 0]
  OBVIOUS
<1> HIDE DEF q
<1>5. CASE t.row + 1 < rows
  <2> DEFINE below == t.row + 1
             u == [t EXCEPT !.row = below, !.col = 0]
  <2>1. Newline(t) = u
    BY <1>1, <1>5 DEF Newline
  <2>2. /\ u.size = size /\ u.screen = t.screen /\ u.scrollback = t.scrollback
        /\ u.row = below /\ u.col = 0 /\ u.ok
    BY <1>1 DEF Screens
  <2> HIDE DEF u
  <2>3. q.row - u.row = above /\ u.row < rows
    BY <1>1, <1>2, <1>3, <1>5, <2>2
  <2>4. Shows(u, q)
    BY <1>1, <1>2, <1>3, <2>2, <2>3 DEF Shows
  <2> QED BY <1>4, <2>1, <2>4
<1>6. CASE ~(t.row + 1 < rows)
  <2> DEFINE screen == Append(Tail(t.screen), <<>>)
             back == Trimmed(Append(t.scrollback, Head(t.screen)), MaxScrollback)
             last == t.size.rows - 1
             u == [t EXCEPT !.row = last, !.col = 0, !.screen = screen,
                            !.scrollback = back, !.change.scrolled = @ + 1]
  <2>1. t.screen # <<>> /\ last = t.row /\ last < rows
    BY <1>1, <1>6
  <2>2. Newline(t) = u
    BY <1>1, <1>6, <2>1 DEF Newline
  <2>3. Shown(back, screen, above + 1, p.lines)
    <3>1. <<>> \in L
      OBVIOUS
    <3> HIDE DEF L, above
    <3> QED BY ONLY <1>1, <1>2, <2>1, <3>1, ScrollShown
  <2>4. \A i \in DOMAIN screen : Narrow(screen[i], size.columns)
    <3> TAKE i \in DOMAIN screen
    <3>1. Tail(t.screen) \in Seq(L) /\ Len(Tail(t.screen)) = rows - 1
          /\ \A j \in 1 .. rows - 1 : Tail(t.screen)[j] = t.screen[j + 1]
      BY <1>1, <2>1
    <3> DEFINE rest == Tail(t.screen)
    <3> HIDE DEF rest
    <3>2. i \in 1 .. rows
      BY <1>1, <3>1 DEF rest
    <3>3. CASE i = rows
      <4>1. screen[i] = <<>>
        BY <1>1, <3>1, <3>3 DEF rest
      <4> QED BY <4>1 DEF Narrow, Cell
    <3>4. CASE i # rows
      <4> DEFINE j == i + 1
      <4>1. i \in 1 .. rows - 1 /\ j \in 1 .. rows
        BY <1>1, <3>2, <3>4
      <4>2. screen[i] = t.screen[j]
        BY <1>1, <3>1, <4>1 DEF rest
      <4>3. j \in DOMAIN t.screen
        BY <1>1, <4>1
      <4> HIDE DEF j, screen
      <4> QED BY <1>2, <4>2, <4>3
    <3> QED BY <3>3, <3>4
  <2> HIDE DEF screen, back, last
  <2>5. /\ u.size = size /\ u.screen = screen /\ u.scrollback = back
        /\ u.row = last /\ u.col = 0 /\ u.ok
    BY <1>1 DEF Screens
  <2> HIDE DEF u
  <2>6. q.row - u.row = above + 1
    BY <1>1, <1>2, <1>3, <2>1, <2>5
  <2>7. Shows(u, q)
    BY <1>1, <1>3, <2>1, <2>3, <2>4, <2>5, <2>6 DEF Shows
  <2> QED BY <1>4, <2>2, <2>7
<1> QED BY <1>5, <1>6

\* Only the column changes.
LEMMA ColumnShows ==
  ASSUME NEW size \in Sized, NEW t \in Terminals(AsciiChars, size), NEW p, Shows(t, p),
         NEW c \in Nat
  PROVE  Shows([t EXCEPT !.col = c], [p EXCEPT !.col = c])
<1> DEFINE u == [t EXCEPT !.col = c]
           q == [p EXCEPT !.col = c]
<1>1. /\ u.size = t.size /\ u.screen = t.screen /\ u.scrollback = t.scrollback
      /\ u.row = t.row /\ u.col = c /\ u.ok = t.ok
  BY DEF Terminals, Screens
<1>2. /\ q \in Papers /\ q.lines = p.lines /\ q.row = p.row /\ q.col = c
      /\ q.columns = p.columns
  BY DEF Shows, Papers
<1> HIDE DEF u, q
<1>3. Shows(u, q)
  BY <1>1, <1>2 DEF Shows
<1> QED BY <1>3 DEF u, q

\* A tab goes to the same column.
LEMMA TabShows ==
  ASSUME NEW size \in Sized, NEW t \in Terminals(AsciiChars, size), NEW p, Shows(t, p)
  PROVE  Shows(TabTo(t),
               [p EXCEPT !.col = Min2((@ \div TabStop + 1) * TabStop, p.columns - 1)])
<1> DEFINE next == (t.col \div TabStop + 1) * TabStop
           to == Min({next, size.columns - 1})
<1>1. /\ t.size = size /\ t.col \in Nat /\ size.columns \in Nat /\ size.columns > 0
      /\ p \in Papers /\ p.col = t.col /\ p.columns = size.columns
  BY DEF Terminals, Screens, Sized, Shows
<1>2. to \in Nat
  <2>1. next \in Nat
    BY <1>1 DEF TabStop
  <2> HIDE DEF next
  <2> QED BY <1>1, <2>1, SmallerIs
<1>3. TabTo(t) = [t EXCEPT !.col = to]
  BY <1>1 DEF TabTo
<1>4. [p EXCEPT !.col = Min2((@ \div TabStop + 1) * TabStop, p.columns - 1)] = [p EXCEPT !.col = to]
  BY <1>1 DEF Papers, Min2
<1> HIDE DEF to
<1> QED BY <1>2, <1>3, <1>4, ColumnShows

\* What PutChar does to the cursor's line.
LEMMA PutCharIs ==
  ASSUME NEW size \in Sized, NEW t \in Terminals(AsciiChars, size), NEW ch \in AsciiChars,
         t.row < size.rows
  PROVE  \E l \in Seq(AsciiChars) :
           \/ /\ t.col >= size.columns /\ PutChar(t, ch) = [t EXCEPT !.screen[t.row + 1] = l]
              /\ Alike(l, t.screen[t.row + 1])
           \/ /\ t.col < size.columns
              /\ PutChar(t, ch) =
                   [t EXCEPT !.screen[t.row + 1] = l, !.col = @ + 1, !.change.chars = @ + 1]
              /\ \A x \in Nat \ {0} :
                   Cell(l, x) = IF x = t.col + 1 THEN ch ELSE Cell(t.screen[t.row + 1], x)
<1> DEFINE r == t.row + 1
           old == t.screen[r]
           i == t.col + 1
           col == t.col
           line == Padded(old, col)
           over == Overwritten(line, i, ch)
           put(l) == [t EXCEPT !.screen[r] = l, !.col = @ + 1, !.change.chars = @ + 1]
<1>1. /\ t \in Screens(AsciiChars) /\ t.size = size /\ Len(t.screen) = size.rows
      /\ t.col \in Nat /\ size.columns \in Nat /\ t.row \in Nat /\ size.rows \in Nat
      /\ t.screen \in Seq(Seq(AsciiChars))
  BY DEF Terminals, Screens, Sized
<1>2. old \in Seq(AsciiChars) /\ r \in 1 .. size.rows
  BY <1>1
<1>3. line \in Seq(AsciiChars) /\ Len(line) > t.col /\ Alike(line, old) /\ Len(line) \in Nat
  BY <1>1, <1>2, PaddedIs
<1>4. i \in 1 .. Len(line) /\ ~(i > Len(line)) /\ i - 1 = col /\ col \in Nat
  BY <1>1, <1>3
<1>5. PutChar(t, ch) =
        IF t.col >= size.columns THEN [t EXCEPT !.screen[r] = line]
        ELSE IF i > Len(line) THEN put(Append(line, ch))
        ELSE IF over = {} THEN Panicked(t)
        ELSE put(SubSeq(line, 1, t.col) \o <<ch>> \o SubSeq(line, Min(over) + 1, Len(line)))
  BY <1>1 DEF PutChar
<1> HIDE DEF line, i
<1>6. i \in over /\ (\A j \in over : i <= j) /\ over \in SUBSET Nat
  <2>1. SubSeq(line, i, i) \in Seq(AsciiChars) /\ Len(SubSeq(line, i, i)) = 1
    BY <1>3, <1>4
  <2>2. ByteLen(SubSeq(line, i, i)) = 1 /\ Width(ch) = 1
    BY <2>1, ByteLenBounds, WidthIs
  <2> QED BY <1>3, <1>4, <2>2 DEF Overwritten
<1> HIDE DEF over
<1>7. over # {} /\ Min(over) = i
  <2>1. Min(over) \in over /\ \A y \in over : Min(over) <= y
    BY <1>6, LeastIs
  <2>2. Min(over) <= i /\ i <= Min(over) /\ Min(over) \in Nat /\ i \in Nat
    BY <1>6, <2>1
  <2> QED BY <1>6, <2>2
<1> DEFINE new == SubSeq(line, 1, col) \o <<ch>> \o SubSeq(line, i + 1, Len(line))
<1>8. new \in Seq(AsciiChars)
      /\ \A x \in Nat \ {0} : Cell(new, x) = IF x = i THEN ch ELSE Cell(line, x)
  <2> HIDE DEF col
  <2>1. col = i - 1
    BY <1>4
  <2> QED BY ONLY <1>3, <1>4, <2>1, ch \in AsciiChars, ReplacedIs
<1>9. CASE t.col >= size.columns
  <2>1. PutChar(t, ch) = [t EXCEPT !.screen[r] = line]
    BY <1>5, <1>9
  <2> QED BY <1>3, <1>9, <2>1
<1>10. CASE ~(t.col >= size.columns)
  <2>1. PutChar(t, ch) = put(new)
    BY <1>4, <1>5, <1>7, <1>10
  <2> HIDE DEF new
  <2>2. \A x \in Nat \ {0} : Cell(new, x) = IF x = t.col + 1 THEN ch ELSE Cell(old, x)
    BY <1>3, <1>8 DEF Alike, i
  <2>3. t.col < size.columns
    BY <1>1, <1>10
  <2> QED BY <1>8, <2>1, <2>2, <2>3
<1> QED BY <1>9, <1>10

\* A character of ASCII is written as on the paper, and one right of the
\* screen on neither.
LEMMA PutCharShows ==
  ASSUME NEW size \in Sized, NEW t \in Terminals(AsciiChars, size), NEW p, Shows(t, p),
         NEW ch \in AsciiChars
  PROVE  Shows(PutChar(t, ch), PaperPut(p, ch))
<1> DEFINE L == Seq(AsciiChars)
           r == t.row + 1
           above == p.row - t.row
           i == t.col + 1
           old == t.screen[r]
           cols == size.columns
<1>1. /\ t \in Screens(AsciiChars) /\ t.size = size /\ Len(t.screen) = size.rows
      /\ t.screen \in Seq(L) /\ t.scrollback \in Seq(L)
      /\ t.row \in Nat /\ size.rows \in Nat /\ t.row < size.rows /\ t.ok
      /\ t.col \in Nat /\ cols \in Nat /\ cols > 0
  BY DEF Terminals, Screens, Sized, Shows
<1>2. /\ p \in Papers /\ p.lines \in Seq(L) /\ p.row \in Nat /\ p.col = t.col
      /\ p.columns = cols /\ above \in Nat
      /\ Shown(t.scrollback, t.screen, above, p.lines)
      /\ \A j \in DOMAIN t.screen : Narrow(t.screen[j], cols)
  BY <1>1 DEF Shows, Papers, Shown
<1>3. /\ r \in DOMAIN t.screen /\ r \in 1 .. Len(t.screen) /\ old \in L
      /\ p.row + 1 = above + r /\ above + r \in Nat \ {0} /\ i \in Nat \ {0}
  <2>1. r \in 1 .. Len(t.screen) /\ DOMAIN t.screen = 1 .. Len(t.screen)
    BY <1>1
  <2>2. p.row + 1 = above + r /\ above + r \in Nat \ {0} /\ i \in Nat \ {0}
    <3>1. p.row \in Nat /\ t.row \in Nat /\ t.col \in Nat
      BY <1>1, <1>2
    <3> QED BY ONLY <3>1
  <2>3. old \in L
    BY <1>1, <2>1
  <2> QED BY <2>1, <2>2, <2>3
<1>4. PICK l \in L :
         \/ /\ t.col >= cols /\ PutChar(t, ch) = [t EXCEPT !.screen[r] = l]
            /\ Alike(l, old)
         \/ /\ t.col < cols
            /\ PutChar(t, ch) = [t EXCEPT !.screen[r] = l, !.col = @ + 1, !.change.chars = @ + 1]
            /\ \A x \in Nat \ {0} : Cell(l, x) = IF x = i THEN ch ELSE Cell(old, x)
  <2>1. t.row < size.rows
    BY <1>1
  <2> QED BY ONLY ZenonT(40), <2>1, PutCharIs, size \in Sized, t \in Terminals(AsciiChars, size), ch \in AsciiChars
<1> DEFINE screen == [t.screen EXCEPT ![r] = l]
<1> HIDE DEF r, above, L
<1>5. /\ screen \in Seq(L) /\ Len(screen) = size.rows /\ DOMAIN screen = DOMAIN t.screen
      /\ screen[r] = l /\ \A j \in DOMAIN screen : j # r => screen[j] = t.screen[j]
  BY <1>1, <1>3
<1>6. Narrow(l, cols) => \A j \in DOMAIN screen : Narrow(screen[j], cols)
  BY <1>2, <1>5
<1> HIDE DEF screen
<1>7. CASE t.col >= cols
  <2> DEFINE u == [t EXCEPT !.screen = screen]
  <2>1. PutChar(t, ch) = u /\ Alike(l, old)
    BY <1>1, <1>4, <1>7 DEF screen
  <2>2. PaperPut(p, ch) = p
    BY <1>2, <1>7 DEF PaperPut
  <2>3. /\ u.size = size /\ u.screen = screen /\ u.scrollback = t.scrollback
        /\ u.row = t.row /\ u.col = t.col /\ u.ok
    BY <1>1 DEF Screens
  <2>4. Shown(t.scrollback, screen, above, p.lines)
    <3> DEFINE n == Len(t.screen)
    <3>1. /\ Len(screen) = n /\ n \in Nat /\ Len(t.screen) = n
          /\ \A j \in 1 .. Len(t.screen) : Alike(screen[j], t.screen[j])
          /\ \A j \in 1 .. Len(screen) : ~(j > Len(t.screen))
      <4>1. \A j \in 1 .. Len(t.screen) : Alike(screen[j], t.screen[j])
        <5> TAKE j \in 1 .. Len(t.screen)
        <5>1. CASE j = r
          BY <1>5, <2>1, <5>1
        <5>2. CASE j # r
          <6>1. screen[j] = t.screen[j]
            BY <1>1, <1>5, <5>2
          <6> QED BY <6>1, AlikeTrans
        <5> QED BY <5>1, <5>2
      <4> QED BY <1>1, <1>5, <4>1
    <3>2. \A j \in 1 .. Len(t.scrollback) : t.scrollback[j] = t.scrollback[j]
      OBVIOUS
    <3>3. Len(t.screen) <= Len(screen)
      BY <3>1
    <3>4. \A j \in 1 .. Len(screen) : j > Len(t.screen) => Alike(screen[j], <<>>)
      BY <3>1
    <3> HIDE DEF n
    <3> QED BY ONLY <1>1, <1>2, <1>5, <3>1, <3>3, <3>4, GrowShown
  <2>5. Narrow(l, cols)
    BY <1>2, <1>3, <2>1, NarrowAlike
  <2> HIDE DEF u
  <2>6. Shows(u, p)
    BY <1>1, <1>2, <1>6, <2>3, <2>4, <2>5 DEF Shows, above
  <2> QED BY <2>1, <2>2, <2>6
<1>8. CASE ~(t.col >= cols)
  <2>1. /\ PutChar(t, ch) = [t EXCEPT !.screen[r] = l, !.col = @ + 1, !.change.chars = @ + 1]
        /\ \A x \in Nat \ {0} : Cell(l, x) = IF x = i THEN ch ELSE Cell(old, x)
        /\ t.col < cols
    BY <1>4, <1>8
  <2> DEFINE z == [t.change EXCEPT !.chars = @ + 1]
             u == [t EXCEPT !.screen = screen, !.col = i, !.change = z]
             k == above + r
             w == Written(LineAt(p.lines, k), i, ch)
             m == Max2(Len(p.lines), k)
             lines == [j \in 1 .. m |-> IF j = k THEN w ELSE LineAt(p.lines, j)]
             q == [p EXCEPT !.col = i, !.lines = lines]
  <2>2. PutChar(t, ch) = u
    BY <2>1 DEF screen
  <2>3. PaperPut(p, ch) = q
    <3>1. ~(p.col >= p.columns) /\ p.row + 1 = k /\ p.col + 1 = i
      BY <1>2, <1>3, <1>8 DEF r, above
    <3>2. PaperPut(p, ch) = [p EXCEPT !.col = p.col + 1, !.lines =
            [j \in 1 .. Max2(Len(p.lines), p.row + 1) |->
              IF j = p.row + 1 THEN Written(LineAt(p.lines, j), p.col + 1, ch)
              ELSE LineAt(p.lines, j)]]
      BY <1>2, <3>1 DEF PaperPut, LineAt, Papers
    <3> QED BY <3>1, <3>2
  <2>4. \A j : LineAt(p.lines, j) \in L
    <3>1. <<>> \in L
      BY DEF L
    <3> QED BY <1>2, <3>1 DEF LineAt
  <2>5. w \in L /\ \A x \in Nat \ {0} :
                     Cell(w, x) = IF x = i THEN ch ELSE Cell(LineAt(p.lines, k), x)
    <3> DEFINE line == LineAt(p.lines, k)
    <3>1. line \in Seq(AsciiChars) /\ i \in Nat \ {0} /\ ch \in AsciiChars
      BY <1>3, <2>4 DEF L
    <3> HIDE DEF line, i
    <3>2. Written(line, i, ch) \in Seq(AsciiChars)
          /\ \A x \in Nat \ {0} : Cell(Written(line, i, ch), x) = IF x = i THEN ch ELSE Cell(line, x)
      BY ONLY <3>1, BlankIs, WrittenIs
    <3> QED BY <3>2 DEF L, line
  <2>6. k \in Nat \ {0}
    BY <1>3 DEF r, above
  <2> HIDE DEF w, k
  <2>7. m \in Nat
    <3>1. m = Max({Len(p.lines), k}) /\ Len(p.lines) \in Nat
      BY <1>2 DEF Max2
    <3> HIDE DEF m
    <3>2. m = IF Len(p.lines) >= k THEN Len(p.lines) ELSE k
      BY <2>6, <3>1, LargerIs
    <3> QED BY <2>6, <3>1, <3>2
  <2>16. m = Max2(Len(p.lines), k)
    OBVIOUS
  <2> HIDE DEF m
  <2>8. lines \in Seq(L) /\ Len(lines) = m
        /\ \A j \in 1 .. Len(lines) : lines[j] = IF j = k THEN w ELSE LineAt(p.lines, j)
    BY <2>4, <2>5, <2>7
  <2> HIDE DEF lines
  <2>9. Alike(l, w)
    <3>1. r \in DOMAIN t.screen
      BY <1>3
    <3>2. Alike(old, LineAt(p.lines, k))
      BY <1>2, <3>1 DEF Shown, k, r
    <3> HIDE DEF old, i
    <3> QED BY <2>1, <2>5, <3>2 DEF Alike
  <2>10. Shown(t.scrollback, screen, above, lines)
    <3>1. Len(lines) = Max2(Len(p.lines), above + r)
      BY <2>8, <2>16 DEF k
    <3>2. \A j \in 1 .. Len(lines) : lines[j] = IF j = above + r THEN w ELSE LineAt(p.lines, j)
      BY <2>8 DEF k
    <3>3. r \in 1 .. Len(t.screen) /\ l \in L /\ t.screen \in Seq(L) /\ t.scrollback \in Seq(L)
          /\ p.lines \in Seq(L) /\ Shown(t.scrollback, t.screen, above, p.lines)
      BY <1>1, <1>2, <1>3 DEF r, L, above
    <3> QED BY ONLY <2>5, <2>8, <2>9, <3>1, <3>2, <3>3, WriteShown DEF screen
  <2>11. Narrow(l, cols)
    <3>1. Narrow(old, cols)
      BY <1>2, <1>3 DEF r
    <3>2. \A x \in Nat \ {0} : x > cols => x # i
      BY <1>1, <2>1
    <3> HIDE DEF old, i
    <3> QED BY <2>1, <3>1, <3>2 DEF Narrow
  <2>12. /\ u.size = size /\ u.screen = screen /\ u.scrollback = t.scrollback
         /\ u.row = t.row /\ u.col = i /\ u.ok
    <3> HIDE DEF i, z
    <3> QED BY <1>1 DEF Screens
  <2>13. /\ q \in Papers /\ q.lines = lines /\ q.row = p.row /\ q.col = i
         /\ q.columns = cols
    <3>1. i \in Nat /\ lines \in Seq(Seq(AsciiChars))
      BY <1>3, <2>8 DEF L
    <3> HIDE DEF i
    <3> QED BY <1>2, <3>1 DEF Papers
  <2> HIDE DEF u, q
  <2>14. Shows(u, q)
    BY <1>1, <1>6, <2>10, <2>11, <2>12, <2>13 DEF Shows, above
  <2> QED BY <2>2, <2>3, <2>14
<1> QED BY <1>7, <1>8

\* Every character is taken the same way.
LEMMA FeedShows ==
  ASSUME NEW size \in Sized, NEW t \in Terminals(AsciiChars, size), NEW p, Shows(t, p),
         NEW ch \in AsciiChars
  PROVE  Shows(Feed(t, ch), PaperFed(p, ch))
<1>1. t.ok
  BY DEF Shows
<1>2. Feed(t, ch) =
       CASE ch.k = "nl"  -> Newline(t)
         [] ch.k = "cr"  -> [t EXCEPT !.col = 0]
         [] ch.k = "tab" -> TabTo(t)
         [] ch.k = "esc" -> [t EXCEPT !.change.kind = "CosmeticChurn"]
         [] OTHER        -> PutChar(t, ch)
  BY <1>1 DEF Feed
<1>3. CASE ch.k = "nl"
  <2>1. Feed(t, ch) = Newline(t) /\ PaperFed(p, ch) = [p EXCEPT !.row = @ + 1, !.col = 0]
    BY <1>2, <1>3 DEF PaperFed
  <2> QED BY ZenonT(40), <2>1, NewlineShows
<1>4. CASE ch.k = "cr"
  <2>1. Feed(t, ch) = [t EXCEPT !.col = 0] /\ PaperFed(p, ch) = [p EXCEPT !.col = 0]
    BY <1>2, <1>4 DEF PaperFed
  <2> QED BY <2>1, ColumnShows
<1>5. CASE ch.k = "tab"
  <2>1. Feed(t, ch) = TabTo(t)
        /\ PaperFed(p, ch) =
             [p EXCEPT !.col = Min2((@ \div TabStop + 1) * TabStop, p.columns - 1)]
    BY <1>2, <1>5 DEF PaperFed
  <2> QED BY <2>1, TabShows
<1>6. CASE ch.k = "esc"
  <2> DEFINE x == [t.change EXCEPT !.kind = "CosmeticChurn"]
             u == [t EXCEPT !.change = x]
  <2>1. Feed(t, ch) = u /\ PaperFed(p, ch) = p
    BY <1>2, <1>6 DEF PaperFed
  <2> HIDE DEF x
  <2>2. /\ u.size = t.size /\ u.screen = t.screen /\ u.scrollback = t.scrollback
        /\ u.row = t.row /\ u.col = t.col /\ u.ok = t.ok
    BY DEF Terminals, Screens
  <2> HIDE DEF u
  <2> QED BY <2>1, <2>2 DEF Shows
<1>7. CASE ch.k # "nl" /\ ch.k # "cr" /\ ch.k # "tab" /\ ch.k # "esc"
  <2>1. Feed(t, ch) = PutChar(t, ch)
    BY ONLY <1>2, <1>7, Zenon
  <2>2. PaperFed(p, ch) = PaperPut(p, ch)
    BY ONLY <1>7, Zenon DEF PaperFed
  <2> QED BY <2>1, <2>2, PutCharShows
<1> QED BY <1>3, <1>4, <1>5, <1>6, <1>7

\* So is a string.
LEMMA TextShows ==
  ASSUME NEW size \in Sized, NEW t \in Terminals(AsciiChars, size), NEW p, Shows(t, p),
         NEW s \in Seq(AsciiChars)
  PROVE  Shows(TerminalAppended(t, s), FoldLeft(PaperFed, p, s))
<1> DEFINE none == [kind |-> "none", scrolled |-> 0, chars |-> 0]
           start == [t EXCEPT !.change = none]
           fed == FoldLeft(Feed, start, s)
           end == [fed EXCEPT !.change.kind = "MeaningfulOutput", !.revision = @ + 1]
           q == FoldLeft(PaperFed, p, s)
           K == {r \in Seq(AsciiChars) : /\ Feeds!Fold(start, r) \in Terminals(AsciiChars, size)
                                         /\ Shows(Feeds!Fold(start, r), Paper!Fold(p, r))}
<1>1. /\ \A u, cs : FoldLeft(Feed, u, cs) = Feeds!Fold(u, cs)
      /\ \A u, cs : FoldLeft(PaperFed, u, cs) = Paper!Fold(u, cs)
  BY DEF FoldLeft, MapThenFoldSet, Max,
         Feeds!Fold, Feeds!FoldLeft, Feeds!MapThenFoldSet, Feeds!Max,
         Paper!Fold, Paper!FoldLeft, Paper!MapThenFoldSet, Paper!Max
<1>2. start \in Terminals(AsciiChars, size) /\ Shows(start, p)
  <2>1. none \in Changes
    BY DEF Changes
  <2>2. t \in Screens(AsciiChars) /\ t.size = size /\ Len(t.screen) = size.rows
        /\ Len(t.scrollback) <= MaxScrollback
    BY DEF Terminals
  <2> HIDE DEF none
  <2>3. start \in Terminals(AsciiChars, size)
    BY <2>1, <2>2 DEF Terminals, Screens
  <2>4. /\ start.size = t.size /\ start.screen = t.screen /\ start.scrollback = t.scrollback
        /\ start.row = t.row /\ start.col = t.col /\ start.ok = t.ok
    BY <2>2 DEF Screens
  <2> HIDE DEF start
  <2> QED BY <2>3, <2>4 DEF Shows
<1> HIDE DEF start
<1>3. <<>> \in K
  <2>1. Feeds!Fold(start, <<>>) = start /\ Paper!Fold(p, <<>>) = p
    BY Feeds!FoldEmpty, Paper!FoldEmpty
  <2> QED BY <1>2, <2>1
<1>4. ASSUME NEW r \in Seq(AsciiChars), NEW ch \in AsciiChars, r \in K PROVE Append(r, ch) \in K
  <2> DEFINE u == Feeds!Fold(start, r)
             v == Paper!Fold(p, r)
             a == Append(r, ch)
  <2>1. u \in Terminals(AsciiChars, size) /\ Shows(u, v)
    BY <1>4
  <2>2. Feeds!Fold(start, a) = Feed(u, ch) /\ Paper!Fold(p, a) = PaperFed(v, ch)
    BY ONLY r \in Seq(AsciiChars), ch \in AsciiChars, Feeds!FoldAppend, Paper!FoldAppend
  <2>3. a \in Seq(AsciiChars)
    OBVIOUS
  <2> HIDE DEF u, v, a
  <2>4. Feed(u, ch) \in Terminals(AsciiChars, size)
    BY <2>1, BlankIs, FeedKeeps
  <2>5. Shows(Feed(u, ch), PaperFed(v, ch))
    BY <2>1, FeedShows
  <2>6. a \in K
    BY <2>2, <2>3, <2>4, <2>5
  <2> QED BY <2>6 DEF a
<1>5. s \in K
  <2> HIDE DEF K
  <2> QED BY ONLY <1>3, <1>4, s \in Seq(AsciiChars), Feeds!SequenceInduction
<1>6. fed \in Terminals(AsciiChars, size) /\ Shows(fed, q)
  BY <1>1, <1>5
<1>7. TerminalAppended(t, s) =
        IF s = <<>> THEN t ELSE IF fed.ok /\ fed.change.chars > 0 THEN end ELSE fed
  BY DEF TerminalAppended, start
<1> HIDE DEF K
<1>8. s = <<>> => q = p
  <2>1. Paper!Fold(p, <<>>) = p
    BY Paper!FoldEmpty
  <2> QED BY <1>1, <2>1
<1> HIDE DEF fed, q
<1>9. Shows(end, q)
  <2> DEFINE x == [fed.change EXCEPT !.kind = "MeaningfulOutput"]
             n == fed.revision + 1
  <2>1. fed \in Screens(AsciiChars)
    BY <1>6 DEF Terminals
  <2>2. end = [fed EXCEPT !.change = x, !.revision = n]
    OBVIOUS
  <2> HIDE DEF x, n, end
  <2>3. /\ end.size = fed.size /\ end.screen = fed.screen /\ end.scrollback = fed.scrollback
        /\ end.row = fed.row /\ end.col = fed.col /\ end.ok = fed.ok
    BY <2>1, <2>2 DEF Screens
  <2> QED BY <1>6, <2>3 DEF Shows
<1> HIDE DEF end
<1>10. Shows(TerminalAppended(t, s), q)
  BY <1>6, <1>7, <1>8, <1>9
<1> QED BY <1>10 DEF q

\* A size with no fewer rows and columns cuts off blanks only.
LEMMA ResizedShows ==
  ASSUME NEW old \in Sized, NEW t \in Terminals(AsciiChars, old), NEW p, Shows(t, p),
         NEW size \in Sized, size.rows >= old.rows, size.columns >= old.columns
  PROVE  Shows(Resized(t, size), [p EXCEPT !.columns = size.columns])
<1> DEFINE L == Seq(AsciiChars)
           rows == size.rows
           cols == size.columns
           above == p.row - t.row
           q == [p EXCEPT !.columns = cols]
           r == ResizedRows(t, rows)
           u == [r EXCEPT !.size = size,
                          !.screen = [i \in DOMAIN @ |-> TruncateLine(@[i], cols)],
                          !.scrollback = Trimmed(@, MaxScrollback),
                          !.revision = @ + 1]
<1>1. /\ t \in Screens(AsciiChars) /\ t.size = old /\ Len(t.screen) = old.rows
      /\ Len(t.scrollback) <= MaxScrollback
      /\ t.screen \in Seq(L) /\ t.scrollback \in Seq(L)
      /\ t.row \in Nat /\ old.rows \in Nat /\ t.row < old.rows /\ t.ok
      /\ old.columns \in Nat /\ old.columns > 0 /\ rows \in Nat /\ cols \in Nat
      /\ old.rows <= rows /\ old.columns <= cols
  BY DEF Terminals, Screens, Sized, Shows
<1>2. /\ p \in Papers /\ p.lines \in Seq(L) /\ p.col = t.col
      /\ Shown(t.scrollback, t.screen, above, p.lines)
      /\ \A i \in DOMAIN t.screen : Narrow(t.screen[i], old.columns)
  BY <1>1 DEF Shows, Papers
<1>3. q \in Papers /\ q.lines = p.lines /\ q.row = p.row /\ q.col = p.col /\ q.columns = cols
  <2> HIDE DEF cols
  <2> QED BY <1>1, <1>2 DEF Papers
<1>4. /\ r.row = t.row /\ r.col = t.col /\ r.ok /\ r \in Screens(AsciiChars)
      /\ r.screen \in Seq(L) /\ Len(r.screen) = rows
      /\ \A i \in 1 .. old.rows : r.screen[i] = t.screen[i]
      /\ \A i \in 1 .. rows : i > old.rows => r.screen[i] = <<>>
      /\ r.scrollback \in Seq(L) /\ Len(r.scrollback) = Len(t.scrollback)
      /\ \A i \in 1 .. Len(t.scrollback) : r.scrollback[i] = t.scrollback[i]
  <2>1. CASE rows > old.rows
    <3> DEFINE n == rows - old.rows
               m == old.rows
               blanks == BlankLines(n)
               x == t.screen \o blanks
    <3>1. n \in Nat /\ m \in Nat /\ m + n = rows
      BY <1>1, <2>1
    <3> HIDE DEF n
    <3>2. blanks \in Seq(L) /\ Len(blanks) = n /\ \A i \in 1 .. n : blanks[i] = <<>>
      BY <3>1 DEF BlankLines
    <3> HIDE DEF blanks
    <3>3. /\ x \in Seq(L) /\ Len(x) = m + n
          /\ \A i \in 1 .. m : x[i] = t.screen[i]
          /\ \A i \in 1 .. n : x[m + i] = blanks[i]
      <4>1. t.screen \in Seq(L) /\ Len(t.screen) = m
        BY <1>1
      <4> HIDE DEF L, m
      <4> QED BY ONLY SMTT(30), <4>1, <3>2, JoinIs
    <3>4. r = [t EXCEPT !.screen = x]
      BY <1>1, <2>1 DEF ResizedRows, n, blanks
    <3> HIDE DEF x, r
    <3>5. ASSUME NEW i \in 1 .. rows, i > old.rows PROVE x[i] = <<>>
      <4> DEFINE j == i - m
      <4>1. j \in 1 .. n /\ m + j = i
        BY <1>1, <3>1, <3>5
      <4> HIDE DEF j, m
      <4> QED BY <3>2, <3>3, <4>1
    <3>6. /\ r.row = t.row /\ r.col = t.col /\ r.ok = t.ok /\ r \in Screens(AsciiChars)
          /\ r.screen = x /\ r.scrollback = t.scrollback
      BY <1>1, <3>3, <3>4 DEF Screens
    <3> QED BY <1>1, <3>1, <3>3, <3>5, <3>6
  <2>2. CASE ~(rows > old.rows)
    <3> DEFINE n == old.rows - rows
               m == rows + 1
               x == SubSeq(t.screen, 1, rows)
               moved == [i \in 1 .. n |-> t.screen[m]]
               y == t.scrollback \o moved
    <3>1. n = 0 /\ rows = old.rows
      BY <1>1, <2>2
    <3>2. r = [t EXCEPT !.screen = x, !.scrollback = y]
      BY <1>1, <2>2 DEF ResizedRows
    <3>3. x \in Seq(L) /\ Len(x) = rows /\ \A i \in 1 .. rows : x[i] = t.screen[i]
      BY <1>1, <3>1
    <3>4. moved \in Seq(L) /\ Len(moved) = 0
      BY <3>1
    <3> HIDE DEF moved
    <3> DEFINE k == Len(t.scrollback)
    <3>5. /\ y \in Seq(L) /\ Len(y) = k + 0
          /\ \A i \in 1 .. k : y[i] = t.scrollback[i]
      <4> DEFINE z == 0
                 b == t.scrollback
      <4>1. b \in Seq(L) /\ Len(b) = k /\ moved \in Seq(L) /\ Len(moved) = z
        BY <1>1, <3>4
      <4> HIDE DEF L, k, z, b
      <4>2. /\ b \o moved \in Seq(L) /\ Len(b \o moved) = k + z
            /\ \A i \in 1 .. k : (b \o moved)[i] = b[i]
        BY ONLY <4>1, JoinIs
      <4> QED BY <4>2 DEF z, b
    <3>6. k \in Nat /\ k + 0 = k
      BY <1>1
    <3> HIDE DEF x, y, r
    <3>7. /\ r.row = t.row /\ r.col = t.col /\ r.ok = t.ok /\ r \in Screens(AsciiChars)
          /\ r.screen = x /\ r.scrollback = y
      BY <1>1, <3>2, <3>3, <3>5 DEF Screens
    <3> QED BY <1>1, <3>1, <3>3, <3>5, <3>6, <3>7
  <2> QED BY <2>1, <2>2
<1> HIDE DEF r
<1> DEFINE screen == [i \in DOMAIN r.screen |-> TruncateLine(r.screen[i], cols)]
           back == Trimmed(r.scrollback, MaxScrollback)
<1>5. Resized(t, size) = u
  <2>1. \A i \in DOMAIN r.screen : ~TruncatePanics(r.screen[i], cols)
    <3> TAKE i \in DOMAIN r.screen
    <3>1. r.screen[i] \in L
      BY <1>4
    <3> QED BY <1>1, <3>1, LineCut
  <2> QED BY <2>1 DEF Resized, r
<1>6. \A i \in 1 .. rows : r.screen[i] \in L /\ Narrow(r.screen[i], cols)
  <2> TAKE i \in 1 .. rows
  <2>1. r.screen[i] \in L
    BY <1>4
  <2>2. CASE i \in 1 .. old.rows
    <3>1. Narrow(t.screen[i], old.columns) /\ r.screen[i] = t.screen[i]
      BY <1>1, <1>2, <1>4, <2>2
    <3> QED BY <1>1, <2>1, <3>1 DEF Narrow
  <2>3. CASE i \notin 1 .. old.rows
    <3>1. r.screen[i] = <<>>
      BY <1>1, <1>4, <2>3
    <3>2. \A x : Cell(<<>>, x) = Blank
      BY DEF Cell
    <3> QED BY <2>1, <3>1, <3>2 DEF Narrow
  <2> QED BY <2>2, <2>3
<1>7. DOMAIN r.screen = 1 .. rows
  BY <1>1, <1>4
<1>8. \A i \in 1 .. rows : screen[i] \in L /\ Alike(screen[i], r.screen[i])
  <2> TAKE i \in 1 .. rows
  <2> DEFINE line == r.screen[i]
  <2>1. line \in Seq(AsciiChars) /\ \A x \in Nat \ {0} : x > cols => Cell(line, x) = Blank
    BY <1>6 DEF Narrow
  <2>2. screen[i] = TruncateLine(line, cols)
    BY <1>7
  <2> HIDE DEF line, screen
  <2>3. TruncateLine(line, cols) \in Seq(AsciiChars) /\ Alike(TruncateLine(line, cols), line)
    BY <1>1, <2>1, TruncatedLineIs
  <2> QED BY <2>2, <2>3 DEF line
<1>9. screen \in Seq(L) /\ Len(screen) = rows /\ DOMAIN screen = 1 .. rows
  <2>1. screen = [i \in 1 .. rows |-> screen[i]]
    BY <1>7
  <2> HIDE DEF screen, L, rows
  <2>2. \A i \in 1 .. rows : screen[i] \in L
    BY <1>8
  <2>3. rows \in Nat
    BY <1>1
  <2>4. screen \in [1 .. rows -> L]
    BY ONLY <2>1, <2>2
  <2> QED BY ONLY <2>3, <2>4
<1> HIDE DEF screen
<1>10. /\ back \in Seq(L) /\ Len(back) = Len(t.scrollback)
       /\ \A i \in 1 .. Len(t.scrollback) : back[i] = t.scrollback[i]
  <2> DEFINE n == Len(t.scrollback)
             lines == r.scrollback
  <2>1. n \in Nat /\ n <= MaxScrollback /\ MaxScrollback \in Nat
        /\ lines \in Seq(L) /\ Len(lines) = n
        /\ \A i \in 1 .. n : lines[i] = t.scrollback[i]
    BY <1>1, <1>4, TerminalAssumption
  <2> HIDE DEF n, lines, L
  <2>2. Trimmed(lines, MaxScrollback) \in Seq(L)
    BY <2>1, TrimmedKeeps
  <2>3. /\ Len(Trimmed(lines, MaxScrollback)) = n
        /\ \A j \in 1 .. n : Trimmed(lines, MaxScrollback)[j] = lines[n - n + j]
    BY <2>1, TrimmedIs
  <2>4. \A j \in 1 .. n : n - n + j = j
    BY <2>1
  <2> QED BY <2>1, <2>2, <2>3, <2>4 DEF lines, n
<1> HIDE DEF back
<1>11. /\ u.size = size /\ u.screen = screen /\ u.scrollback = back
       /\ u.row = t.row /\ u.col = t.col /\ u.ok
  <2> DEFINE n == r.revision + 1
             w == [r EXCEPT !.size = size, !.screen = screen, !.scrollback = back, !.revision = n]
  <2>1. u = w
    BY DEF screen, back
  <2> HIDE DEF n
  <2>2. /\ w.size = size /\ w.screen = screen /\ w.scrollback = back
        /\ w.row = r.row /\ w.col = r.col /\ w.ok = r.ok
    BY <1>4 DEF Screens
  <2> QED BY <1>4, <2>1, <2>2
<1> HIDE DEF u, q
<1>12. Shown(back, screen, above, p.lines)
  <2>1. \A i \in 1 .. Len(t.screen) : Alike(screen[i], t.screen[i])
    <3> TAKE i \in 1 .. Len(t.screen)
    <3>1. i \in 1 .. old.rows /\ i \in 1 .. rows
      BY <1>1
    <3> QED BY <1>4, <1>8, <3>1
  <2>2. \A i \in 1 .. Len(screen) : i > Len(t.screen) => Alike(screen[i], <<>>)
    <3> TAKE i \in 1 .. Len(screen)
    <3> HAVE i > Len(t.screen)
    <3>1. i \in 1 .. rows /\ i > old.rows
      BY <1>1, <1>9
    <3>2. Alike(screen[i], r.screen[i]) /\ r.screen[i] = <<>>
      BY <1>4, <1>8, <3>1
    <3> QED BY <3>2
  <2>3. Len(t.screen) <= Len(screen)
    BY <1>1, <1>9
  <2> HIDE DEF L, above
  <2> QED BY ONLY <1>1, <1>2, <1>9, <1>10, <2>1, <2>2, <2>3, GrowShown
<1>13. \A i \in DOMAIN screen : Narrow(screen[i], cols)
  BY <1>6, <1>8, <1>9, NarrowAlike
<1>14. Shows(u, q)
  BY <1>1, <1>2, <1>3, <1>11, <1>12, <1>13 DEF Shows
<1> QED BY <1>5, <1>14 DEF q

-----------------------------------------------------------------------------
(* The invariant of the screen.                                            *)

\* As long as output is ASCII and the terminal has not shrunk, it shows the
\* paper.
PaperInv == AsciiOnly /\ NeverEmpty /\ ~past.shrunk => Shows(mux, past.paper)

\* It holds at the start.
LEMMA PaperInit == Init => PaperInv
<1> SUFFICES ASSUME Init PROVE PaperInv
  OBVIOUS
<1> DEFINE rows == FirstSize.rows
           cols == FirstSize.columns
<1>1. /\ past.sizes = {FirstSize} /\ mux = NewTerminal(FirstSize)
      /\ past.paper = NewPaper(FirstSize) /\ past.shrunk = FALSE
  BY DEF Init
<1>2. FirstSize \in Sized /\ rows \in Nat /\ cols \in Nat
  BY SizesAre DEF Sized
<1>3. ASSUME NeverEmpty PROVE Shows(mux, past.paper)
  <2>1. rows > 0 /\ cols > 0
    BY <1>1, <1>3 DEF NeverEmpty
  <2>2. /\ mux.size = FirstSize /\ mux.screen = BlankLines(rows) /\ mux.scrollback = <<>>
        /\ mux.row = 0 /\ mux.col = 0 /\ mux.ok
    BY <1>1 DEF NewTerminal
  <2>3. past.paper = [lines |-> <<>>, row |-> 0, col |-> 0, columns |-> cols]
    BY <1>1 DEF NewPaper
  <2>4. past.paper \in Papers
    <3>1. <<>> \in Seq(Seq(AsciiChars))
      OBVIOUS
    <3> QED BY <1>2, <2>3, <3>1 DEF Papers
  <2>5. /\ DOMAIN mux.screen = 1 .. rows /\ Len(mux.screen) = rows
        /\ \A i \in DOMAIN mux.screen : mux.screen[i] = <<>>
    <3> HIDE DEF rows
    <3> QED BY <1>2, <2>2 DEF BlankLines
  <2>6. \A i \in DOMAIN mux.screen : Narrow(mux.screen[i], cols)
    BY <2>5 DEF Narrow, Cell
  <2>7. Shown(<<>>, mux.screen, 0, <<>>)
    <3>1. \A i : LineAt(<<>>, i) = <<>>
      BY DEF LineAt
    <3>2. Len(<<>>) = 0 /\ 0 <= 0 + rows /\ DOMAIN <<>> = {}
      BY <1>2
    <3>3. \A i \in DOMAIN mux.screen : Alike(mux.screen[i], LineAt(<<>>, 0 + i))
      BY <2>5, <3>1, AlikeTrans
    <3> QED BY <2>5, <3>2, <3>3 DEF Shown
  <2> QED BY <2>1, <2>2, <2>3, <2>4, <2>6, <2>7 DEF Shows
<1> QED BY <1>1, <1>3 DEF PaperInv

\* A read of ASCII is written on both.
LEMMA PaperPolled ==
  ASSUME OutputInv, PaperInv, NEW b \in Reads, PollRead(b), OutputInv'
  PROVE  PaperInv'
<1> DEFINE raw == Numbered(b)
           text == Lossy(raw)
           reads == past.reads
           size == mux.size
<1>1. /\ DOMAIN past = PastFields /\ reads \in Seq(NonEmptyReads)
      /\ raw \in NonEmptyReads /\ raw \in Seq(RawChars) /\ raw # <<>>
  BY NumberedIs DEF OutputInv, ReadsKept, NonEmptyReads
<1>2. /\ past'.reads = Append(reads, raw) /\ past'.sizes = past.sizes
      /\ past'.shrunk = past.shrunk /\ past'.paper = FoldLeft(PaperFed, past.paper, text)
      /\ ok' => mux' = TerminalAppended(mux, text)
  BY <1>1 DEF PollRead, PastFields
<1>3. (\A i \in DOMAIN raw : raw[i].k \notin Wide) => text \in Seq(AsciiChars)
  BY <1>1, LossyKeeps
<1> HIDE DEF raw, text
<1>4. ASSUME AsciiOnly', NeverEmpty', ~past'.shrunk PROVE Shows(mux, past.paper)'
  <2>1. /\ Len(past'.reads) = Len(reads) + 1 /\ Len(reads) \in Nat
        /\ past'.reads[Len(reads) + 1] = raw
        /\ DOMAIN past'.reads = 1 .. Len(reads) + 1 /\ DOMAIN reads = 1 .. Len(reads)
        /\ \A i \in 1 .. Len(reads) : past'.reads[i] = reads[i]
    BY <1>1, <1>2
  <2>2. \A i \in 1 .. Len(reads) + 1 : \A j \in DOMAIN past'.reads[i] :
          past'.reads[i][j].k \notin Wide
    BY <1>4, <2>1 DEF AsciiOnly
  <2>3. Len(reads) + 1 \in 1 .. Len(reads) + 1 /\ 1 .. Len(reads) \subseteq 1 .. Len(reads) + 1
    BY <2>1
  <2>4. text \in Seq(AsciiChars)
    BY <1>3, <2>1, <2>2, <2>3
  <2>5. AsciiOnly /\ NeverEmpty /\ ~past.shrunk
    BY <1>2, <1>4, <2>1, <2>2, <2>3 DEF AsciiOnly, NeverEmpty
  <2>6. /\ Shows(mux, past.paper) /\ mux \in Terminals(AsciiChars, size) /\ size \in Sized
    BY <2>5, SizesAre DEF PaperInv, OutputInv, AsciiKept, ScreenKept
  <2> HIDE DEF size
  <2>7. Shows(TerminalAppended(mux, text), FoldLeft(PaperFed, past.paper, text))
    BY ONLY <2>4, <2>6, TextShows
  <2>8. ok'
    BY <1>4 DEF OutputInv, AsciiKept
  <2> QED BY <1>2, <2>7, <2>8
<1> QED BY <1>2, <1>4 DEF PaperInv

\* A larger screen shows what it did.
LEMMA PaperResized ==
  ASSUME OutputInv, PaperInv, NEW size \in Sizes, ResizeTerminal(size)
  PROVE  PaperInv'
<1>1. mux' = Resized(mux, size)
  BY DEF ResizeTerminal
<1>2. /\ past'.reads = past.reads /\ past'.sizes = past.sizes \cup {size}
      /\ past'.shrunk = (past.shrunk \/ size.rows < mux.size.rows
                                    \/ size.columns < mux.size.columns)
      /\ past'.paper = [past.paper EXCEPT !.columns = size.columns]
  BY DEF ResizeTerminal, OutputInv, ReadsKept, PastFields
<1>3. ASSUME AsciiOnly', NeverEmpty', ~past'.shrunk PROVE Shows(mux, past.paper)'
  <2>1. AsciiOnly /\ NeverEmpty
    BY <1>2, <1>3 DEF AsciiOnly, NeverEmpty
  <2>2. ~past.shrunk /\ ~(size.rows < mux.size.rows) /\ ~(size.columns < mux.size.columns)
    BY <1>2, <1>3
  <2>3. /\ Shows(mux, past.paper) /\ mux \in Terminals(AsciiChars, mux.size)
        /\ mux.size \in Sized /\ size \in Sized
    BY <2>1, <2>2, SizesAre DEF PaperInv, OutputInv, AsciiKept, ScreenKept
  <2>4. size.rows >= mux.size.rows /\ size.columns >= mux.size.columns
    BY <2>2, <2>3 DEF Sized
  <2>5. Shows(Resized(mux, size), [past.paper EXCEPT !.columns = size.columns])
    BY ONLY <2>3, <2>4, ResizedShows
  <2> QED BY <1>1, <1>2, <2>5
<1> QED BY <1>3 DEF PaperInv

\* Every step keeps it.
LEMMA PaperStep == OutputInv /\ PaperInv /\ [Next]_vars => PaperInv'
<1> SUFFICES ASSUME OutputInv, PaperInv, [Next]_vars PROVE PaperInv'
  OBVIOUS
<1>1. OutputInv' /\ DOMAIN past = PastFields
  BY OutputStep DEF OutputInv, ReadsKept
<1>2. ASSUME mux' = mux, past'.reads = past.reads, past'.sizes = past.sizes,
             past'.shrunk = past.shrunk, past'.paper = past.paper
      PROVE  PaperInv'
  BY <1>2 DEF PaperInv, AsciiOnly, NeverEmpty
<1>3. ASSUME NEW b \in Reads, PollRead(b) PROVE PaperInv'
  BY <1>1, <1>3, PaperPolled
<1>4. ASSUME NEW size \in Sizes, ResizeTerminal(size) PROVE PaperInv'
  BY <1>4, PaperResized
<1>5. ASSUME NEW v \in Viewers,
             RemoveViewport(v) \/ \E size \in ViewSizes : UpdateViewport(v, size)
      PROVE  PaperInv'
  BY <1>2, <1>5 DEF RemoveViewport, UpdateViewport
<1>6. ASSUME NEW text \in BoundedSeq(Lines, 2), NEW stream \in {"stdout", "stderr"},
             AppendLog(text, stream)
      PROVE  PaperInv'
  <2>1. /\ mux' = mux /\ past'.reads = past.reads /\ past'.sizes = past.sizes
        /\ past'.shrunk = past.shrunk /\ past'.paper = past.paper
    BY <1>1, <1>6 DEF AppendLog, PastFields, runtimeVars
  <2> QED BY <1>2, <2>1
<1>7. ASSUME NEW s \in Watched, Observe(s) PROVE PaperInv'
  <2>1. /\ mux' = mux /\ past'.reads = past.reads /\ past'.sizes = past.sizes
        /\ past'.shrunk = past.shrunk /\ past'.paper = past.paper
    BY <1>1, <1>7 DEF Observe, PastFields, runtimeVars
  <2> QED BY <1>2, <2>1
<1>8. CASE UNCHANGED vars
  BY <1>2, <1>8 DEF vars
<1> QED BY <1>3, <1>4, <1>5, <1>6, <1>7, <1>8 DEF Next

\* What the invariant gives, for the viewports, too.
LEMMA ScreenIs == ASSUME OutputInv, PaperInv PROVE ScreenIsPaper
<1> SUFFICES ASSUME AsciiOnly, NeverEmpty, ~past.shrunk
             PROVE  ScreenIsPaper
  BY DEF ScreenIsPaper
<1> DEFINE L == Seq(AsciiChars)
           p == past.paper
           n == Len(mux.scrollback)
           h == mux.size.rows
           above == p.row - mux.row
<1>1. Shows(mux, past.paper) /\ mux \in Terminals(AsciiChars, mux.size) /\ mux.size \in Sized
  BY SizesAre DEF PaperInv, OutputInv, AsciiKept, ScreenKept
<1>2. /\ mux.scrollback \in Seq(L) /\ mux.screen \in Seq(L) /\ Len(mux.screen) = h
      /\ n \in Nat /\ h \in Nat /\ mux.row \in Nat /\ mux.row < h
      /\ mux.col = p.col
      /\ p.lines \in Seq(L) /\ p.row \in Nat
      /\ DOMAIN mux.scrollback = 1 .. n /\ DOMAIN mux.screen = 1 .. h
  BY <1>1 DEF Terminals, Screens, Sized, Shows, Papers
<1>3. /\ above \in Nat /\ n <= above /\ (n < above => n = MaxScrollback)
      /\ \A i \in 1 .. n : Alike(mux.scrollback[i], LineAt(p.lines, above - n + i))
      /\ \A i \in 1 .. h : Alike(mux.screen[i], LineAt(p.lines, above + i))
      /\ Len(p.lines) <= above + h
  BY <1>1, <1>2 DEF Shows, Shown
<1>4. \A i : PaperLine(i) = LineAt(p.lines, i) /\ LineAt(p.lines, i) \in L
  <2>1. <<>> \in L
    OBVIOUS
  <2> QED BY <1>2, <2>1 DEF PaperLine, LineAt
<1>5. LinesGone = above - n
  BY <1>2 DEF LinesGone, CursorLine
<1> HIDE DEF p, L
<1>6. /\ AllLines \in Seq(L) /\ Len(AllLines) = n + h /\ DOMAIN AllLines = 1 .. n + h
      /\ \A i \in 1 .. n : AllLines[i] = mux.scrollback[i]
      /\ \A i \in 1 .. h : AllLines[n + i] = mux.screen[i]
  <2> DEFINE a == mux.scrollback
             b == mux.screen
  <2>1. a \in Seq(L) /\ b \in Seq(L) /\ Len(a) = n /\ Len(b) = h
    BY <1>2
  <2>2. AllLines = a \o b
    BY DEF AllLines
  <2> HIDE DEF a, b, n, h
  <2>3. /\ a \o b \in Seq(L) /\ Len(a \o b) = n + h /\ DOMAIN (a \o b) = 1 .. n + h
        /\ \A i \in 1 .. n : (a \o b)[i] = a[i]
        /\ \A i \in 1 .. h : (a \o b)[n + i] = b[i]
    BY ONLY <2>1, JoinIs
  <2> QED BY ONLY <2>2, <2>3 DEF a, b
<1> HIDE DEF n, h, above
<1>7. ASSUME NEW i \in 1 .. n + h PROVE SameLine(AllLines[i], PaperLine(LinesGone + i))
  <2>1. AllLines[i] \in L /\ PaperLine(LinesGone + i) \in L
    BY <1>4, <1>6
  <2>2. Alike(AllLines[i], LineAt(p.lines, above - n + i))
    <3>1. CASE i <= n
      <4>1. i \in 1 .. n
        BY <1>2, <3>1
      <4> QED BY <1>3, <1>6, <4>1
    <3>2. CASE ~(i <= n)
      <4> DEFINE j == i - n
      <4>1. j \in 1 .. h /\ n + j = i /\ above + j = above - n + i
        BY <1>2, <1>3, <3>2
      <4> HIDE DEF j
      <4> QED BY <1>3, <1>6, <4>1
    <3> QED BY <3>1, <3>2
  <2>3. Alike(AllLines[i], PaperLine(LinesGone + i))
    BY <1>4, <1>5, <2>2
  <2> QED BY <2>1, <2>3, AlikeIs DEF L
<1>8. ASSUME NEW v \in DOMAIN views, views[v].rows >= mux.size.rows
      PROVE  LET snap == ViewportSnapshot(mux, views[v]) IN
             \E r \in snap.cursor_row : SameLine(snap.lines[r + 1], PaperLine(past.paper.row + 1))
  <2> DEFINE vr == views[v].rows
             top == Max({0, n + h - vr})
             bottom == Min({top + vr, n + h})
             cursor == mux.row + n
             r == cursor - top
             snap == ViewportSnapshot(mux, views[v])
  <2>1. vr \in Nat /\ vr >= h
    <3>1. views[v] \in Sized
      BY SizesAre DEF OutputInv, ViewsKept
    <3> QED BY <1>8, <3>1 DEF Sized, h
  <2> HIDE DEF vr
  <2>2. top = IF 0 >= n + h - vr THEN 0 ELSE n + h - vr
    BY <1>2, <2>1, LargerIs
  <2>3. /\ top = ViewportTop(mux, views[v]) /\ cursor = CursorLine(mux)
    BY <1>2 DEF ViewportTop, CursorLine, n, vr
  <2> HIDE DEF top
  <2>4. top \in 0 .. n /\ top + vr >= n + h
    BY <1>2, <2>1, <2>2
  <2>5. bottom = n + h
    <3>1. bottom = IF top + vr <= n + h THEN top + vr ELSE n + h
      BY <1>2, <2>1, <2>4, SmallerIs
    <3> HIDE DEF bottom
    <3> QED BY <1>2, <2>1, <2>4, <3>1
  <2>6. top <= cursor /\ cursor < top + vr /\ cursor \in Nat
    <3>1. mux.row \in Nat /\ mux.row < h /\ n \in Nat /\ h \in Nat
      BY <1>2 DEF h
    <3> QED BY ONLY <2>1, <2>4, <3>1
  <2>7. snap.cursor_row = {r} /\ snap.lines = SubSeq(AllLines, top + 1, bottom)
    BY <1>2, <2>3, <2>6 DEF ViewportSnapshot, AllLines, n, vr
  <2> HIDE DEF bottom, snap
  <2>8. r + 1 \in 1 .. (n + h) - top /\ (r + 1) + top = cursor + 1 /\ cursor + 1 \in 1 .. n + h
    BY SMTT(30), <1>2, <2>4, <2>6
  <2>9. snap.lines[r + 1] = AllLines[cursor + 1]
    <3> DEFINE m == n + h
               k == r + 1
    <3>1. m = Len(AllLines) /\ top \in 0 .. m /\ m \in Nat
      BY <1>2, <1>6, <2>4
    <3>2. k \in 1 .. m - top /\ k + top = cursor + 1 /\ snap.lines = SubSeq(AllLines, top + 1, m)
      BY <2>5, <2>7, <2>8
    <3> HIDE DEF m, k, cursor
    <3>3. \A i \in 1 .. m - top : SubSeq(AllLines, top + 1, m)[i] = AllLines[i + top]
      BY ONLY <1>6, <3>1, RestOf
    <3>4. SubSeq(AllLines, top + 1, m)[k] = AllLines[k + top]
      BY ONLY <3>2, <3>3
    <3>5. snap.lines[k] = AllLines[cursor + 1]
      BY ONLY <3>2, <3>4
    <3> QED BY ONLY <3>5 DEF k, cursor
  <2>10. LinesGone + (cursor + 1) = past.paper.row + 1
    BY SMTT(30), <1>2, <1>3, <1>5 DEF above, p
  <2>11. SameLine(snap.lines[r + 1], PaperLine(past.paper.row + 1))
    BY <1>7, <2>8, <2>9, <2>10
  <2>12. \E x \in snap.cursor_row : SameLine(snap.lines[x + 1], PaperLine(past.paper.row + 1))
    BY <2>7, <2>11
  <2> QED BY <2>12 DEF snap
<1>9. /\ mux.row < mux.size.rows /\ mux.col = past.paper.col
      /\ LinesGone >= 0 /\ (LinesGone > 0 => Len(mux.scrollback) = MaxScrollback)
      /\ Len(past.paper.lines) <= LinesGone + Len(AllLines)
  <2>1. mux.row < mux.size.rows /\ mux.col = past.paper.col
    BY <1>2 DEF h, p
  <2>2. LinesGone >= 0 /\ (LinesGone > 0 => n = MaxScrollback)
    BY <1>2, <1>3, <1>5
  <2>3. Len(p.lines) <= LinesGone + (n + h)
    <3>1. Len(p.lines) \in Nat
      BY <1>2
    <3> QED BY <1>2, <1>3, <1>5, <3>1
  <2> QED BY <1>6, <2>1, <2>2, <2>3 DEF n, p
<1> QED BY <1>6, <1>7, <1>8, <1>9 DEF ScreenIsPaper

-----------------------------------------------------------------------------
(* The queries.                                                            *)

Totals == INSTANCE FoldTheorems WITH Op <- LAMBDA sum, n : sum + n

\* The bytes from the i-th string on.
BytesFrom(h, i) == ByteLen(Flat(h, i))

\* The bytes from one string on are its own and those of the others.
LEMMA BytesFromIs ==
  ASSUME NEW h \in Seq(Strings)
  PROVE  /\ BytesFrom(h, Len(h) + 1) = 0
         /\ \A i \in 1 .. Len(h) + 1 : BytesFrom(h, i) \in Nat /\ Flat(h, i) \in Seq(Chars)
         /\ \A i \in 1 .. Len(h) : /\ BytesFrom(h, i) = ByteLen(h[i]) + BytesFrom(h, i + 1)
                                   /\ ByteLen(h[i]) \in 1 .. Capacity
<1>1. h \in Seq(Seq(Chars)) /\ Len(h) \in Nat
  BY StringsAre
<1>2. Flat(h, Len(h) + 1) = <<>>
  BY <1>1, FlatEnds
<1>3. \A i \in 1 .. Len(h) + 1 : Flat(h, i) \in Seq(Chars) /\ ByteLen(Flat(h, i)) \in Nat
  <2> TAKE i \in 1 .. Len(h) + 1
  <2>1. i \in i .. Len(h) + 1
    BY <1>1
  <2>2. Flat(h, i) \in Seq(Chars)
    BY ONLY <1>1, <2>1, i \in 1 .. Len(h) + 1, FlatSplit
  <2> QED BY <2>2, ByteLenSums
<1>4. ASSUME NEW i \in 1 .. Len(h)
      PROVE  /\ ByteLen(Flat(h, i)) = ByteLen(h[i]) + ByteLen(Flat(h, i + 1))
             /\ ByteLen(h[i]) \in 1 .. Capacity
  <2>1. /\ h[i] \in Seq(Chars) /\ Flat(h, i + 1) \in Seq(Chars)
        /\ Flat(h, i) = h[i] \o Flat(h, i + 1)
    BY <1>1, FlatFirst
  <2>2. h[i] # <<>> /\ ByteLen(h[i]) <= Capacity
    BY DEF Strings
  <2>3. ByteLen(h[i]) # 0 /\ ByteLen(h[i]) \in Nat
    BY <2>1, <2>2, NoBytes, ByteLenSums
  <2>4. ByteLen(h[i]) \in 1 .. Capacity
    BY <2>2, <2>3, OutputBufferAssumption
  <2> QED BY <2>1, <2>4, ByteLenSums
<1> QED BY <1>2, <1>3, <1>4, ByteLenSums DEF BytesFrom

\* The later, the fewer, and what comes later is the end of what comes earlier.
LEMMA BytesFromFalls ==
  ASSUME NEW h \in Seq(Strings), NEW i \in 1 .. Len(h) + 1, NEW j \in i .. Len(h) + 1
  PROVE  /\ BytesFrom(h, j) <= BytesFrom(h, i)
         /\ \E p \in Seq(Chars) : Flat(h, i) = p \o Flat(h, j)
<1>1. h \in Seq(Seq(Chars))
  BY StringsAre
<1> DEFINE p == FlattenSeq(SubSeq(h, i, j - 1))
<1>2. p \in Seq(Chars) /\ Flat(h, j) \in Seq(Chars) /\ Flat(h, i) = p \o Flat(h, j)
  BY <1>1, FlatSplit
<1> HIDE DEF p
<1>3. /\ ByteLen(p \o Flat(h, j)) = ByteLen(p) + ByteLen(Flat(h, j))
      /\ ByteLen(p) \in Nat /\ ByteLen(Flat(h, j)) \in Nat
  BY <1>2, ByteLenSums
<1>4. ByteLen(Flat(h, j)) <= ByteLen(Flat(h, i))
  BY <1>2, <1>3
<1> QED BY <1>2, <1>4 DEF BytesFrom

\* What tail has collected down to a chunk is the bytes from it on, unless
\* both are enough.
Taken(b, max) == [i \in DOMAIN b.chunks |-> Min({ByteLen(b.chunks[i].data), max})]
Collected(b, max, i) == Totals!Fold(0, SubSeq(Taken(b, max), i, Len(Taken(b, max))))
LEMMA CollectedIs ==
  ASSUME NEW b, NEW h, BufferKept(b, h), NEW max \in Nat, NEW i \in 1 .. Len(b.chunks) + 1
  PROVE  \/ Collected(b, max, i) = BytesFrom(h, Dropped(b) + i)
         \/ Collected(b, max, i) >= max /\ BytesFrom(h, Dropped(b) + i) >= max
<1> DEFINE n == Len(b.chunks)
           f == Dropped(b)
           t == Taken(b, max)
           c(j) == Totals!Fold(0, SubSeq(t, j, n))
           w(j) == BytesFrom(h, f + j)
           P(j) == c(j) \in Nat /\ (c(j) = w(j) \/ (c(j) >= max /\ w(j) >= max))
           K == {m \in Nat : m <= n => P(n + 1 - m)}
<1>1. /\ n \in Nat /\ f \in Nat /\ f + n = Len(h) /\ h \in Seq(Strings)
      /\ DOMAIN b.chunks = 1 .. n
  BY DEF BufferKept, Dropped
<1>2. \A j \in 1 .. n : b.chunks[j].data = h[f + j]
  <2> TAKE j \in 1 .. n
  <2>1. b.chunks[j] = [seq |-> f + j - 1, data |-> h[f + j]]
    BY DEF BufferKept
  <2> QED BY <2>1
<1> HIDE DEF n, f
<1>3. \A j \in 1 .. n + 1 : f + j \in 1 .. Len(h) + 1 /\ w(j) \in Nat
  <2> TAKE j \in 1 .. n + 1
  <2>1. f + j \in 1 .. Len(h) + 1
    BY <1>1
  <2> QED BY <1>1, <2>1, BytesFromIs
<1>4. \A j \in 1 .. n : /\ ByteLen(h[f + j]) \in Nat /\ w(j) = ByteLen(h[f + j]) + w(j + 1)
                        /\ t[j] = IF ByteLen(h[f + j]) <= max THEN ByteLen(h[f + j]) ELSE max
  <2> TAKE j \in 1 .. n
  <2> DEFINE k == f + j
  <2>1. k \in 1 .. Len(h) /\ k + 1 = f + (j + 1)
    BY <1>1
  <2>2. t[j] = Min({ByteLen(h[k]), max})
    BY <1>1, <1>2 DEF Taken
  <2> HIDE DEF k, t
  <2>3. BytesFrom(h, k) = ByteLen(h[k]) + BytesFrom(h, k + 1) /\ ByteLen(h[k]) \in 1 .. Capacity
    BY <1>1, <2>1, BytesFromIs
  <2>4. ByteLen(h[k]) \in Nat
    BY <2>3, OutputBufferAssumption
  <2>5. t[j] = IF ByteLen(h[k]) <= max THEN ByteLen(h[k]) ELSE max
    BY <2>2, <2>4, SmallerIs
  <2> QED BY <2>1, <2>3, <2>4, <2>5 DEF k
<1>5. t \in Seq(Nat) /\ Len(t) = n
  <2>1. t = [j \in 1 .. n |-> t[j]]
    BY <1>1 DEF Taken
  <2>2. \A j \in 1 .. n : t[j] \in Nat
    BY <1>4
  <2> HIDE DEF t
  <2> QED BY <1>1, <2>1, <2>2
<1> HIDE DEF t, w
<1>6. 0 \in K
  <2>1. SubSeq(t, n + 1, n) = <<>>
    BY <1>1, <1>5
  <2>2. c(n + 1) = 0
    BY <2>1, Totals!FoldEmpty
  <2>3. w(n + 1) = 0
    <3>1. f + (n + 1) = Len(h) + 1
      BY <1>1
    <3> QED BY <1>1, <3>1, BytesFromIs DEF w
  <2> HIDE DEF c
  <2>4. P(n + 1)
    <3> DEFINE e == n + 1
    <3>1. c(e) = 0 /\ w(e) = 0
      BY <2>2, <2>3
    <3> HIDE DEF e, K
    <3>2. P(e)
      BY <3>1
    <3> QED BY <3>2 DEF e
  <2>5. n + 1 - 0 = n + 1
    BY <1>1
  <2> HIDE DEF P
  <2> QED BY <2>4, <2>5
<1>7. ASSUME NEW m \in Nat, m \in K PROVE m + 1 \in K
  <2> SUFFICES ASSUME m + 1 <= n PROVE P(n + 1 - (m + 1))
    OBVIOUS
  <2> DEFINE j == n - m
  <2>1. j \in 1 .. n /\ j + 1 \in 1 .. n + 1 /\ n + 1 - (m + 1) = j /\ n + 1 - m = j + 1 /\ m <= n
    BY <1>1
  <2> HIDE DEF j
  <2>2. P(j + 1)
    <3> HIDE DEF P
    <3> QED BY <1>7, <2>1
  <2>3. c(j) = t[j] + c(j + 1) /\ t[j] \in Nat /\ c(j + 1) \in Nat
    <3>1. SubSeq(t, j, n) = <<t[j]>> \o SubSeq(t, j + 1, n)
      <4>1. j \in Int /\ n \in Int /\ j <= n /\ j \in 1 .. Len(t) /\ n \in j .. Len(t)
        BY <1>1, <1>5, <2>1
      <4> QED BY <1>5, <4>1, SubSeqRecursiveFirst
    <3> DEFINE r == SubSeq(t, j + 1, n)
               x == <<t[j]>>
    <3>2. r \in Seq(Nat) /\ t[j] \in Nat /\ x \in Seq(Nat)
      <4>1. t[j] \in Nat
        BY <1>5, <2>1
      <4> DEFINE k == j + 1
      <4>2. k \in 1 .. Len(t) + 1 /\ n = Len(t)
        BY <1>5, <2>1
      <4> HIDE DEF k
      <4>3. SubSeq(t, k, n) \in Seq(Nat)
        BY <1>5, <4>2
      <4> QED BY <4>1, <4>3 DEF k
    <3> HIDE DEF r, x
    <3>7. Totals!Fold(0, x \o r) = Totals!Fold(Totals!Fold(0, x), r)
      BY ONLY <3>2, Totals!FoldConcat
    <3>3. Totals!Fold(0, <<t[j]>> \o r) = Totals!Fold(Totals!Fold(0, <<t[j]>>), r)
      BY ONLY <3>7 DEF x
    <3>4. Totals!Fold(0, <<t[j]>>) = 0 + t[j]
      BY Totals!FoldOne
    <3>5. Totals!Fold(0, r) \in Nat /\ Totals!Fold(t[j], r) = t[j] + Totals!Fold(0, r)
      <4>1. \A y \in Nat, e \in Nat : 0 + e \in Nat /\ y + e = y + (0 + e)
        OBVIOUS
      <4> QED BY ONLY <3>2, <4>1, Totals!FoldAdds
    <3>6. 0 + t[j] = t[j]
      BY <3>2
    <3> QED BY <3>1, <3>2, <3>3, <3>4, <3>5, <3>6 DEF r
  <2> HIDE DEF c
  <2>4. /\ ByteLen(h[f + j]) \in Nat /\ w(j) = ByteLen(h[f + j]) + w(j + 1)
        /\ t[j] = IF ByteLen(h[f + j]) <= max THEN ByteLen(h[f + j]) ELSE max
        /\ w(j + 1) \in Nat
    <3>1. w(j + 1) \in Nat
      BY <1>3, <2>1 DEF w
    <3>2. /\ ByteLen(h[f + j]) \in Nat /\ w(j) = ByteLen(h[f + j]) + w(j + 1)
          /\ t[j] = IF ByteLen(h[f + j]) <= max THEN ByteLen(h[f + j]) ELSE max
      BY <1>4, <2>1 DEF w
    <3> QED BY <3>1, <3>2
  <2>5. P(j)
    BY <2>2, <2>3, <2>4
  <2> HIDE DEF P
  <2> QED BY <2>1, <2>5
<1>8. \A m \in Nat : m \in K
  <2> HIDE DEF K
  <2> QED BY <1>6, <1>7, Totals!Induction
<1>9. P(i)
  <2> DEFINE m == n + 1 - i
  <2>1. m \in Nat /\ m <= n /\ n + 1 - m = i
    BY <1>1 DEF n
  <2> HIDE DEF m
  <2>2. m \in K
    BY <1>8, <2>1
  <2> HIDE DEF P
  <2> QED BY <2>1, <2>2
<1> QED BY <1>5, <1>9 DEF Collected, n, f, w, t

\* A slice is everything from its chunk on.
LEMMA SliceIs ==
  ASSUME NEW b, NEW h, BufferKept(b, h), NEW i \in 1 .. Len(b.chunks)
  PROVE  /\ SliceAt(b, i).data = Flat(h, Dropped(b) + i)
         /\ SliceAt(b, i).seq_start = Dropped(b) + i - 1
         /\ SliceAt(b, i).seq_end = Last(b.chunks).seq
<1> DEFINE n == Len(b.chunks)
           f == Dropped(b)
           m == n - i + 1
           parts == [j \in 1 .. m |-> b.chunks[i + j - 1].data]
           rest == SubSeq(h, f + i, Len(h))
<1>1. /\ n \in Nat /\ f \in Nat /\ f + n = Len(h) /\ h \in Seq(Strings) /\ i \in 1 .. n
  BY DEF BufferKept, Dropped
<1>2. \A k \in 1 .. n : b.chunks[k] = [seq |-> f + k - 1, data |-> h[f + k]]
  BY DEF BufferKept
<1> HIDE DEF f
<1>3. \A k \in 1 .. n : b.chunks[k].data = h[f + k] /\ b.chunks[k].seq = f + k - 1
  <2> TAKE k \in 1 .. n
  <2>1. b.chunks[k] = [seq |-> f + k - 1, data |-> h[f + k]]
    BY <1>2
  <2> QED BY <2>1
<1>4. /\ SliceAt(b, i).data = FlattenSeq(parts) /\ SliceAt(b, i).seq_start = b.chunks[i].seq
      /\ SliceAt(b, i).seq_end = Last(b.chunks).seq
  BY DEF SliceAt
<1> HIDE DEF n
<1>5. /\ rest \in Seq(Strings) /\ Len(rest) = m /\ m \in Nat
      /\ \A j \in 1 .. m : rest[j] = h[(f + i) + j - 1]
  <2> DEFINE a == f + i
  <2>1. a \in 1 .. Len(h) /\ Len(h) - a + 1 = m /\ m \in Nat /\ Len(h) \in Nat
    BY <1>1
  <2> HIDE DEF a, m
  <2>2. /\ SubSeq(h, a, Len(h)) \in Seq(Strings) /\ Len(SubSeq(h, a, Len(h))) = m
        /\ \A j \in 1 .. m : SubSeq(h, a, Len(h))[j] = h[a + j - 1]
    BY <1>1, <2>1
  <2> QED BY <2>1, <2>2 DEF a
<1> HIDE DEF rest, m
<1>6. \A j \in 1 .. m : parts[j] = rest[j]
  <2> TAKE j \in 1 .. m
  <2> DEFINE k == i + j - 1
  <2>1. k \in 1 .. n /\ f + k = (f + i) + j - 1
    BY <1>1, <1>5 DEF m
  <2>2. parts[j] = b.chunks[k].data
    OBVIOUS
  <2> HIDE DEF k
  <2>3. b.chunks[k].data = h[f + k]
    BY <1>3, <2>1
  <2> QED BY <1>5, <2>1, <2>2, <2>3
<1>7. parts = rest
  <2>1. parts = [j \in 1 .. m |-> parts[j]] /\ rest = [j \in 1 .. m |-> rest[j]]
    BY <1>5
  <2> HIDE DEF parts
  <2> QED BY <1>6, <2>1
<1>8. b.chunks[i].seq = f + i - 1
  BY <1>1, <1>3
<1> QED BY <1>4, <1>7, <1>8 DEF Flat, rest, f

\* A tail of a buffer that has chunks starts at the last chunk from which on
\* there are enough bytes, or at the first.
LEMMA TailStarts ==
  ASSUME NEW b, NEW h, BufferKept(b, h), b.chunks # <<>>, NEW max \in Nat
  PROVE  LET i == TailFrom(b, max)
             f == Dropped(b) IN
         /\ i \in 1 .. Len(b.chunks)
         /\ \/ BytesFrom(h, f + i) >= max /\ (i < Len(b.chunks) => BytesFrom(h, f + i + 1) < max)
            \/ i = 1 /\ BytesFrom(h, f + 1) < max
<1> DEFINE n == Len(b.chunks)
           f == Dropped(b)
           w(j) == BytesFrom(h, f + j)
           S == {1} \cup {j \in DOMAIN b.chunks : Collected(b, max, j) >= max}
           i == TailFrom(b, max)
<1>1. /\ n \in Nat /\ f \in Nat /\ f + n = Len(h) /\ h \in Seq(Strings)
      /\ DOMAIN b.chunks = 1 .. n /\ n > 0
  BY DEF BufferKept, Dropped
<1>2. i = Max(S)
  BY DEF TailFrom, Collected, Taken, FoldLeft, MapThenFoldSet, Max,
         Totals!Fold, Totals!FoldLeft, Totals!MapThenFoldSet, Totals!Max
<1>3. \A j \in 1 .. n : w(j) \in Nat /\ (Collected(b, max, j) >= max <=> w(j) >= max)
  <2> TAKE j \in 1 .. n
  <2>1. w(j) \in Nat
    <3>1. f + j \in 1 .. Len(h) + 1
      BY <1>1
    <3> QED BY <1>1, <3>1, BytesFromIs
  <2>2. j \in 1 .. Len(b.chunks) + 1
    BY <1>1
  <2>3. \/ Collected(b, max, j) = w(j)
        \/ Collected(b, max, j) >= max /\ w(j) >= max
    BY <2>2, CollectedIs
  <2> HIDE DEF w, f
  <2> QED BY <2>1, <2>3
<1> HIDE DEF i, w
<1>4. S \in SUBSET Nat /\ 1 \in S /\ \A y \in S : y <= n
  BY <1>1
<1>5. i \in S /\ \A y \in S : y <= i
  <2> HIDE DEF S
  <2>1. Totals!Max(S) \in S /\ \A y \in S : y <= Totals!Max(S)
    BY <1>1, <1>4, Totals!MaxOfNaturals
  <2> QED BY <1>2, <2>1 DEF Max, Totals!Max
<1>6. i \in 1 .. n
  BY <1>1, <1>5
<1>7. CASE w(i) >= max
  <2>1. ASSUME i < n PROVE w(i + 1) < max
    <3>1. i + 1 \in 1 .. n /\ ~(i + 1 <= i)
      BY <1>1, <1>6, <2>1
    <3>2. i + 1 \notin S
      BY <1>5, <3>1
    <3>3. ~(Collected(b, max, i + 1) >= max)
      BY <1>1, <3>1, <3>2
    <3>4. w(i + 1) \in Nat /\ ~(w(i + 1) >= max)
      BY <1>3, <3>1, <3>3
    <3> QED BY <3>4
  <2>2. f + (i + 1) = f + i + 1
    BY <1>1, <1>6
  <2> HIDE DEF S
  <2> QED BY <1>6, <1>7, <2>1, <2>2 DEF w, i
<1>8. CASE ~(w(i) >= max)
  <2>1. i = 1
    BY <1>1, <1>3, <1>5, <1>6, <1>8
  <2>2. w(1) \in Nat /\ ~(w(1) >= max)
    BY <1>1, <1>3, <1>8, <2>1
  <2>3. w(1) < max
    BY <2>2
  <2> HIDE DEF S
  <2> QED BY <1>6, <2>1, <2>3 DEF w, i
<1> QED BY <1>7, <1>8

\* A tail is as long as asked for or as there is, the end of what is kept, and
\* numbered by the chunks it has a part of.
LEMMA TailIs ==
  ASSUME NEW b, NEW h, BufferKept(b, h), NEW max \in Nat, ~TailPanics(b, max)
  PROVE  LET t == BufferTail(b, max) IN
         /\ ByteLen(t.data) = IF max <= b.size THEN max ELSE b.size
         /\ \E p \in Seq(Chars) : Flat(h, Dropped(b) + 1) = p \o t.data
         /\ t.data \in Seq(Chars)
         /\ b.size > 0 /\ max > 0 =>
              /\ BytesFrom(h, t.seq_start + 1) >= ByteLen(t.data)
              /\ BytesFrom(h, t.seq_start + 2) < ByteLen(t.data)
              /\ LatestSequence(b) = {t.seq_end}
<1> DEFINE n == Len(b.chunks)
           f == Dropped(b)
           t == BufferTail(b, max)
           w(j) == BytesFrom(h, f + j)
<1>1. /\ n \in Nat /\ f \in Nat /\ f + n = Len(h) /\ h \in Seq(Strings)
      /\ b.size = w(1) /\ b.chunks \in Seq(Chunks)
  BY DEF BufferKept, Dropped, BytesFrom
<1>2. \A j \in 1 .. n + 1 : /\ f + j \in 1 .. Len(h) + 1 /\ w(j) \in Nat
                            /\ Flat(h, f + j) \in Seq(Chars)
  <2> TAKE j \in 1 .. n + 1
  <2>1. f + j \in 1 .. Len(h) + 1
    BY <1>1
  <2> QED BY <1>1, <2>1, BytesFromIs
<1>3. 1 \in 1 .. n + 1 /\ w(1) \in Nat /\ Flat(h, f + 1) \in Seq(Chars)
  BY <1>1, <1>2
<1>4. CASE b.chunks = <<>> \/ max = 0
  <2>1. t = NoSlice /\ ByteLen(<<>>) = 0 /\ t.data = <<>>
    BY <1>4, ByteLenSums DEF BufferTail, NoSlice
  <2>2. b.chunks = <<>> => b.size = 0
    <3> SUFFICES ASSUME b.chunks = <<>> PROVE b.size = 0
      OBVIOUS
    <3>1. n = 0
      OBVIOUS
    <3>2. f + 1 = Len(h) + 1
      BY <1>1, <3>1
    <3> QED BY <1>1, <3>2, BytesFromIs
  <2>3. Flat(h, f + 1) = Flat(h, f + 1) \o <<>> /\ <<>> \in Seq(Chars)
    BY <1>3
  <2>4. IF max <= b.size THEN max = 0 ELSE b.size = 0
    BY <1>1, <1>3, <1>4, <2>2
  <2> HIDE DEF t, w, n, f
  <2> QED BY <1>3, <1>4, <2>1, <2>2, <2>3, <2>4 DEF t, f
<1>5. CASE b.chunks # <<>> /\ max # 0
  <2> DEFINE i == TailFrom(b, max)
             s == Flat(h, f + i)
  <2>1. /\ i \in 1 .. n
        /\ \/ w(i) >= max /\ (i < n => BytesFrom(h, f + i + 1) < max)
           \/ i = 1 /\ w(1) < max
    BY <1>5, TailStarts
  <2>2. /\ SliceAt(b, i).data = s /\ SliceAt(b, i).seq_start = f + i - 1
        /\ SliceAt(b, i).seq_end = Last(b.chunks).seq
    BY <2>1, SliceIs
  <2>3. /\ t.data = IF ByteLen(s) > max THEN LastBytes(s, max) ELSE s
        /\ t.seq_start = f + i - 1 /\ t.seq_end = Last(b.chunks).seq
    <3>1. t = [SliceAt(b, i) EXCEPT !.data = IF ByteLen(@) > max THEN LastBytes(@, max) ELSE @]
      BY <1>5 DEF BufferTail
    <3>2. SliceAt(b, i) \in [seq_start : {f + i - 1}, seq_end : {Last(b.chunks).seq}, data : {s}]
      <4>1. SliceAt(b, i) = [seq_start |-> SliceAt(b, i).seq_start, seq_end |-> SliceAt(b, i).seq_end,
                             data |-> SliceAt(b, i).data]
        BY DEF SliceAt
      <4> HIDE DEF i, s, f
      <4> QED BY <2>2, <4>1
    <3> HIDE DEF i, s, f, t
    <3> QED BY <2>2, <3>1, <3>2
  <2>4. ByteLen(s) > max => CutsClean(s, max)
    BY <1>5, <2>2 DEF TailPanics
  <2>5. s \in Seq(Chars) /\ ByteLen(s) = w(i) /\ w(i) \in Nat
    <3>1. i \in 1 .. n + 1
      BY <1>1, <2>1
    <3> QED BY <1>2, <3>1 DEF BytesFrom
  <2>6. w(i) <= w(1) /\ \E p \in Seq(Chars) : Flat(h, f + 1) = p \o s
    <3>1. f + 1 \in 1 .. Len(h) + 1 /\ f + i \in f + 1 .. Len(h) + 1
      BY <1>1, <2>1
    <3> QED BY <1>1, <3>1, BytesFromFalls
  <2> HIDE DEF s
  <2>7. /\ t.data \in Seq(Chars) /\ ByteLen(t.data) = IF w(i) > max THEN max ELSE w(i)
        /\ \E p \in Seq(Chars) : s = p \o t.data
    <3>1. CASE ByteLen(s) > max
      <4>1. t.data = LastBytes(s, max) /\ CutsClean(s, max)
        BY <2>3, <2>4, <3>1
      <4> HIDE DEF t, w
      <4> QED BY <2>5, <3>1, <4>1, LastBytesIs
    <3>2. CASE ~(ByteLen(s) > max)
      <4>1. t.data = s /\ s = <<>> \o s /\ <<>> \in Seq(Chars)
        BY <2>3, <2>5, <3>2
      <4> HIDE DEF t, w
      <4> QED BY <2>5, <3>2, <4>1
    <3> QED BY <3>1, <3>2
  <2> HIDE DEF t
  <2>8. \E p \in Seq(Chars) : Flat(h, f + 1) = p \o t.data
    <3>1. PICK p \in Seq(Chars) : Flat(h, f + 1) = p \o s
      BY <2>6
    <3>2. PICK q \in Seq(Chars) : s = q \o t.data
      BY <2>7
    <3>3. p \o (q \o t.data) = (p \o q) \o t.data /\ p \o q \in Seq(Chars)
      <4> DEFINE r == t.data
      <4>1. r \in Seq(Chars)
        BY <2>7
      <4> HIDE DEF r
      <4>2. p \o (q \o r) = (p \o q) \o r /\ p \o q \in Seq(Chars)
        BY ONLY <4>1, p \in Seq(Chars), q \in Seq(Chars), ConcatAssociative, ConcatProperties
      <4> QED BY <4>2 DEF r
    <3> QED BY <3>1, <3>2, <3>3
  <2>9. w(i + 1) \in Nat /\ (i = n => w(i + 1) = 0) /\ w(i + 1) < w(i) /\ f + (i + 1) = f + i + 1
    <3>1. i + 1 \in 1 .. n + 1 /\ f + i \in 1 .. Len(h) /\ (f + i) + 1 = f + (i + 1)
          /\ f + (i + 1) = f + i + 1
      BY SMTT(30), <1>1, <2>1
    <3>2. w(i + 1) \in Nat
      BY <1>2, <3>1
    <3> DEFINE k == f + i
    <3> HIDE DEF k, i
    <3>3. BytesFrom(h, k) = ByteLen(h[k]) + BytesFrom(h, k + 1) /\ ByteLen(h[k]) \in 1 .. Capacity
      <4>1. k \in 1 .. Len(h)
        BY <3>1 DEF k
      <4> QED BY <1>1, <4>1, BytesFromIs
    <3>4. w(i) = ByteLen(h[k]) + w(i + 1)
      BY <3>1, <3>3 DEF k
    <3>5. i = n => w(i + 1) = 0
      <4>1. i = n => f + (i + 1) = Len(h) + 1
        BY <1>1, <3>1
      <4> QED BY <1>1, <4>1, BytesFromIs
    <3> HIDE DEF w
    <3> QED BY <3>1, <3>2, <3>3, <3>4, <3>5, OutputBufferAssumption
  <2> HIDE DEF w, i
  <2>10. /\ ByteLen(t.data) = IF max <= b.size THEN max ELSE b.size
         /\ w(i) >= ByteLen(t.data) /\ w(i + 1) < ByteLen(t.data)
    <3>1. w(i + 1) < max \/ (i = 1 /\ w(1) < max)
      <4>1. BytesFrom(h, f + i + 1) = w(i + 1)
        BY <2>9 DEF w
      <4>2. CASE i < n
        BY <2>1, <4>1, <4>2 DEF w
      <4>3. CASE i = n
        <5>1. w(i + 1) = 0 /\ 0 < max
          BY <1>5, <2>9, <4>3
        <5> QED BY <5>1
      <4> QED BY <1>1, <2>1, <4>2, <4>3
    <3> QED BY <1>1, <1>3, <2>1, <2>5, <2>6, <2>7, <2>9, <3>1
  <2>11. LatestSequence(b) = {t.seq_end}
    BY <1>5, <2>3 DEF LatestSequence
  <2>12. (f + i - 1) + 1 = f + i /\ (f + i - 1) + 2 = f + (i + 1)
    BY <1>1, <2>1
  <2>13. BytesFrom(h, t.seq_start + 1) = w(i) /\ BytesFrom(h, t.seq_start + 2) = w(i + 1)
    BY <2>3, <2>12 DEF w
  <2> QED BY <2>7, <2>8, <2>10, <2>11, <2>13 DEF t, f
<1> QED BY <1>4, <1>5

\* A slice from a number on is everything from that chunk on that is kept.
LEMMA SliceFromIs ==
  ASSUME NEW b, NEW h, BufferKept(b, h), NEW first \in 0 .. b.next
  PROVE  SliceFromSequence(b, first).data
           = Flat(h, (IF first >= Dropped(b) THEN first ELSE Dropped(b)) + 1)
<1> DEFINE n == Len(b.chunks)
           f == Dropped(b)
           from == {i \in DOMAIN b.chunks : b.chunks[i].seq >= first}
<1>1. /\ n \in Nat /\ f \in Nat /\ f + n = Len(h) /\ h \in Seq(Strings)
      /\ DOMAIN b.chunks = 1 .. n /\ b.next = Len(h) /\ first \in Nat /\ first <= Len(h)
  BY DEF BufferKept, Dropped
<1>2. \A i \in 1 .. n : b.chunks[i].seq = f + i - 1
  <2> TAKE i \in 1 .. n
  <2>1. b.chunks[i] = [seq |-> f + i - 1, data |-> h[f + i]]
    BY DEF BufferKept
  <2> QED BY <2>1
<1>3. SliceFromSequence(b, first) = IF from = {} THEN NoSlice ELSE SliceAt(b, Min(from))
  BY DEF SliceFromSequence
<1>4. from = {i \in 1 .. n : f + i - 1 >= first}
  BY <1>1, <1>2
<1> HIDE DEF from, f, n
<1>5. CASE from = {}
  <2>2. (IF first >= f THEN first ELSE f) + 1 = Len(h) + 1
    <3>1. CASE n = 0
      BY <1>1, <3>1
    <3>2. CASE n # 0
      <4>1. n \in 1 .. n /\ n \notin from
        BY <1>1, <1>5, <3>2
      <4>2. ~(f + n - 1 >= first)
        BY <1>4, <4>1
      <4> QED BY <1>1, <4>2
    <3> QED BY <3>1, <3>2
  <2>3. h \in Seq(Seq(Chars))
    BY <1>1, StringsAre
  <2>4. Flat(h, Len(h) + 1) = <<>>
    BY <2>3, FlatEnds
  <2> QED BY <1>3, <1>5, <2>2, <2>4 DEF NoSlice, f
<1>6. CASE from # {}
  <2> DEFINE k == Min(from)
  <2>1. k \in from /\ \A y \in from : k <= y
    <3>1. from \in SUBSET Nat
      BY <1>1, <1>4
    <3> QED BY <1>6, <3>1, LeastIs
  <2> HIDE DEF k
  <2>2. k \in 1 .. n /\ f + k - 1 >= first
    BY <1>4, <2>1
  <2>3. k > 1 => ~(f + (k - 1) - 1 >= first)
    <3> SUFFICES ASSUME k > 1 PROVE ~(f + (k - 1) - 1 >= first)
      OBVIOUS
    <3>1. k - 1 \in 1 .. n /\ ~(k <= k - 1)
      BY <1>1, <2>2
    <3>2. k - 1 \notin from
      BY <2>1, <3>1
    <3> QED BY <1>4, <3>1, <3>2
  <2>4. f + k = (IF first >= f THEN first ELSE f) + 1
    BY <1>1, <2>2, <2>3
  <2>5. SliceAt(b, k).data = Flat(h, f + k)
    BY <2>2, SliceIs DEF f, n
  <2> QED BY <1>3, <1>6, <2>4, <2>5 DEF f, k
<1> QED BY <1>5, <1>6

\* Every query of the buffer.
LEMMA QueriesAre == ASSUME OutputInv PROVE QueriesExact
<1> DEFINE b == buf
           h == History
<1>1. /\ BufferKept(b, h) /\ h \in Seq(Strings) /\ Len(h) = b.next /\ b.next \in Nat
      /\ b.size \in Nat /\ Len(b.chunks) \in Nat /\ Len(b.chunks) <= b.next
  BY DEF OutputInv, BufferKept
<1>2. /\ Dropped(b) = FirstKept /\ \A i : Flat(h, i) = From(i)
      /\ FirstKept \in Nat /\ \A i : BytesFrom(h, i) = ByteLen(From(i))
  <2>1. Dropped(b) = FirstKept /\ \A i : Flat(h, i) = From(i)
    BY <1>1 DEF Dropped, FirstKept, Flat, From
  <2>2. FirstKept \in Nat
    BY <1>1 DEF FirstKept
  <2> QED BY <2>1, <2>2 DEF BytesFrom
<1> HIDE DEF b, h
<1>3. ASSUME NEW max \in 1 .. Capacity + 1, ~TailPanics(b, max)
      PROVE  LET t == BufferTail(b, max) IN
             /\ ByteLen(t.data) = Min2(max, b.size)
             /\ IsSuffix(t.data, From(FirstKept + 1))
             /\ b.size > 0 => /\ ByteLen(From(t.seq_start + 1)) >= ByteLen(t.data)
                              /\ ByteLen(From(t.seq_start + 2)) < ByteLen(t.data)
                              /\ LatestSequence(b) = {t.seq_end}
  <2> DEFINE t == BufferTail(b, max)
  <2>1. max \in Nat /\ max > 0
    BY OutputBufferAssumption
  <2>2. /\ ByteLen(t.data) = IF max <= b.size THEN max ELSE b.size
        /\ \E p \in Seq(Chars) : Flat(h, Dropped(b) + 1) = p \o t.data
        /\ t.data \in Seq(Chars)
        /\ b.size > 0 /\ max > 0 =>
             /\ BytesFrom(h, t.seq_start + 1) >= ByteLen(t.data)
             /\ BytesFrom(h, t.seq_start + 2) < ByteLen(t.data)
             /\ LatestSequence(b) = {t.seq_end}
    BY <1>1, <1>3, <2>1, TailIs
  <2> HIDE DEF t
  <2>3. Min2(max, b.size) = IF max <= b.size THEN max ELSE b.size
    BY <1>1, <2>1, SmallerIs DEF Min2
  <2>4. IsSuffix(t.data, From(FirstKept + 1))
    <3>1. PICK p \in Seq(Chars) : Flat(h, Dropped(b) + 1) = p \o t.data
      BY <2>2
    <3>2. IsSuffix(t.data, p \o t.data)
      BY <2>2, SplitIsSuffix
    <3> QED BY <1>2, <3>1, <3>2
  <2>5. b.size > 0 => /\ ByteLen(From(t.seq_start + 1)) >= ByteLen(t.data)
                      /\ ByteLen(From(t.seq_start + 2)) < ByteLen(t.data)
                      /\ LatestSequence(b) = {t.seq_end}
    BY <1>2, <2>1, <2>2
  <2> QED BY <2>2, <2>3, <2>4, <2>5 DEF t
<1>4. ASSUME NEW first \in 0 .. b.next
      PROVE  SliceFromSequence(b, first).data = From(Max2(first, FirstKept) + 1)
  <2>1. Max2(first, FirstKept) = IF first >= FirstKept THEN first ELSE FirstKept
    BY <1>1, <1>2, LargerIs DEF Max2
  <2>2. SliceFromSequence(b, first).data
          = Flat(h, (IF first >= Dropped(b) THEN first ELSE Dropped(b)) + 1)
    BY <1>1, SliceFromIs
  <2> QED BY <1>2, <2>1, <2>2
<1> QED BY <1>3, <1>4 DEF QueriesExact, b

-----------------------------------------------------------------------------
(* Decoding read by read, and as a whole.                                  *)

Paired(b, j) == j \in DOMAIN b /\ j + 1 \in DOMAIN b /\ b[j].k = "lead" /\ b[j + 1].k = "cont"
Part(b, i) ==
  CASE b[i].k = "lead" -> <<[b[i] EXCEPT !.k = IF Paired(b, i) THEN "wide" ELSE "bad"]>>
    [] b[i].k = "cont" -> IF Paired(b, i - 1) THEN <<>> ELSE <<[b[i] EXCEPT !.k = "bad"]>>
    [] OTHER -> <<b[i]>>
Parts(b) == [i \in DOMAIN b |-> Part(b, i)]

\* Decoding puts the parts together.
LEMMA LossyIs == ASSUME NEW b PROVE Lossy(b) = FlattenSeq(Parts(b))
BY DEF Lossy, Parts, Part, Paired

\* A part depends on its byte and whether it and the one before are paired.
LEMMA PartSame ==
  ASSUME NEW a, NEW i, NEW b, NEW j, a[i] = b[j],
         Paired(a, i) <=> Paired(b, j), Paired(a, i - 1) <=> Paired(b, j - 1)
  PROVE  Part(a, i) = Part(b, j)
BY DEF Part

\* Every byte becomes a string, of one character or none.
LEMMA PartsType ==
  ASSUME NEW b \in Seq(RawChars)
  PROVE  Parts(b) \in Seq(Seq(Chars)) /\ Len(Parts(b)) = Len(b)
<1>1. ASSUME NEW i \in 1 .. Len(b) PROVE Part(b, i) \in Seq(Chars)
  <2>1. b[i] \in RawChars
    OBVIOUS
  <2>2. b[i].k \in Bytes /\ b[i].n \in Nat
    BY <2>1 DEF RawChars
  <2>3. CASE b[i].k = "lead"
    <3>1. Part(b, i) = <<[b[i] EXCEPT !.k = IF Paired(b, i) THEN "wide" ELSE "bad"]>>
      BY <2>3 DEF Part
    <3>2. [b[i] EXCEPT !.k = IF Paired(b, i) THEN "wide" ELSE "bad"] \in Chars
      BY <2>1 DEF RawChars, Chars, Kinds
    <3> QED BY <3>1, <3>2
  <2>4. CASE b[i].k = "cont"
    <3>1. Part(b, i) = IF Paired(b, i - 1) THEN <<>> ELSE <<[b[i] EXCEPT !.k = "bad"]>>
      BY <2>4 DEF Part
    <3>2. [b[i] EXCEPT !.k = "bad"] \in Chars
      BY <2>1 DEF RawChars, Chars, Kinds
    <3> QED BY <3>1, <3>2
  <2>5. CASE b[i].k \notin {"lead", "cont"}
    <3>1. Part(b, i) = <<b[i]>>
      BY <2>5 DEF Part
    <3>2. b[i] \in Chars
      BY <2>1, <2>2, <2>5 DEF RawChars, Chars, Kinds, Bytes
    <3> QED BY <3>1, <3>2
  <2> QED BY <2>3, <2>4, <2>5
<1> QED BY <1>1 DEF Parts

\* Decoding two strings of bytes is decoding each, unless a character was
\* split between them.
LEMMA LossyConcat ==
  ASSUME NEW a \in Seq(RawChars), NEW b \in Seq(RawChars),
         ~(a # <<>> /\ b # <<>> /\ a[Len(a)].k = "lead" /\ b[1].k = "cont")
  PROVE  Lossy(a \o b) = Lossy(a) \o Lossy(b)
<1> DEFINE c == a \o b
           n == Len(a)
           m == Len(b)
<1>1. /\ c \in Seq(RawChars) /\ Len(c) = n + m /\ n \in Nat /\ m \in Nat
      /\ DOMAIN a = 1 .. n /\ DOMAIN b = 1 .. m
      /\ \A i \in 1 .. n + m : c[i] = IF i <= n THEN a[i] ELSE b[i - n]
  <2>1. /\ c \in Seq(RawChars) /\ Len(c) = n + m
        /\ \A i \in 1 .. n + m : c[i] = IF i <= n THEN a[i] ELSE b[i - n]
    BY ConcatProperties
  <2> QED BY <2>1
<1>2. DOMAIN c = 1 .. n + m
  BY <1>1
<1>3. (a = <<>> <=> n = 0) /\ (b = <<>> <=> m = 0)
  OBVIOUS
<1> HIDE DEF c, n, m
<1>4. ~(n > 0 /\ m > 0 /\ a[n].k = "lead" /\ b[1].k = "cont")
  BY <1>1, <1>3 DEF n
<1>5. ASSUME NEW i \in 1 .. n PROVE c[i] = a[i]
  <2>1. i \in 1 .. n + m /\ i <= n
    BY <1>1
  <2> QED BY <1>1, <2>1
<1>6. ASSUME NEW j \in 1 .. m PROVE c[n + j] = b[j]
  <2> DEFINE i == n + j
  <2>1. i \in 1 .. n + m /\ ~(i <= n) /\ i - n = j
    BY <1>1
  <2> HIDE DEF i
  <2>2. c[i] = b[i - n]
    BY <1>1, <2>1
  <2> QED BY <2>1, <2>2 DEF i
<1>7. ASSUME NEW i \in 0 .. n PROVE Paired(c, i) <=> Paired(a, i)
  <2>1. CASE i = 0
    BY <1>1, <1>2, <2>1 DEF Paired
  <2>2. CASE i \in 1 .. n - 1
    <3>1. i \in 1 .. n /\ i + 1 \in 1 .. n /\ i \in 1 .. n + m /\ i + 1 \in 1 .. n + m
      BY <1>1, <2>2
    <3>2. c[i] = a[i] /\ c[i + 1] = a[i + 1]
      BY <1>5, <3>1
    <3> QED BY <1>1, <1>2, <3>1, <3>2 DEF Paired
  <2>3. CASE i = n /\ n > 0
    <3>1. i + 1 \notin DOMAIN a /\ i \in 1 .. n
      BY <1>1, <2>3
    <3>2. ~Paired(a, i)
      BY <3>1 DEF Paired
    <3>3. ASSUME Paired(c, i) PROVE FALSE
      <4>1. n + 1 \in 1 .. n + m /\ c[n].k = "lead" /\ c[n + 1].k = "cont"
        BY <1>2, <2>3, <3>3 DEF Paired
      <4>2. m > 0 /\ 1 \in 1 .. m
        BY <1>1, <4>1
      <4>3. c[n] = a[n] /\ c[n + 1] = b[1]
        BY <1>5, <1>6, <2>3, <3>1, <4>2
      <4> QED BY <1>4, <2>3, <4>1, <4>2, <4>3
    <3> QED BY <3>2, <3>3
  <2> QED BY <1>1, <2>1, <2>2, <2>3
<1>8. ASSUME NEW j \in 0 .. m PROVE Paired(c, n + j) <=> Paired(b, j)
  <2>1. CASE j = 0
    <3>1. ~Paired(b, 0)
      BY <1>1 DEF Paired
    <3>2. n \in 0 .. n /\ n + 0 = n
      BY <1>1
    <3>3. ~Paired(a, n)
      <4>1. n + 1 \notin 1 .. n
        BY <1>1
      <4> QED BY <1>1, <4>1 DEF Paired
    <3>4. ~Paired(c, n)
      BY <1>7, <3>2, <3>3
    <3> QED BY <2>1, <3>1, <3>2, <3>4
  <2>2. CASE j \in 1 .. m
    <3>1. n + j \in 1 .. n + m /\ (n + j) + 1 = n + (j + 1)
          /\ (n + (j + 1) \in 1 .. n + m <=> j + 1 \in 1 .. m)
      BY <1>1, <2>2
    <3>2. c[n + j] = b[j] /\ (j + 1 \in 1 .. m => c[n + (j + 1)] = b[j + 1])
      BY <1>6, <2>2
    <3> QED BY <1>1, <1>2, <2>2, <3>1, <3>2 DEF Paired
  <2> QED BY <1>1, <2>1, <2>2
<1>9. ASSUME NEW i \in 1 .. n PROVE Part(c, i) = Part(a, i)
  <2>1. i \in 0 .. n /\ i - 1 \in 0 .. n
    BY <1>1
  <2> QED BY <1>5, <1>7, <2>1, PartSame
<1>10. ASSUME NEW j \in 1 .. m PROVE Part(c, n + j) = Part(b, j)
  <2>1. j \in 0 .. m /\ j - 1 \in 0 .. m /\ (n + j) - 1 = n + (j - 1)
    BY <1>1
  <2>2. Paired(c, n + j) <=> Paired(b, j)
    BY <1>8, <2>1
  <2>3. Paired(c, n + (j - 1)) <=> Paired(b, j - 1)
    BY <1>8, <2>1
  <2>4. Paired(c, (n + j) - 1) <=> Paired(b, j - 1)
    BY <2>1, <2>3
  <2> DEFINE i == n + j
  <2>5. c[i] = b[j]
    BY <1>6
  <2> HIDE DEF i
  <2> QED BY <2>2, <2>4, <2>5, PartSame DEF i
<1>11. /\ Parts(a) \in Seq(Seq(Chars)) /\ Parts(b) \in Seq(Seq(Chars))
       /\ Len(Parts(a)) = n /\ Len(Parts(b)) = m /\ Parts(c) \in Seq(Seq(Chars))
       /\ Len(Parts(c)) = n + m
  BY <1>1, PartsType DEF n, m
<1>12. Parts(c) = Parts(a) \o Parts(b)
  <2> DEFINE pa == Parts(a)
             pb == Parts(b)
             pc == Parts(c)
             d == pa \o pb
  <2>1. \A i \in 1 .. n : pa[i] = Part(a, i)
    BY <1>1 DEF Parts
  <2>2. \A j \in 1 .. m : pb[j] = Part(b, j)
    BY <1>1 DEF Parts
  <2>3. \A i \in 1 .. n + m : pc[i] = Part(c, i)
    BY <1>2 DEF Parts
  <2>4. pa \in Seq(Seq(Chars)) /\ pb \in Seq(Seq(Chars)) /\ Len(pa) = n /\ Len(pb) = m
        /\ pc \in Seq(Seq(Chars)) /\ Len(pc) = n + m
    BY <1>11
  <2> HIDE DEF pa, pb, pc
  <2>5. /\ d \in Seq(Seq(Chars)) /\ Len(d) = n + m
        /\ \A i \in 1 .. n + m : d[i] = IF i <= n THEN pa[i] ELSE pb[i - n]
    BY <2>4, ConcatProperties
  <2> HIDE DEF d
  <2>6. \A i \in 1 .. n + m : pc[i] = d[i]
    <3> TAKE i \in 1 .. n + m
    <3>1. CASE i <= n
      <4>1. i \in 1 .. n
        BY <1>1, <3>1
      <4> QED BY <1>9, <2>1, <2>3, <2>5, <3>1, <4>1
    <3>2. CASE ~(i <= n)
      <4> DEFINE j == i - n
      <4>1. j \in 1 .. m /\ i = n + j
        BY <1>1, <3>2
      <4>2. d[i] = pb[j]
        BY <2>5, <3>2
      <4> HIDE DEF j
      <4>3. Part(c, n + j) = Part(b, j) /\ pb[j] = Part(b, j)
        BY <1>10, <2>2, <4>1
      <4> QED BY <2>3, <4>1, <4>2, <4>3
    <3> QED BY <3>1, <3>2
  <2>7. pc = d
    BY <2>4, <2>5, <2>6
  <2> QED BY <2>7 DEF d, pa, pb, pc
<1>13. FlattenSeq(Parts(a) \o Parts(b)) = FlattenSeq(Parts(a)) \o FlattenSeq(Parts(b))
  BY <1>11, FlatConcat
<1> QED BY <1>12, <1>13, LossyIs DEF c

\* A chunk that is kept after another was not cut.
LEMMA LaterWhole ==
  ASSUME NEW reads, NEW h \in Seq(Strings),
         \A i \in 1 .. Len(h) :
           /\ Lossy(reads[i]) \in Seq(Chars) /\ Lossy(reads[i]) # <<>>
           /\ h[i] = Truncated(Lossy(reads[i])) /\ ~TruncationPanics(Lossy(reads[i])),
         NEW f \in 0 .. Len(h), BytesFrom(h, f + 1) <= Capacity,
         NEW i \in f + 2 .. Len(h)
  PROVE  h[i] = Lossy(reads[i])
<1> DEFINE k == f + 1
<1>1. k \in 1 .. Len(h) /\ k + 1 \in 1 .. Len(h) + 1 /\ i \in k + 1 .. Len(h) + 1 /\ i \in 1 .. Len(h)
      /\ Len(h) \in Nat
  OBVIOUS
<1> HIDE DEF k
<1>2. /\ BytesFrom(h, k) = ByteLen(h[k]) + BytesFrom(h, k + 1) /\ ByteLen(h[k]) \in 1 .. Capacity
      /\ BytesFrom(h, i) = ByteLen(h[i]) + BytesFrom(h, i + 1) /\ ByteLen(h[i]) \in 1 .. Capacity
  BY <1>1, BytesFromIs
<1>3. BytesFrom(h, k + 1) \in Nat /\ BytesFrom(h, i + 1) \in Nat
  <2>1. i + 1 \in 1 .. Len(h) + 1
    BY <1>1
  <2> QED BY <1>1, <2>1, BytesFromIs
<1>4. BytesFrom(h, i) <= BytesFrom(h, k + 1)
  <2> DEFINE m == k + 1
  <2>1. m \in 1 .. Len(h) + 1 /\ i \in m .. Len(h) + 1
    BY <1>1
  <2> HIDE DEF m
  <2>2. BytesFrom(h, i) <= BytesFrom(h, m)
    BY ONLY <2>1, h \in Seq(Strings), BytesFromFalls
  <2> QED BY <2>2 DEF m
<1>5. BytesFrom(h, k) <= Capacity
  BY DEF k
<1>6. ByteLen(h[i]) # Capacity
  BY <1>2, <1>3, <1>4, <1>5, OutputBufferAssumption
<1>7. /\ Lossy(reads[i]) \in Seq(Chars) /\ Lossy(reads[i]) # <<>>
      /\ h[i] = Truncated(Lossy(reads[i])) /\ ~TruncationPanics(Lossy(reads[i]))
  BY <1>1
<1> QED BY <1>6, <1>7, TruncatedIs

\* No read ends inside a character that the next one goes on with.
Whole(reads) ==
  \A i \in 1 .. Len(reads) - 1 : Last(reads[i]).k = "lead" => Head(reads[i + 1]).k # "cont"

\* All reads from one on, decoded, are the first decoded and then the others.
LEMMA LossyFirst ==
  ASSUME NEW reads \in Seq(NonEmptyReads), Whole(reads), NEW i \in 1 .. Len(reads)
  PROVE  /\ reads[i] \in Seq(RawChars) /\ Flat(reads, i + 1) \in Seq(RawChars)
         /\ Lossy(Flat(reads, i)) = Lossy(reads[i]) \o Lossy(Flat(reads, i + 1))
<1> DEFINE a == reads[i]
           b == Flat(reads, i + 1)
<1>1. reads \in Seq(Seq(RawChars)) /\ \A j \in 1 .. Len(reads) : reads[j] # <<>>
  BY DEF NonEmptyReads
<1>2. a \in Seq(RawChars) /\ b \in Seq(RawChars) /\ Flat(reads, i) = a \o b
  BY <1>1, FlatFirst
<1>3. ASSUME b # <<>> PROVE i < Len(reads) /\ b[1] = reads[i + 1][1]
  <2>1. i < Len(reads)
    <3> SUFFICES ASSUME ~(i < Len(reads)) PROVE FALSE
      OBVIOUS
    <3>1. i + 1 = Len(reads) + 1
      OBVIOUS
    <3>2. Flat(reads, Len(reads) + 1) = <<>>
      BY <1>1, FlatEnds
    <3> QED BY <1>3, <3>1, <3>2
  <2> DEFINE k == i + 1
  <2>2. k \in 1 .. Len(reads)
    BY <2>1
  <2> HIDE DEF k, b
  <2>3. /\ reads[k] \in Seq(RawChars) /\ Flat(reads, k + 1) \in Seq(RawChars)
        /\ Flat(reads, k) = reads[k] \o Flat(reads, k + 1) /\ reads[k] # <<>>
    BY <1>1, <2>2, FlatFirst
  <2>4. b = Flat(reads, k)
    BY DEF b, k
  <2> DEFINE x == reads[k]
             y == Flat(reads, k + 1)
  <2>5. x \in Seq(RawChars) /\ y \in Seq(RawChars) /\ x # <<>>
    BY <2>3
  <2> HIDE DEF x, y
  <2>6. (x \o y)[1] = x[1]
    BY <2>5
  <2> QED BY <2>1, <2>3, <2>4, <2>6 DEF x, y, k
<1>4. a # <<>>
  BY <1>1
<1>5. ~(b # <<>> /\ a[Len(a)].k = "lead" /\ b[1].k = "cont")
  <2> SUFFICES ASSUME b # <<>>, a[Len(a)].k = "lead", b[1].k = "cont" PROVE FALSE
    OBVIOUS
  <2>1. i \in 1 .. Len(reads) - 1 /\ b[1] = reads[i + 1][1]
    BY <1>3
  <2>2. Last(reads[i]).k = "lead" /\ Head(reads[i + 1]).k = "cont"
    <3>1. Last(reads[i]) = a[Len(a)]
      BY DEF Last
    <3>2. Head(reads[i + 1]) = reads[i + 1][1]
      <4> DEFINE x == reads[i + 1]
      <4>1. x \in Seq(RawChars) /\ x # <<>>
        BY <1>1, <2>1
      <4> HIDE DEF x
      <4>2. Head(x) = x[1]
        BY <4>1
      <4> QED BY <4>2 DEF x
    <3> HIDE DEF a, b
    <3> QED BY <2>1, <3>1, <3>2
  <2> HIDE DEF a, b
  <2> QED BY <2>1, <2>2 DEF Whole
<1> HIDE DEF a, b
<1>6. Lossy(a \o b) = Lossy(a) \o Lossy(b)
  BY <1>2, <1>5, LossyConcat
<1> QED BY <1>2, <1>6 DEF a, b

\* What is kept of the reads is the end of what they are together.
LEMMA KeptIsEnd ==
  ASSUME NEW reads \in Seq(NonEmptyReads), Whole(reads), NEW h \in Seq(Strings),
         Len(h) = Len(reads),
         \A i \in 1 .. Len(h) :
           /\ Lossy(reads[i]) \in Seq(Chars) /\ Lossy(reads[i]) # <<>>
           /\ h[i] = Truncated(Lossy(reads[i])) /\ ~TruncationPanics(Lossy(reads[i])),
         NEW f \in 0 .. Len(h), BytesFrom(h, f + 1) <= Capacity
  PROVE  \E p \in Seq(Chars) : Lossy(Flat(reads, 1)) = p \o Flat(h, f + 1)
<1> DEFINE n == Len(h)
           all(i) == Lossy(Flat(reads, i))
           kept == Flat(h, f + 1)
           Ends(i) == IF i >= f + 2 THEN all(i) = Flat(h, i)
                                    ELSE \E p \in Seq(Chars) : all(i) = p \o kept
           K == {m \in Nat : m <= n => Ends(n + 1 - m)}
<1>1. n \in Nat /\ f \in Nat /\ f <= n /\ n = Len(reads) /\ h \in Seq(Seq(Chars))
  BY StringsAre
<1>2. \A i \in 1 .. n + 1 : Flat(h, i) \in Seq(Chars)
  BY BytesFromIs
<1>3. kept \in Seq(Chars)
  <2>1. f + 1 \in 1 .. n + 1
    BY <1>1
  <2> QED BY <1>2, <2>1
<1>4. all(n + 1) = <<>> /\ Flat(h, n + 1) = <<>>
  <2>1. reads \in Seq(Seq(RawChars))
    BY DEF NonEmptyReads
  <2>2. Flat(reads, Len(reads) + 1) = <<>> /\ Flat(h, n + 1) = <<>>
    BY <1>1, <2>1, FlatEnds
  <2>3. Lossy(<<>>) = <<>>
    <3>1. Parts(<<>>) = <<>>
      BY DEF Parts
    <3> QED BY <3>1, LossyIs, FlatNone
  <2> QED BY <1>1, <2>2, <2>3
<1> HIDE DEF n, all, kept
<1>5. 0 \in K
  <2>1. Ends(n + 1)
    <3>1. CASE n + 1 >= f + 2
      BY <1>4, <3>1
    <3>2. CASE ~(n + 1 >= f + 2)
      <4>1. f = n
        BY <1>1, <3>2
      <4>2. kept = <<>>
        BY <1>4, <4>1 DEF kept
      <4>3. <<>> \in Seq(Chars) /\ <<>> \o <<>> = <<>>
        OBVIOUS
      <4> QED BY <1>4, <3>2, <4>2, <4>3
    <3> QED BY <3>1, <3>2
  <2>2. n + 1 - 0 = n + 1
    BY <1>1
  <2> HIDE DEF Ends
  <2> QED BY <2>1, <2>2
<1>6. ASSUME NEW m \in Nat, m \in K PROVE m + 1 \in K
  <2> SUFFICES ASSUME m + 1 <= n PROVE Ends(n + 1 - (m + 1))
    OBVIOUS
  <2> DEFINE i == n - m
             j == i + 1
             t == Lossy(reads[i])
             r == all(j)
  <2>1. i \in 1 .. n /\ j \in 1 .. n + 1 /\ n + 1 - (m + 1) = i /\ n + 1 - m = j /\ m <= n
    BY <1>1
  <2> HIDE DEF i
  <2>2. Ends(j)
    <3> HIDE DEF Ends, j
    <3> QED BY <1>6, <2>1
  <2>3. all(i) = t \o r
    BY <1>1, <2>1, LossyFirst DEF all
  <2>4. t \in Seq(Chars) /\ h[i] = Truncated(t) /\ h[i] \in Seq(Chars)
        /\ \E p \in Seq(Chars) : t = p \o h[i]
    <3>1. t \in Seq(Chars) /\ t # <<>> /\ h[i] = Truncated(t) /\ ~TruncationPanics(t)
      BY <1>1, <2>1 DEF n
    <3> HIDE DEF t
    <3>2. Truncated(t) \in Strings /\ \E p \in Seq(Chars) : t = p \o Truncated(t)
      BY <3>1, TruncatedIs
    <3> QED BY <3>1, <3>2, StringsAre
  <2>5. Flat(h, i) = h[i] \o Flat(h, j) /\ Flat(h, j) \in Seq(Chars)
    BY <1>1, <2>1, FlatFirst DEF n
  <2>6. i >= f + 2 => h[i] = t
    <3> SUFFICES ASSUME i >= f + 2 PROVE h[i] = t
      OBVIOUS
    <3>1. i \in f + 2 .. Len(h)
      BY <1>1, <2>1 DEF n
    <3> QED BY <3>1, LaterWhole
  <2> HIDE DEF t, r
  <2>7. CASE i >= f + 2
    <3>1. j >= f + 2
      BY <1>1, <2>1, <2>7
    <3>2. r = Flat(h, j)
      BY <2>2, <3>1 DEF r
    <3>3. all(i) = Flat(h, i)
      BY <2>3, <2>5, <2>6, <2>7, <3>2
    <3> QED BY <2>1, <2>7, <3>3
  <2>8. CASE i = f + 1
    <3>1. j >= f + 2 /\ ~(i >= f + 2)
      BY <1>1, <2>1, <2>8
    <3>2. r = Flat(h, j)
      BY <2>2, <3>1 DEF r
    <3>3. PICK p \in Seq(Chars) : t = p \o h[i]
      BY <2>4
    <3> DEFINE x == h[i]
               y == Flat(h, j)
    <3>4. x \in Seq(Chars) /\ y \in Seq(Chars)
      BY <2>4, <2>5
    <3> HIDE DEF x, y
    <3>5. (p \o x) \o y = p \o (x \o y)
      BY ONLY SMTT(30), <3>4, p \in Seq(Chars), ConcatAssociative
    <3>6. kept = x \o y
      BY <2>5, <2>8 DEF kept, x, y
    <3>7. all(i) = p \o kept
      BY <2>3, <3>2, <3>3, <3>5, <3>6 DEF x, y
    <3> HIDE DEF j
    <3> QED BY <2>1, <3>1, <3>7
  <2>9. CASE i < f + 1
    <3>1. ~(j >= f + 2) /\ ~(i >= f + 2)
      BY <1>1, <2>1, <2>9
    <3>2. PICK p \in Seq(Chars) : r = p \o kept
      BY <2>2, <3>1 DEF r
    <3>3. t \o (p \o kept) = (t \o p) \o kept /\ t \o p \in Seq(Chars)
      <4>1. t \in Seq(Chars)
        BY <2>4
      <4> QED BY ONLY SMTT(30), <1>3, <4>1, p \in Seq(Chars), ConcatAssociative, ConcatProperties
    <3>4. all(i) = (t \o p) \o kept
      BY <2>3, <3>2, <3>3
    <3> HIDE DEF j
    <3> QED BY <2>1, <3>1, <3>3, <3>4
  <2> HIDE DEF Ends, j
  <2> QED BY <1>1, <2>1, <2>7, <2>8, <2>9
<1>7. \A m \in Nat : m \in K
  <2> HIDE DEF K
  <2> QED BY <1>5, <1>6, Datas!Induction
<1>8. Ends(n + 1 - n)
  <2> HIDE DEF Ends
  <2>1. n \in K /\ n <= n
    BY <1>1, <1>7
  <2> QED BY <2>1
<1>9. n + 1 - n = 1 /\ ~(1 >= f + 2)
  BY <1>1
<1> QED BY <1>8, <1>9 DEF all, kept

-----------------------------------------------------------------------------
(* The record.                                                             *)

\* Everything the buffer accepted could be cut.
CutsKept == \A i \in 1 .. buf.next : ~TruncationPanics(Lossy(past.reads[i]))

\* Every step keeps it so.
LEMMA CutsStep == OutputInv /\ CutsKept /\ [Next]_vars => CutsKept'
<1> SUFFICES ASSUME OutputInv, CutsKept, [Next]_vars PROVE CutsKept'
  OBVIOUS
<1>1. /\ DOMAIN past = PastFields /\ past.reads \in Seq(NonEmptyReads) /\ buf.next \in Nat
      /\ buf.next <= Len(past.reads) /\ (ok => buf.next = Len(past.reads))
  BY DEF OutputInv, ReadsKept, BufferKept
<1>2. ASSUME NEW b \in Reads, PollRead(b) PROVE CutsKept'
  <2> DEFINE raw == Numbered(b)
             n == Len(past.reads)
  <2>1. raw \in NonEmptyReads
    BY <1>1, NumberedIs
  <2>2. past'.reads = Append(past.reads, raw) /\ ok
    BY <1>1, <1>2 DEF PollRead, PastFields
  <2>3. /\ TruncationPanics(Lossy(raw)) => buf' = buf
        /\ ~TruncationPanics(Lossy(raw)) => buf' = Appended(buf, Lossy(raw))
    BY <1>2 DEF PollRead
  <2> HIDE DEF raw
  <2>4. /\ n \in Nat /\ past'.reads[n + 1] = raw
        /\ \A i \in 1 .. n : past'.reads[i] = past.reads[i]
    BY <1>1, <2>1, <2>2
  <2> HIDE DEF n
  <2>5. buf.next = n
    BY <1>1, <2>2 DEF n
  <2>6. CASE TruncationPanics(Lossy(raw))
    <3>1. buf' = buf
      BY <2>3, <2>6
    <3> QED BY <2>4, <2>5, <3>1 DEF CutsKept
  <2>7. CASE ~TruncationPanics(Lossy(raw))
    <3>1. buf'.next = n + 1
      <4>1. raw \in Seq(RawChars) /\ raw # <<>>
        BY <2>1 DEF NonEmptyReads
      <4>2. Lossy(raw) \in Seq(Chars) /\ Lossy(raw) # <<>>
        BY <4>1, LossyKeeps
      <4>3. BufferKept(buf, History)
        BY DEF OutputInv
      <4>4. BufferKept(buf', Append(History, Truncated(Lossy(raw))))
        BY <2>3, <2>7, <4>2, <4>3, AppendKeeps
      <4> DEFINE d == Truncated(Lossy(raw))
      <4>5. d \in Strings
        BY <2>7, <4>2, TruncatedIs
      <4> HIDE DEF d
      <4>6. History \in Seq(Strings) /\ Len(History) = n /\ buf'.next = Len(Append(History, d))
        BY <2>5, <4>3, <4>4 DEF BufferKept, d
      <4> QED BY <4>5, <4>6
    <3>2. \A i \in 1 .. n + 1 : ~TruncationPanics(Lossy(past'.reads[i]))
      <4> TAKE i \in 1 .. n + 1
      <4>1. CASE i = n + 1
        BY <2>4, <2>7, <4>1
      <4>2. CASE i # n + 1
        <5>1. i \in 1 .. n
          BY <2>4, <4>2
        <5> QED BY <2>4, <2>5, <5>1 DEF CutsKept
      <4> QED BY <4>1, <4>2
    <3> QED BY <3>1, <3>2 DEF CutsKept
  <2> QED BY <2>6, <2>7
<1>3. ASSUME NEW size \in Sizes, ResizeTerminal(size) PROVE CutsKept'
  BY <1>1, <1>3 DEF ResizeTerminal, CutsKept, PastFields
<1>4. ASSUME NEW v \in Viewers,
             RemoveViewport(v) \/ \E size \in ViewSizes : UpdateViewport(v, size)
      PROVE  CutsKept'
  BY <1>4 DEF RemoveViewport, UpdateViewport, CutsKept
<1>5. ASSUME NEW text \in BoundedSeq(Lines, 2), NEW stream \in {"stdout", "stderr"},
             AppendLog(text, stream)
      PROVE  CutsKept'
  BY <1>1, <1>5 DEF AppendLog, CutsKept, PastFields, runtimeVars
<1>6. ASSUME NEW s \in Watched, Observe(s) PROVE CutsKept'
  BY <1>1, <1>6 DEF Observe, CutsKept, PastFields, runtimeVars
<1>7. CASE UNCHANGED vars
  BY <1>7 DEF vars, CutsKept
<1> QED BY <1>2, <1>3, <1>4, <1>5, <1>6, <1>7 DEF Next

\* The record is the end of what the reads are together.
LEMMA RecordIs == ASSUME OutputInv, CutsKept PROVE RecordFollows
<1> SUFFICES ASSUME ok, past.reads # <<>> PROVE
      /\ Snapshot.current_sequence = Len(past.reads) - 1
      /\ ByteLen(Snapshot.recent_terminal_tail) = Min2(TailBytes, buf.size)
      /\ Unsplit => IsSuffix(Snapshot.recent_terminal_tail, Lossy(FlattenSeq(past.reads)))
  BY DEF RecordFollows
<1> DEFINE reads == past.reads
           h == History
           t == BufferTail(buf, TailBytes).data
<1>1. /\ reads \in Seq(NonEmptyReads) /\ buf.next = Len(reads) /\ BufferKept(buf, h)
      /\ ~TailPanics(buf, TailBytes)
      /\ record = [sequence |-> buf.next - 1, tail |-> t]
  BY DEF OutputInv, ReadsKept, RecordKept
<1>2. Snapshot.current_sequence = Len(reads) - 1 /\ Snapshot.recent_terminal_tail = t
  BY <1>1 DEF Snapshot
<1>3. TailBytes \in Nat /\ buf.size \in Nat
  BY <1>1, SizesAre DEF BufferKept
<1>4. /\ ByteLen(t) = IF TailBytes <= buf.size THEN TailBytes ELSE buf.size
      /\ t \in Seq(Chars) /\ \E p \in Seq(Chars) : Flat(h, Dropped(buf) + 1) = p \o t
  BY <1>1, <1>3, TailIs
<1> HIDE DEF t
<1>5. ByteLen(t) = Min2(TailBytes, buf.size)
  <2>1. Min2(TailBytes, buf.size) = IF TailBytes <= buf.size THEN TailBytes ELSE buf.size
    BY <1>3, SmallerIs DEF Min2
  <2> QED BY <1>4, <2>1
<1>6. ASSUME Unsplit PROVE IsSuffix(t, Lossy(FlattenSeq(reads)))
  <2>1. Whole(reads)
    BY <1>6 DEF Unsplit, Whole
  <2>2. /\ h \in Seq(Strings) /\ Len(h) = Len(reads)
        /\ \A i \in 1 .. Len(h) :
             /\ Lossy(reads[i]) \in Seq(Chars) /\ Lossy(reads[i]) # <<>>
             /\ h[i] = Truncated(Lossy(reads[i])) /\ ~TruncationPanics(Lossy(reads[i]))
    <3>1. h \in Seq(Strings) /\ Len(h) = Len(reads)
      BY <1>1 DEF BufferKept
    <3>2. \A i \in 1 .. Len(reads) : reads[i] \in Seq(RawChars) /\ reads[i] # <<>>
      BY <1>1 DEF NonEmptyReads
    <3>3. \A i \in 1 .. Len(reads) :
            h[i] = Truncated(Lossy(reads[i])) /\ ~TruncationPanics(Lossy(reads[i]))
      BY <1>1 DEF History, CutsKept
    <3> HIDE DEF h, reads
    <3> QED BY <3>1, <3>2, <3>3, LossyKeeps
  <2> DEFINE f == Dropped(buf)
  <2>3. f \in 0 .. Len(h) /\ BytesFrom(h, f + 1) <= Capacity
    BY <1>1 DEF BufferKept, Dropped, BytesFrom
  <2> HIDE DEF f, h, reads
  <2>4. PICK p \in Seq(Chars) : Lossy(Flat(reads, 1)) = p \o Flat(h, f + 1)
    BY <1>1, <2>1, <2>2, <2>3, KeptIsEnd
  <2>5. PICK q \in Seq(Chars) : Flat(h, f + 1) = q \o t
    BY <1>4 DEF f
  <2>6. p \o (q \o t) = (p \o q) \o t /\ p \o q \in Seq(Chars)
    <3>1. t \in Seq(Chars)
      BY <1>4
    <3> QED BY ONLY SMTT(30), <3>1, p \in Seq(Chars), q \in Seq(Chars), ConcatAssociative, ConcatProperties
  <2>7. IsSuffix(t, (p \o q) \o t)
    BY <1>4, <2>6, SplitIsSuffix
  <2>8. Flat(reads, 1) = FlattenSeq(reads)
    <3>1. SubSeq(reads, 1, Len(reads)) = reads
      BY <1>1
    <3> QED BY <3>1 DEF Flat
  <2> QED BY <2>4, <2>5, <2>6, <2>7, <2>8
<1> QED BY <1>2, <1>5, <1>6

-----------------------------------------------------------------------------
(* Sums of log bytes.                                                      *)

Sums == INSTANCE FoldTheorems WITH Op <- LAMBDA sum, e : sum + e.len

\* FoldTheorems' facts about sums, for the bytes of log lines.
LEMMA BytesAreSums ==
  ASSUME NEW s
  PROVE  EntryBytes(s) = Sums!Fold(0, s)
BY DEF EntryBytes, FoldLeft, MapThenFoldSet, Max,
       Sums!Fold, Sums!FoldLeft, Sums!MapThenFoldSet, Sums!Max

LEMMA BytesEmpty == EntryBytes(<<>>) = 0
BY Sums!FoldEmpty, BytesAreSums

LEMMA BytesAppend ==
  ASSUME NEW T, NEW s \in Seq(T), NEW e \in T
  PROVE  EntryBytes(Append(s, e)) = EntryBytes(s) + e.len
BY Sums!FoldAppend, BytesAreSums

LEMMA BytesType ==
  ASSUME NEW T, \A e \in T : e.len \in Nat, NEW s \in Seq(T)
  PROVE  EntryBytes(s) \in Nat
<1>1. \A x \in Nat, e \in T : x + e.len \in Nat
  OBVIOUS
<1>2. Sums!Fold(0, s) \in Nat
  BY <1>1, 0 \in Nat, Sums!FoldKeeps
<1> QED BY <1>2, BytesAreSums

\* Append adds to what is left, too.
LEMMA RestAppended ==
  ASSUME NEW T, NEW s \in Seq(T), NEW e \in T, NEW i \in 1 .. Len(s)
  PROVE  SubSeq(Append(s, e), i, Len(s) + 1) = Append(SubSeq(s, i, Len(s)), e)
<1> DEFINE a == SubSeq(Append(s, e), i, Len(s) + 1)
           b == Append(SubSeq(s, i, Len(s)), e)
           k == Len(s) - i + 1
<1>1. Len(s) \in Nat /\ k \in Nat
  OBVIOUS
<1>2. a \in Seq(T) /\ Len(a) = k + 1 /\ \A j \in 1 .. k + 1 : a[j] = Append(s, e)[i + j - 1]
  OBVIOUS
<1>3. b \in Seq(T) /\ Len(b) = k + 1
  OBVIOUS
<1>4. ASSUME NEW j \in 1 .. k + 1 PROVE a[j] = b[j]
  <2>1. CASE j = k + 1
    BY <1>2, <2>1
  <2>2. CASE j # k + 1
    BY <1>2, <2>2
  <2> QED BY <2>1, <2>2
<1> HIDE DEF a, b, k
<1>5. a = b
  BY <1>1, <1>2, <1>3, <1>4
<1> QED BY <1>5 DEF a, b

\* The bytes of a sequence are those of a first and a last part of it.
LEMMA BytesSplit ==
  ASSUME NEW T, \A e \in T : e.len \in Nat, NEW s \in Seq(T), NEW k \in 0 .. Len(s)
  PROVE  EntryBytes(SubSeq(s, k + 1, Len(s))) = EntryBytes(s) - EntryBytes(SubSeq(s, 1, k))
<1> DEFINE Rest(r, j) == SubSeq(r, j + 1, Len(r))
           K == {r \in Seq(T) : \A j \in 0 .. Len(r) :
                   EntryBytes(Rest(r, j)) = EntryBytes(r) - EntryBytes(SubSeq(r, 1, j))}
<1>1. <<>> \in K
  <2>1. ASSUME NEW j \in 0 .. Len(<<>>)
        PROVE  Rest(<<>>, j) = <<>> /\ SubSeq(<<>>, 1, j) = <<>>
    <3>1. j = 0
      OBVIOUS
    <3> QED BY <3>1
  <2>2. <<>> \in Seq(T)
    OBVIOUS
  <2> HIDE DEF Rest
  <2>3. ASSUME NEW j \in 0 .. Len(<<>>)
        PROVE  EntryBytes(Rest(<<>>, j)) = EntryBytes(<<>>) - EntryBytes(SubSeq(<<>>, 1, j))
    <3>1. EntryBytes(Rest(<<>>, j)) = 0 /\ EntryBytes(SubSeq(<<>>, 1, j)) = 0
      BY <2>1, BytesEmpty
    <3> QED BY <3>1, BytesEmpty
  <2> QED BY <2>2, <2>3
<1>2. ASSUME NEW r \in Seq(T), NEW e \in T, r \in K PROVE Append(r, e) \in K
  <2> DEFINE q == Append(r, e)
  <2>1. q \in Seq(T) /\ Len(q) = Len(r) + 1 /\ Len(r) \in Nat /\ e.len \in Nat
    OBVIOUS
  <2>2. EntryBytes(q) = EntryBytes(r) + e.len /\ EntryBytes(r) \in Nat
    BY BytesAppend, BytesType
  <2>3. ASSUME NEW j \in 0 .. Len(q)
        PROVE  EntryBytes(Rest(q, j)) = EntryBytes(q) - EntryBytes(SubSeq(q, 1, j))
    <3>1. CASE j = Len(q)
      <4>1. SubSeq(q, 1, j) = q /\ Rest(q, j) = <<>>
        BY <3>1
      <4>2. EntryBytes(q) - EntryBytes(q) = 0
        BY <2>1, <2>2
      <4> QED BY <4>1, <4>2, BytesEmpty
    <3>2. CASE j # Len(q)
      <4>1. j \in 0 .. Len(r)
        BY <2>1, <3>2
      <4>2. SubSeq(q, 1, j) = SubSeq(r, 1, j) /\ SubSeq(r, 1, j) \in Seq(T)
        BY <4>1
      <4>3. Rest(r, j) \in Seq(T) /\ Rest(q, j) = Append(Rest(r, j), e)
        <5>1. /\ Rest(r, j) \in Seq(T) /\ Len(Rest(r, j)) = Len(r) - j
              /\ Rest(q, j) \in Seq(T) /\ Len(Rest(q, j)) = Len(r) + 1 - j
          BY <2>1, <4>1
        <5>2. ASSUME NEW i \in 1 .. Len(r) + 1 - j
              PROVE  Rest(q, j)[i] = Append(Rest(r, j), e)[i]
          <6>1. Rest(q, j)[i] = q[i + j]
            <7>1. j \in 0 .. Len(q) /\ i \in 1 .. Len(q) - j
              BY <2>1, <4>1
            <7> HIDE DEF q
            <7> QED BY <2>1, <7>1, RestOf
          <6>2. CASE i = Len(r) + 1 - j
            BY <2>1, <4>1, <5>1, <6>1, <6>2
          <6>3. CASE i # Len(r) + 1 - j
            <7>1. i \in 1 .. Len(r) - j
              BY <2>1, <6>3, <4>1
            <7>2. Rest(r, j)[i] = r[i + j] /\ q[i + j] = r[i + j]
              BY <7>1, <4>1
            <7>3. Append(Rest(r, j), e)[i] = Rest(r, j)[i]
              BY <5>1, <7>1
            <7> QED BY <6>1, <7>2, <7>3
          <6> QED BY <6>2, <6>3
        <5> HIDE DEF Rest
        <5> QED BY <5>1, <5>2, <4>1
      <4>4. EntryBytes(Rest(q, j)) = EntryBytes(Rest(r, j)) + e.len
        <5> HIDE DEF Rest, q
        <5> QED BY <4>3, BytesAppend
      <4>5. EntryBytes(Rest(r, j)) = EntryBytes(r) - EntryBytes(SubSeq(r, 1, j))
        BY <1>2, <4>1
      <4>6. EntryBytes(SubSeq(r, 1, j)) \in Nat
        BY <4>2, BytesType
      <4>7. EntryBytes(SubSeq(q, 1, j)) = EntryBytes(SubSeq(r, 1, j))
        BY <4>2
      <4> HIDE DEF Rest, q
      <4> QED BY <2>1, <2>2, <4>4, <4>5, <4>6, <4>7
    <3> QED BY <3>1, <3>2
  <2> HIDE DEF Rest, q
  <2>4. q \in K
    BY <2>1, <2>3
  <2> QED BY <2>4 DEF q
<1>3. \A r \in Seq(T) : r \in K
  <2> HIDE DEF K
  <2> QED BY <1>1, <1>2, Sums!SequenceInduction
<1> QED BY <1>3

\* Only the lengths of the lines count.
LEMMA BytesSame ==
  ASSUME NEW T, NEW s \in Seq(T), NEW U, NEW t \in Seq(U), Len(s) = Len(t),
         \A i \in 1 .. Len(s) : s[i].len = t[i].len
  PROVE  EntryBytes(s) = EntryBytes(t)
<1> DEFINE K == {k \in Nat : k <= Len(s) =>
                   EntryBytes(SubSeq(s, 1, k)) = EntryBytes(SubSeq(t, 1, k))}
<1>1. 0 \in K
  <2>1. SubSeq(s, 1, 0) = <<>> /\ SubSeq(t, 1, 0) = <<>>
    OBVIOUS
  <2> QED BY <2>1
<1>2. ASSUME NEW k \in Nat, k \in K PROVE k + 1 \in K
  <2> SUFFICES ASSUME k + 1 <= Len(s)
               PROVE  EntryBytes(SubSeq(s, 1, k + 1)) = EntryBytes(SubSeq(t, 1, k + 1))
    OBVIOUS
  <2>1. /\ SubSeq(s, 1, k) \in Seq(T) /\ s[k + 1] \in T
        /\ SubSeq(s, 1, k + 1) = Append(SubSeq(s, 1, k), s[k + 1])
    OBVIOUS
  <2>2. /\ SubSeq(t, 1, k) \in Seq(U) /\ t[k + 1] \in U
        /\ SubSeq(t, 1, k + 1) = Append(SubSeq(t, 1, k), t[k + 1])
    OBVIOUS
  <2>3. EntryBytes(SubSeq(s, 1, k)) = EntryBytes(SubSeq(t, 1, k))
    BY <1>2
  <2>4. s[k + 1].len = t[k + 1].len
    OBVIOUS
  <2>5. EntryBytes(SubSeq(s, 1, k + 1)) = EntryBytes(SubSeq(s, 1, k)) + s[k + 1].len
    BY <2>1, BytesAppend
  <2>6. EntryBytes(SubSeq(t, 1, k + 1)) = EntryBytes(SubSeq(t, 1, k)) + t[k + 1].len
    BY <2>2, BytesAppend
  <2> QED BY <2>3, <2>4, <2>5, <2>6
<1>3. \A k \in Nat : k \in K
  <2> HIDE DEF K
  <2> QED BY <1>1, <1>2, Sums!Induction
<1>4. SubSeq(s, 1, Len(s)) = s /\ SubSeq(t, 1, Len(s)) = t /\ Len(s) \in Nat
  OBVIOUS
<1>5. EntryBytes(SubSeq(s, 1, Len(s))) = EntryBytes(SubSeq(t, 1, Len(s)))
  <2>1. Len(s) <= Len(s)
    BY <1>4
  <2> QED BY <1>3, <1>4, <2>1
<1> QED BY <1>4, <1>5

-----------------------------------------------------------------------------
(* A log and the lines that were logged.                                   *)

\* The folds over the lines of a text, for either stream.
LogOut == INSTANCE FoldTheorems WITH Op <- LAMBDA l, line : LineLogged(l, line, "stdout")
LogErr == INSTANCE FoldTheorems WITH Op <- LAMBDA l, line : LineLogged(l, line, "stderr")
PastOut == INSTANCE FoldTheorems WITH Op <- LAMBDA ls, line : Logged(ls, line, "stdout")
PastErr == INSTANCE FoldTheorems WITH Op <- LAMBDA ls, line : Logged(ls, line, "stderr")

Streams == {"stdout", "stderr"}
LoggedLines == [len : Nat, has : SUBSET Patterns, stream : Streams]
LogEntries ==
  [revision : Nat, stream : Streams, len : Nat, has : SUBSET Patterns, offset : Nat]

\* The log l has the last of the lines, under their numbers, within both
\* limits; a line that it has no more did not fit.
Gone(l, lines) == Len(lines) - Len(l.entries)
SameLineAs(e, line) == e.len = line.len /\ e.has = line.has /\ e.stream = line.stream
LogKept(l, lines) ==
  /\ lines \in Seq(LoggedLines)
  /\ l \in [entries : Seq(LogEntries), total : Nat, next : Nat]
  /\ l.next = Len(lines) + 1 /\ l.total = EntryBytes(l.entries)
  /\ l.total <= MaxLogBytes /\ Len(l.entries) <= MaxLogEntries
  /\ Len(l.entries) <= Len(lines)
  /\ \A i \in 1 .. Len(l.entries) :
       /\ l.entries[i].revision = Gone(l, lines) + i
       /\ SameLineAs(l.entries[i], lines[Gone(l, lines) + i])
  /\ Gone(l, lines) > 0 =>
       \/ Len(l.entries) = MaxLogEntries
       \/ EntryBytes(SubSeq(lines, Gone(l, lines), Len(lines))) > MaxLogBytes

\* An eviction leaves a suffix within the limits, and takes no more than it
\* must.
LEMMA EvictionEffect ==
  ASSUME NEW all \in Seq(LogEntries), NEW n, n = Len(all), NEW next \in Nat
  PROVE  \E k \in 0 .. n :
           LET rest(j) == SubSeq(all, j + 1, n) IN
           /\ LogEvicted([entries |-> all, total |-> EntryBytes(all), next |-> next])
                = [entries |-> rest(k), total |-> EntryBytes(rest(k)), next |-> next]
           /\ n - k <= MaxLogEntries /\ EntryBytes(rest(k)) <= MaxLogBytes
           /\ k > 0 => \/ n - (k - 1) > MaxLogEntries
                       \/ EntryBytes(rest(k - 1)) > MaxLogBytes
<1> DEFINE l == [entries |-> all, total |-> EntryBytes(all), next |-> next]
           rest(j) == SubSeq(all, j + 1, n)
           left(j) == EntryBytes(all) - EntryBytes(SubSeq(all, 1, j))
           fits == {j \in 0 .. n : n - j <= MaxLogEntries /\ left(j) <= MaxLogBytes}
           k == Min(fits)
<1>1. n \in Nat /\ MaxLogEntries \in Nat /\ MaxLogBytes \in Nat
  BY LogBufferAssumption
<1>2. ASSUME NEW j \in 0 .. n PROVE left(j) = EntryBytes(rest(j))
  <2>1. \A e \in LogEntries : e.len \in Nat
    BY DEF LogEntries
  <2> QED BY <2>1, BytesSplit
<1>3. n \in fits
  <2>1. rest(n) = <<>> /\ n \in 0 .. n
    BY <1>1
  <2>2. left(n) = 0
    BY <1>2, <2>1, BytesEmpty
  <2> HIDE DEF left, rest
  <2> QED BY <1>1, <2>1, <2>2
<1>4. k \in fits /\ \A j \in fits : k <= j
  <2>1. fits \in SUBSET Nat
    BY <1>1
  <2> HIDE DEF fits
  <2> QED BY <1>3, <2>1, LeastIs
<1>5. LogEvicted(l) = [entries |-> rest(k), total |-> left(k), next |-> next]
  <2>1. LogEvicted(l) = [l EXCEPT !.entries = SubSeq(@, k + 1, Len(@)), !.total = left(k)]
    BY DEF LogEvicted
  <2> HIDE DEF k, left
  <2> QED BY <2>1
<1>6. k \in 0 .. n /\ n - k <= MaxLogEntries /\ left(k) <= MaxLogBytes
  <2> HIDE DEF k, left
  <2> QED BY <1>4
<1>7. ASSUME k > 0
      PROVE  n - (k - 1) > MaxLogEntries \/ left(k - 1) > MaxLogBytes
  <2>1. k - 1 \in 0 .. n /\ ~(k <= k - 1)
    BY <1>1, <1>6, <1>7
  <2>2. k - 1 \notin fits
    BY <1>4, <2>1
  <2>3. left(k - 1) \in Int
    <3>1. rest(k - 1) \in Seq(LogEntries) /\ \A e \in LogEntries : e.len \in Nat
      <4>1. \A e \in LogEntries : e.len \in Nat
        BY DEF LogEntries
      <4> HIDE DEF k
      <4> QED BY <2>1, <4>1, RestOf
    <3>2. EntryBytes(rest(k - 1)) \in Nat
      <4> HIDE DEF rest, k
      <4> QED BY <3>1, BytesType
    <3> HIDE DEF rest, k, left
    <3> QED BY <1>2, <2>1, <3>2
  <2> HIDE DEF k, left
  <2> QED BY <1>1, <1>6, <2>1, <2>2, <2>3
<1>8. k > 0 => k - 1 \in 0 .. n
  BY <1>1, <1>6
<1>9. left(k) = EntryBytes(rest(k)) /\ (k > 0 => left(k - 1) = EntryBytes(rest(k - 1)))
  BY <1>2, <1>6, <1>8
<1> HIDE DEF k, left, rest, fits
<1>10. /\ LogEvicted(l) = [entries |-> rest(k), total |-> EntryBytes(rest(k)), next |-> next]
       /\ n - k <= MaxLogEntries /\ EntryBytes(rest(k)) <= MaxLogBytes
       /\ k > 0 => n - (k - 1) > MaxLogEntries \/ EntryBytes(rest(k - 1)) > MaxLogBytes
  BY <1>5, <1>6, <1>7, <1>9
<1> QED BY <1>6, <1>10 DEF rest

\* One more line keeps a log as it should be.
LEMMA LineKeeps ==
  ASSUME NEW l, NEW lines, LogKept(l, lines), NEW line \in Lines, NEW stream \in Streams
  PROVE  LogKept(LineLogged(l, line, stream), Logged(lines, line, stream))
<1> DEFINE n == Len(lines)
           m == Len(l.entries)
           p == m + 1
           q == n + 1
           e == [revision |-> l.next, stream |-> stream, len |-> line.len,
                 has |-> line.has, offset |-> l.total]
           x == [len |-> line.len, has |-> line.has, stream |-> stream]
           lines2 == Append(lines, x)
           all == Append(l.entries, e)
           full == [entries |-> all, total |-> l.total + line.len, next |-> l.next + 1]
           rest(j) == SubSeq(all, j + 1, p)
<1>1. CASE line.len = 0
  BY <1>1 DEF LineLogged, Logged
<1>2. CASE line.len # 0
  <2>1. /\ lines \in Seq(LoggedLines) /\ l.entries \in Seq(LogEntries)
        /\ l.next = n + 1 /\ l.total \in Nat /\ l.total = EntryBytes(l.entries)
        /\ l.total <= MaxLogBytes /\ m <= MaxLogEntries /\ m <= n
        /\ n \in Nat /\ m \in Nat /\ p = m + 1 /\ q = n + 1 /\ MaxLogBytes \in Nat /\ MaxLogEntries \in Nat
    BY LogBufferAssumption DEF LogKept
  <2>2. /\ \A i \in 1 .. m : /\ l.entries[i].revision = n - m + i
                            /\ SameLineAs(l.entries[i], lines[n - m + i])
        /\ n - m > 0 => \/ m = MaxLogEntries
                       \/ EntryBytes(SubSeq(lines, n - m, n)) > MaxLogBytes
    BY DEF LogKept, Gone
  <2>3. line.len \in Nat /\ line.has \in SUBSET Patterns
    BY TextAssumption
  <2>4. e \in LogEntries /\ x \in LoggedLines
    BY <2>1, <2>3 DEF LogEntries, LoggedLines
  <2>5. /\ \A f \in LogEntries : f.len \in Nat
        /\ \A f \in LoggedLines : f.len \in Nat
    BY DEF LogEntries, LoggedLines
  <2>6. /\ all \in Seq(LogEntries) /\ Len(all) = p
        /\ all[p] = e /\ \A i \in 1 .. m : all[i] = l.entries[i]
    BY <2>1, <2>4
  <2>7. /\ lines2 \in Seq(LoggedLines) /\ Len(lines2) = q
        /\ lines2[q] = x /\ \A i \in 1 .. n : lines2[i] = lines[i]
    BY <2>1, <2>4
  <2>8. EntryBytes(all) = l.total + line.len
    <3>1. EntryBytes(all) = EntryBytes(l.entries) + e.len
      BY <2>1, <2>4, BytesAppend
    <3> QED BY <2>1, <3>1
  <2>9. n - m \in Nat
    BY <2>1
  <2>10. LineLogged(l, line, stream) = LogEvicted(full) /\ Logged(lines, line, stream) = lines2
    BY <1>2 DEF LineLogged, Logged
  <2> HIDE DEF e, x, n, m, p, q
  <2>11. ASSUME NEW i \in 1 .. p
         PROVE  all[i].revision = n - m + i /\ SameLineAs(all[i], lines2[n - m + i])
    <3>1. CASE i = p
      <4>1. n - m + i = q
        BY <2>1, <3>1
      <4>2. all[i] = e /\ lines2[n - m + i] = x
        BY <2>6, <2>7, <3>1, <4>1
      <4>3. e.revision = n - m + i /\ SameLineAs(e, x)
        BY <2>1, <4>1 DEF SameLineAs, e, x
      <4> QED BY <4>2, <4>3
    <3>2. CASE i # p
      <4>1. i \in 1 .. m /\ n - m + i \in 1 .. n
        BY <2>1, <3>2
      <4> QED BY <2>2, <2>6, <2>7, <4>1
    <3> QED BY <3>1, <3>2
  <2>12. PICK k \in 0 .. p :
           /\ LogEvicted(full) = [entries |-> rest(k), total |-> EntryBytes(rest(k)),
                                  next |-> l.next + 1]
           /\ p - k <= MaxLogEntries /\ EntryBytes(rest(k)) <= MaxLogBytes
           /\ k > 0 => \/ p - (k - 1) > MaxLogEntries
                       \/ EntryBytes(rest(k - 1)) > MaxLogBytes
    <3> DEFINE next == l.next + 1
    <3>1. full = [entries |-> all, total |-> EntryBytes(all), next |-> next]
      BY <2>8
    <3>2. p = Len(all) /\ next \in Nat
      BY <2>1, <2>6
    <3> HIDE DEF full, all, next
    <3>3. \E k \in 0 .. p :
           /\ LogEvicted(full) = [entries |-> rest(k), total |-> EntryBytes(rest(k)), next |-> next]
           /\ p - k <= MaxLogEntries /\ EntryBytes(rest(k)) <= MaxLogBytes
           /\ k > 0 => p - (k - 1) > MaxLogEntries \/ EntryBytes(rest(k - 1)) > MaxLogBytes
      BY <2>6, <3>1, <3>2, EvictionEffect
    <3> QED BY <3>3 DEF next
  <2> HIDE DEF all, full, lines2
  <2>13. /\ rest(k) \in Seq(LogEntries) /\ Len(rest(k)) = p - k
         /\ \A i \in 1 .. p - k : rest(k)[i] = all[i + k]
    <3>1. all \in Seq(LogEntries) /\ p = Len(all)
      BY <2>6
    <3> QED BY <3>1, RestOf
  <2>14. EntryBytes(rest(k)) \in Nat
    BY <2>5, <2>13, BytesType
  <2> DEFINE g == n - m + k
             l2 == [entries |-> rest(k), total |-> EntryBytes(rest(k)), next |-> l.next + 1]
  <2>15. g \in Int /\ g = (q) - Len(rest(k)) /\ g >= 0
    BY <2>1, <2>13
  <2>16. ASSUME NEW i \in 1 .. Len(rest(k))
         PROVE  rest(k)[i].revision = g + i /\ SameLineAs(rest(k)[i], lines2[g + i])
    <3>1. i \in 1 .. p - k /\ i + k \in 1 .. p /\ n - m + (i + k) = g + i
      BY <2>1, <2>13
    <3>2. rest(k)[i] = all[i + k]
      BY <2>13, <3>1
    <3> HIDE DEF rest, g
    <3> QED BY <2>11, <3>1, <3>2
  <2>17. ASSUME g > 0
         PROVE  Len(rest(k)) = MaxLogEntries \/ EntryBytes(SubSeq(lines2, g, q)) > MaxLogBytes
    <3>1. CASE k > 0 /\ p - (k - 1) > MaxLogEntries
      BY <2>1, <2>12, <2>13, <3>1
    <3>2. CASE k > 0 /\ EntryBytes(rest(k - 1)) > MaxLogBytes
      <4>1. k - 1 \in 0 .. p /\ g - 1 \in 0 .. q /\ (g - 1) + 1 = g
        BY <2>1, <3>2
      <4>2. /\ rest(k - 1) \in Seq(LogEntries) /\ Len(rest(k - 1)) = p - (k - 1)
            /\ \A i \in 1 .. p - (k - 1) : rest(k - 1)[i] = all[i + (k - 1)]
        BY <2>6, <4>1, RestOf
      <4>3. /\ SubSeq(lines2, (g - 1) + 1, q) \in Seq(LoggedLines)
            /\ Len(SubSeq(lines2, (g - 1) + 1, q)) = q - (g - 1)
            /\ \A i \in 1 .. q - (g - 1) :
                 SubSeq(lines2, (g - 1) + 1, q)[i] = lines2[i + (g - 1)]
        <5>1. lines2 \in Seq(LoggedLines) /\ q = Len(lines2)
          BY <2>7
        <5> DEFINE j == g - 1
        <5>2. j \in 0 .. q
          BY <4>1
        <5> HIDE DEF j
        <5>3. /\ SubSeq(lines2, j + 1, q) \in Seq(LoggedLines)
              /\ Len(SubSeq(lines2, j + 1, q)) = q - j
              /\ \A i \in 1 .. q - j : SubSeq(lines2, j + 1, q)[i] = lines2[i + j]
          BY ONLY <5>1, <5>2, RestOf
        <5> QED BY <5>3 DEF j
      <4> DEFINE t == SubSeq(lines2, g, q)
      <4>4. /\ t \in Seq(LoggedLines) /\ Len(t) = q - (g - 1)
            /\ \A i \in 1 .. q - (g - 1) : t[i] = lines2[i + (g - 1)]
        BY <4>1, <4>3
      <4>5. p - (k - 1) = q - (g - 1)
        BY <2>1
      <4>6. ASSUME NEW i \in 1 .. Len(rest(k - 1)) PROVE rest(k - 1)[i].len = t[i].len
        <5>1. /\ i \in 1 .. p - (k - 1) /\ i \in 1 .. q - (g - 1)
              /\ i + (k - 1) \in 1 .. p /\ n - m + (i + (k - 1)) = i + (g - 1)
          <6>1. i \in 1 .. p - (k - 1)
            BY <4>2
          <6> QED BY <2>1, <3>2, <4>5, <6>1
        <5>2. SameLineAs(all[i + (k - 1)], lines2[i + (g - 1)])
          <6>1. SameLineAs(all[i + (k - 1)], lines2[n - m + (i + (k - 1))])
            BY <2>11, <5>1
          <6> QED BY <5>1, <6>1
        <5> HIDE DEF rest, t, g
        <5> QED BY <4>2, <4>4, <5>1, <5>2 DEF SameLineAs
      <4>7. Len(rest(k - 1)) = Len(t)
        BY <4>2, <4>4, <4>5
      <4>8. EntryBytes(rest(k - 1)) = EntryBytes(t)
        <5> HIDE DEF rest, t
        <5> QED BY <4>2, <4>4, <4>6, <4>7, BytesSame
      <4> QED BY <3>2, <4>8
    <3>3. CASE k = 0
      <4>1. n - m > 0 /\ g = n - m
        BY <2>1, <2>17, <3>3
      <4>2. p <= MaxLogEntries
        BY <2>1, <2>12, <3>3
      <4>3. EntryBytes(SubSeq(lines, n - m, n)) > MaxLogBytes
        BY <2>1, <2>2, <4>1, <4>2
      <4>4. SubSeq(lines, n - m, n) \in Seq(LoggedLines)
        BY <2>1, <4>1 DEF n
      <4>5. SubSeq(lines2, g, q) = Append(SubSeq(lines, n - m, n), x)
        <5>1. lines \in Seq(LoggedLines) /\ x \in LoggedLines /\ n - m \in 1 .. Len(lines)
          BY <2>1, <2>4, <4>1 DEF n
        <5>2. SubSeq(Append(lines, x), n - m, Len(lines) + 1)
                = Append(SubSeq(lines, n - m, Len(lines)), x)
          BY ONLY <5>1, RestAppended
        <5> QED BY <2>1, <4>1, <5>2 DEF lines2, n
      <4>6. EntryBytes(SubSeq(lines2, g, q)) = EntryBytes(SubSeq(lines, n - m, n)) + x.len
        BY <2>4, <4>4, <4>5, BytesAppend
      <4>7. EntryBytes(SubSeq(lines, n - m, n)) \in Nat /\ x.len \in Nat
        BY <2>4, <2>5, <4>4, BytesType
      <4> QED BY <2>1, <4>3, <4>6, <4>7
    <3>4. k = 0 \/ k > 0
      BY <2>1
    <3> QED BY <2>12, <3>1, <3>2, <3>3, <3>4
  <2> HIDE DEF rest, g
  <2>18. /\ l2 \in [entries : Seq(LogEntries), total : Nat, next : Nat]
         /\ l2.next = Len(lines2) + 1 /\ l2.total = EntryBytes(l2.entries)
         /\ l2.total <= MaxLogBytes /\ Len(l2.entries) <= MaxLogEntries
         /\ Len(l2.entries) <= Len(lines2) /\ Gone(l2, lines2) = g
    <3>1. l2.entries = rest(k) /\ l2.total = EntryBytes(rest(k)) /\ l2.next = n + 2
      BY <2>1
    <3>2. l2 \in [entries : Seq(LogEntries), total : Nat, next : Nat]
      BY <2>1, <2>13, <2>14
    <3>3. EntryBytes(rest(k)) <= MaxLogBytes /\ p - k <= MaxLogEntries
      BY <2>12
    <3>4. Len(rest(k)) = p - k /\ Len(lines2) = q /\ p - k <= q
      BY <2>1, <2>7, <2>13
    <3> HIDE DEF l2
    <3> QED BY <2>1, <2>15, <3>1, <3>2, <3>3, <3>4 DEF Gone
  <2>19. l2.entries = rest(k)
    OBVIOUS
  <2> HIDE DEF l2
  <2>20. LogKept(l2, lines2)
    BY <2>7, <2>16, <2>17, <2>18, <2>19 DEF LogKept
  <2> QED BY <2>10, <2>12, <2>20 DEF l2
<1> QED BY <1>1, <1>2

\* Offsets start within the limit; as long as nothing is gone, each entry
\* starts where the one before it ends.
OffsetsKept(l, lines) ==
  LET m == Len(l.entries) IN
  /\ \A i \in 1 .. m : l.entries[i].offset <= MaxLogBytes
  /\ Gone(l, lines) = 0 =>
       /\ \A i \in 1 .. m - 1 :
            l.entries[i].offset + l.entries[i].len = l.entries[i + 1].offset
       /\ m > 0 => /\ l.entries[1].offset = 0
                   /\ l.entries[m].offset + l.entries[m].len = l.total

\* One more line keeps the offsets.
LEMMA LineOffsets ==
  ASSUME NEW l, NEW lines, LogKept(l, lines), OffsetsKept(l, lines),
         NEW line \in Lines, NEW stream \in Streams
  PROVE  OffsetsKept(LineLogged(l, line, stream), Logged(lines, line, stream))
<1> DEFINE n == Len(lines)
           es == l.entries
           m == Len(es)
           p == m + 1
           q == n + 1
           next == l.next + 1
           e == [revision |-> l.next, stream |-> stream, len |-> line.len,
                 has |-> line.has, offset |-> l.total]
           x == [len |-> line.len, has |-> line.has, stream |-> stream]
           all == Append(es, e)
           full == [entries |-> all, total |-> EntryBytes(all), next |-> next]
           rest(j) == SubSeq(all, j + 1, p)
<1>1. CASE line.len = 0
  BY <1>1 DEF LineLogged, Logged
<1>2. CASE line.len # 0
  <2>1. /\ lines \in Seq(LoggedLines) /\ es \in Seq(LogEntries)
        /\ l.next \in Nat /\ l.total \in Nat /\ l.total = EntryBytes(es) /\ l.total <= MaxLogBytes
        /\ m <= n /\ n \in Nat /\ m \in Nat /\ p = m + 1 /\ q = n + 1 /\ MaxLogBytes \in Nat
    BY LogBufferAssumption DEF LogKept
  <2>2. line.len \in Nat /\ line.has \in SUBSET Patterns
    BY TextAssumption
  <2>3. e \in LogEntries /\ x \in LoggedLines
    BY <2>1, <2>2 DEF LogEntries, LoggedLines
  <2>4. e.len = line.len /\ e.offset = l.total
    OBVIOUS
  <2>5. /\ all \in Seq(LogEntries) /\ Len(all) = p
        /\ all[p] = e /\ \A i \in 1 .. m : all[i] = es[i]
    BY <2>1, <2>3
  <2>6. EntryBytes(all) = l.total + line.len
    <3>1. \A f \in LogEntries : f.len \in Nat
      BY DEF LogEntries
    <3>2. EntryBytes(all) = EntryBytes(es) + e.len
      BY <2>1, <2>3, BytesAppend
    <3> QED BY <2>1, <3>2
  <2>7. LineLogged(l, line, stream) = LogEvicted(full)
        /\ Logged(lines, line, stream) = Append(lines, x)
    BY <1>2, <2>6 DEF LineLogged, Logged
  <2>8. Len(Append(lines, x)) = q
    BY <2>1
  <2>9. /\ \A i \in 1 .. m : es[i].offset <= MaxLogBytes
        /\ n - m = 0 =>
             /\ \A i \in 1 .. m - 1 : es[i].offset + es[i].len = es[i + 1].offset
             /\ m > 0 => es[1].offset = 0 /\ es[m].offset + es[m].len = l.total
    BY DEF OffsetsKept, Gone
  <2>10. m = 0 => l.total = 0
    BY <2>1, BytesEmpty
  <2> HIDE DEF n, m, p, q, e, x, all, es, next
  <2>11. p = Len(all) /\ next \in Nat
    BY <2>1, <2>5 DEF next
  <2>12. PICK k \in 0 .. p :
           LogEvicted(full) = [entries |-> rest(k), total |-> EntryBytes(rest(k)), next |-> next]
    <3>1. \E k \in 0 .. p :
           /\ LogEvicted(full) = [entries |-> rest(k), total |-> EntryBytes(rest(k)), next |-> next]
           /\ p - k <= MaxLogEntries /\ EntryBytes(rest(k)) <= MaxLogBytes
           /\ k > 0 => p - (k - 1) > MaxLogEntries \/ EntryBytes(rest(k - 1)) > MaxLogBytes
      BY <2>5, <2>11, EvictionEffect
    <3> QED BY <3>1
  <2>13. /\ rest(k) \in Seq(LogEntries) /\ Len(rest(k)) = p - k
         /\ \A i \in 1 .. p - k : rest(k)[i] = all[i + k]
    <3>1. all \in Seq(LogEntries) /\ p = Len(all)
      BY <2>5, <2>11
    <3> QED BY <3>1, RestOf
  <2>14. ASSUME NEW i \in 1 .. p PROVE all[i].offset <= MaxLogBytes
    <3>1. CASE i = p
      BY <2>1, <2>4, <2>5, <3>1
    <3>2. CASE i # p
      <4>1. i \in 1 .. m
        BY <2>1, <3>2
      <4> QED BY <2>5, <2>9, <4>1
    <3> QED BY <3>1, <3>2
  <2> DEFINE l2 == [entries |-> rest(k), total |-> EntryBytes(rest(k)), next |-> next]
             lines2 == Append(lines, x)
  <2>15. l2.entries = rest(k) /\ l2.total = EntryBytes(rest(k))
    OBVIOUS
  <2>16. ASSUME NEW i \in 1 .. Len(l2.entries) PROVE l2.entries[i].offset <= MaxLogBytes
    <3>1. i \in 1 .. p - k /\ i + k \in 1 .. p
      BY <2>1, <2>13
    <3>2. l2.entries[i] = all[i + k]
      BY <2>13, <3>1
    <3> QED BY <2>14, <3>1, <3>2
  <2>17. ASSUME Gone(l2, lines2) = 0
         PROVE  /\ \A i \in 1 .. Len(l2.entries) - 1 :
                     l2.entries[i].offset + l2.entries[i].len = l2.entries[i + 1].offset
                /\ Len(l2.entries) > 0 =>
                     /\ l2.entries[1].offset = 0
                     /\ l2.entries[Len(l2.entries)].offset + l2.entries[Len(l2.entries)].len = l2.total
    <3>1. q - (p - k) = 0
      BY <2>8, <2>13, <2>17 DEF Gone
    <3>2. k = 0 /\ n - m = 0
      BY <2>1, <3>1
    <3>3. rest(k) = all
      BY <2>5, <2>11, <3>2
    <3>4. l2.entries = all /\ l2.total = l.total + line.len
      BY <2>6, <3>3
    <3> HIDE DEF l2, rest
    <3>5. ASSUME NEW i \in 1 .. p - 1 PROVE all[i].offset + all[i].len = all[i + 1].offset
      <4>1. CASE i = m
        <5>1. m > 0 /\ i \in 1 .. m /\ i + 1 = p
          BY <2>1, <4>1
        <5>2. all[i] = es[m] /\ all[i + 1] = e
          BY <2>5, <4>1, <5>1
        <5>3. es[m].offset + es[m].len = l.total
          BY <2>9, <3>2, <5>1
        <5> QED BY <2>4, <5>2, <5>3
      <4>2. CASE i # m
        <5>1. i \in 1 .. m - 1 /\ i \in 1 .. m /\ i + 1 \in 1 .. m
          BY <2>1, <4>2
        <5> QED BY <2>5, <2>9, <3>2, <5>1
      <4> QED BY <4>1, <4>2
    <3>6. all[1].offset = 0
      <4>1. CASE m = 0
        BY <2>1, <2>4, <2>5, <2>10, <4>1
      <4>2. CASE m > 0
        <5>1. 1 \in 1 .. m
          BY <2>1, <4>2
        <5> QED BY <2>5, <2>9, <3>2, <4>2, <5>1
      <4> QED BY <2>1, <4>1, <4>2
    <3>7. all[p].offset + all[p].len = l2.total
      BY <2>4, <2>5, <3>4
    <3> QED BY <2>5, <3>4, <3>5, <3>6, <3>7
  <2> HIDE DEF l2, lines2
  <2>18. OffsetsKept(l2, lines2)
    BY <2>16, <2>17 DEF OffsetsKept
  <2> QED BY <2>7, <2>12, <2>18 DEF l2, lines2
<1> QED BY <1>1, <1>2

\* So does a text, to either stream.
LEMMA OutKeeps ==
  ASSUME NEW l, NEW lines, LogKept(l, lines), OffsetsKept(l, lines), NEW text \in Seq(Lines)
  PROVE  LET l2 == LogAppended(l, text, "stdout")
             lines2 == FoldLeft(LAMBDA ls, line : Logged(ls, line, "stdout"), lines, text) IN
         LogKept(l2, lines2) /\ OffsetsKept(l2, lines2)
<1> DEFINE K == {t \in Seq(Lines) : /\ LogKept(LogOut!Fold(l, t), PastOut!Fold(lines, t))
                                  /\ OffsetsKept(LogOut!Fold(l, t), PastOut!Fold(lines, t))}
<1>1. <<>> \in K
  BY LogOut!FoldEmpty, PastOut!FoldEmpty
<1>2. ASSUME NEW t \in Seq(Lines), NEW line \in Lines, t \in K PROVE Append(t, line) \in K
  <2>1. LogOut!Fold(l, Append(t, line)) = LineLogged(LogOut!Fold(l, t), line, "stdout")
    BY LogOut!FoldAppend
  <2>2. PastOut!Fold(lines, Append(t, line)) = Logged(PastOut!Fold(lines, t), line, "stdout")
    BY PastOut!FoldAppend
  <2>3. "stdout" \in Streams /\ LogKept(LogOut!Fold(l, t), PastOut!Fold(lines, t))
        /\ OffsetsKept(LogOut!Fold(l, t), PastOut!Fold(lines, t))
    BY <1>2 DEF Streams
  <2>4. LogKept(LogOut!Fold(l, Append(t, line)), PastOut!Fold(lines, Append(t, line)))
    BY <2>1, <2>2, <2>3, LineKeeps
  <2>5. OffsetsKept(LogOut!Fold(l, Append(t, line)), PastOut!Fold(lines, Append(t, line)))
    BY <2>1, <2>2, <2>3, LineOffsets
  <2> QED BY <2>4, <2>5
<1>3. \A t \in Seq(Lines) : t \in K
  <2> HIDE DEF K
  <2> QED BY <1>1, <1>2, Sums!SequenceInduction
<1>4. LogAppended(l, text, "stdout") = LogOut!Fold(l, text)
  BY DEF LogAppended, FoldLeft, MapThenFoldSet, Max,
         LogOut!Fold, LogOut!FoldLeft, LogOut!MapThenFoldSet, LogOut!Max
<1>5. FoldLeft(LAMBDA ls, line : Logged(ls, line, "stdout"), lines, text) = PastOut!Fold(lines, text)
  BY DEF FoldLeft, MapThenFoldSet, Max,
         PastOut!Fold, PastOut!FoldLeft, PastOut!MapThenFoldSet, PastOut!Max
<1>6. LogKept(LogOut!Fold(l, text), PastOut!Fold(lines, text))
      /\ OffsetsKept(LogOut!Fold(l, text), PastOut!Fold(lines, text))
  BY <1>3
<1> QED BY <1>4, <1>5, <1>6

\* append_stderr does, too.
LEMMA ErrKeeps ==
  ASSUME NEW l, NEW lines, LogKept(l, lines), OffsetsKept(l, lines), NEW text \in Seq(Lines)
  PROVE  LET l2 == LogAppended(l, text, "stderr")
             lines2 == FoldLeft(LAMBDA ls, line : Logged(ls, line, "stderr"), lines, text) IN
         LogKept(l2, lines2) /\ OffsetsKept(l2, lines2)
<1> DEFINE K == {t \in Seq(Lines) : /\ LogKept(LogErr!Fold(l, t), PastErr!Fold(lines, t))
                                  /\ OffsetsKept(LogErr!Fold(l, t), PastErr!Fold(lines, t))}
<1>1. <<>> \in K
  BY LogErr!FoldEmpty, PastErr!FoldEmpty
<1>2. ASSUME NEW t \in Seq(Lines), NEW line \in Lines, t \in K PROVE Append(t, line) \in K
  <2>1. LogErr!Fold(l, Append(t, line)) = LineLogged(LogErr!Fold(l, t), line, "stderr")
    BY LogErr!FoldAppend
  <2>2. PastErr!Fold(lines, Append(t, line)) = Logged(PastErr!Fold(lines, t), line, "stderr")
    BY PastErr!FoldAppend
  <2>3. "stderr" \in Streams /\ LogKept(LogErr!Fold(l, t), PastErr!Fold(lines, t))
        /\ OffsetsKept(LogErr!Fold(l, t), PastErr!Fold(lines, t))
    BY <1>2 DEF Streams
  <2>4. LogKept(LogErr!Fold(l, Append(t, line)), PastErr!Fold(lines, Append(t, line)))
    BY <2>1, <2>2, <2>3, LineKeeps
  <2>5. OffsetsKept(LogErr!Fold(l, Append(t, line)), PastErr!Fold(lines, Append(t, line)))
    BY <2>1, <2>2, <2>3, LineOffsets
  <2> QED BY <2>4, <2>5
<1>3. \A t \in Seq(Lines) : t \in K
  <2> HIDE DEF K
  <2> QED BY <1>1, <1>2, Sums!SequenceInduction
<1>4. LogAppended(l, text, "stderr") = LogErr!Fold(l, text)
  BY DEF LogAppended, FoldLeft, MapThenFoldSet, Max,
         LogErr!Fold, LogErr!FoldLeft, LogErr!MapThenFoldSet, LogErr!Max
<1>5. FoldLeft(LAMBDA ls, line : Logged(ls, line, "stderr"), lines, text) = PastErr!Fold(lines, text)
  BY DEF FoldLeft, MapThenFoldSet, Max,
         PastErr!Fold, PastErr!FoldLeft, PastErr!MapThenFoldSet, PastErr!Max
<1>6. LogKept(LogErr!Fold(l, text), PastErr!Fold(lines, text))
      /\ OffsetsKept(LogErr!Fold(l, text), PastErr!Fold(lines, text))
  BY <1>3
<1> QED BY <1>4, <1>5, <1>6

-----------------------------------------------------------------------------
(* Observations.                                                           *)

\* The larger of two numbers.
LEMMA LargerOfTwo ==
  ASSUME NEW a \in Int, NEW b \in Int
  PROVE  Max2(a, b) = IF a >= b THEN a ELSE b
BY DEF Max2, Max

Events == [event_id : Nat, session : Watched]
ObservationsKept(o, seen) ==
  /\ seen \in Seq(Watched)
  /\ o \in [events : Seq(Events), next : Nat]
  /\ o.next = Len(seen) + 1
  /\ Len(o.events) <= Len(seen) /\ Len(o.events) <= MaxObservations
  /\ \A i \in 1 .. Len(o.events) :
       o.events[i] = [event_id |-> Len(seen) - Len(o.events) + i,
                      session  |-> seen[Len(seen) - Len(o.events) + i]]
  /\ Len(seen) > Len(o.events) => Len(o.events) = MaxObservations

\* record keeps the store the last of the events.
LEMMA ObservedKeeps ==
  ASSUME NEW o, NEW seen, ObservationsKept(o, seen), NEW session \in Watched
  PROVE  ObservationsKept(Observed(o, session), Append(seen, session))
<1> DEFINE e == [event_id |-> o.next, session |-> session]
           all == Append(o.events, e)
           n == Len(seen)
           m == Len(o.events)
           p == m + 1
           q == n + 1
           seen2 == Append(seen, session)
           from == Max2(1, p - MaxObservations + 1)
           k == from - 1
           kept == SubSeq(all, k + 1, p)
<1>1. /\ o.events \in Seq(Events) /\ o.next = q /\ seen \in Seq(Watched)
      /\ n \in Nat /\ m \in Nat /\ p = m + 1 /\ q = n + 1 /\ MaxObservations \in Nat
      /\ m <= n /\ m <= MaxObservations /\ (n > m => m = MaxObservations)
  BY LogBufferAssumption DEF ObservationsKept
<1>2. \A i \in 1 .. m : o.events[i] = [event_id |-> n - m + i, session |-> seen[n - m + i]]
  BY DEF ObservationsKept
<1>3. e \in Events
  BY <1>1 DEF Events
<1>4. all \in Seq(Events) /\ Len(all) = p /\ all[p] = e /\ \A i \in 1 .. m : all[i] = o.events[i]
  BY <1>1, <1>3
<1>5. /\ seen2 \in Seq(Watched) /\ Len(seen2) = q
      /\ seen2[q] = session /\ \A i \in 1 .. n : seen2[i] = seen[i]
  BY <1>1
<1>6. k \in 0 .. p /\ from = k + 1
      /\ p - k <= MaxObservations /\ (k > 0 => p - k = MaxObservations)
  <2>1. from = IF 1 >= p - MaxObservations + 1 THEN 1 ELSE p - MaxObservations + 1
    BY <1>1, LargerOfTwo
  <2> HIDE DEF from, p, q, n, m
  <2> QED BY <1>1, <2>1
<1>7. Observed(o, session) = [events |-> kept, next |-> q + 1]
  <2>1. Observed(o, session) = [events |-> SubSeq(all, Max2(1, Len(all) - MaxObservations + 1), Len(all)),
                                next |-> o.next + 1]
    BY DEF Observed
  <2>2. Len(all) = p
    BY <1>4
  <2>3. Max2(1, Len(all) - MaxObservations + 1) = from
    <3> HIDE DEF all, p
    <3> QED BY <2>2
  <2>4. from = k + 1
    BY <1>6
  <2>5. o.next + 1 = q + 1
    BY <1>1
  <2> HIDE DEF all, from, k, p, q
  <2> QED BY <2>1, <2>2, <2>3, <2>4, <2>5
<1> HIDE DEF all, seen2, n, m, p, q, from, k
<1>8. /\ kept \in Seq(Events) /\ Len(kept) = p - k
      /\ \A i \in 1 .. p - k : kept[i] = all[i + k]
  <2>1. all \in Seq(Events) /\ p = Len(all) /\ k \in 0 .. p
    BY <1>4, <1>6
  <2> QED BY ONLY <2>1, RestOf
<1> HIDE DEF kept
<1>9. ASSUME NEW i \in 1 .. p
      PROVE  all[i] = [event_id |-> n - m + i, session |-> seen2[n - m + i]]
  <2>1. CASE i = p
    <3>1. n - m + i = q
      BY <1>1, <2>1
    <3> QED BY <1>1, <1>4, <1>5, <2>1, <3>1
  <2>2. CASE i # p
    <3>1. i \in 1 .. m /\ n - m + i \in 1 .. n
      BY <1>1, <2>2
    <3> QED BY <1>2, <1>4, <1>5, <3>1
  <2> QED BY <2>1, <2>2
<1>10. ASSUME NEW i \in 1 .. Len(kept)
       PROVE  kept[i] = [event_id |-> q - Len(kept) + i, session |-> seen2[q - Len(kept) + i]]
  <2>1. i \in 1 .. p - k /\ i + k \in 1 .. p /\ n - m + (i + k) = q - Len(kept) + i
    <3>1. Len(kept) = p - k
      BY <1>8
    <3> QED BY <1>1, <1>6, <3>1
  <2>2. kept[i] = all[i + k]
    BY <1>8, <2>1
  <2>3. all[i + k] = [event_id |-> n - m + (i + k), session |-> seen2[n - m + (i + k)]]
    BY <1>9, <2>1
  <2> QED BY <2>1, <2>2, <2>3
<1> DEFINE o2 == [events |-> kept, next |-> q + 1]
<1>11. /\ o2 \in [events : Seq(Events), next : Nat] /\ o2.events = kept
       /\ o2.next = q + 1
  BY <1>1, <1>8
<1>12. /\ Len(kept) <= q /\ Len(kept) <= MaxObservations
       /\ q > Len(kept) => Len(kept) = MaxObservations
  <2>1. Len(kept) = p - k
    BY <1>8
  <2>2. k = 0 \/ k > 0
    BY <1>1, <1>6
  <2>3. CASE k = 0
    BY <1>1, <1>6, <2>1, <2>3
  <2>4. CASE k > 0
    BY <1>1, <1>6, <2>1, <2>4
  <2> QED BY <2>2, <2>3, <2>4
<1> HIDE DEF o2
<1>13. ObservationsKept(o2, seen2)
  BY <1>5, <1>10, <1>11, <1>12 DEF ObservationsKept
<1> QED BY <1>7, <1>13 DEF o2, seen2

-----------------------------------------------------------------------------
(* Filters.                                                                *)

\* The numbers from a to b.
Run(a, b) == [j \in 1 .. b - a + 1 |-> a + j - 1]

\* A run with its next number, and an empty one.
LEMMA RunGrows ==
  ASSUME NEW a \in Nat, NEW b \in Int
  PROVE  /\ b = a - 1 => Run(a, b) = <<>>
         /\ b >= a - 1 => Run(a, b) \in Seq(Int) /\ Run(a, b) \o <<b + 1>> = Run(a, b + 1)
<1>1. ASSUME b < a PROVE Run(a, b) = <<>>
  <2>1. 1 .. b - a + 1 = {}
    BY <1>1
  <2> QED BY <2>1 DEF Run
<1>2. ASSUME b >= a - 1
      PROVE  Run(a, b) \in Seq(Int) /\ Run(a, b) \o <<b + 1>> = Run(a, b + 1)
  <2> DEFINE n == b - a + 1
             m == n + 1
             r == Run(a, b)
             q == r \o <<b + 1>>
  <2>1. n \in Nat /\ m \in Nat /\ m = n + 1 /\ (b + 1) - a + 1 = m
    BY <1>2
  <2>2. r = [j \in 1 .. n |-> a + j - 1]
    BY DEF Run
  <2>3. Run(a, b + 1) = [j \in 1 .. m |-> a + j - 1]
    BY <2>1 DEF Run
  <2>4. a + m - 1 = b + 1
    OBVIOUS
  <2> HIDE DEF n, m, r
  <2>5. r \in Seq(Int) /\ Len(r) = n
    BY <2>1, <2>2
  <2>6. Len(q) = m /\ q \in Seq(Int) /\ q[m] = b + 1 /\ \A j \in 1 .. n : q[j] = r[j]
    BY <2>1, <2>5
  <2> HIDE DEF q
  <2>7. \A j \in 1 .. m : q[j] = a + j - 1
    BY <2>1, <2>2, <2>4, <2>6
  <2>8. q = [j \in 1 .. m |-> q[j]]
    BY ONLY <2>6
  <2>9. q = Run(a, b + 1)
    BY ONLY <2>3, <2>7, <2>8
  <2> QED BY <2>5, <2>9 DEF r, q
<1> QED BY <1>1, <1>2

\* The places that are asked for are among those that are.
LEMMA PlacesType ==
  ASSUME NEW T, NEW s \in Seq(T), NEW asked \in SUBSET (1 .. Len(s))
  PROVE  Places(s, asked) \in Seq(asked)
<1> DEFINE parts == [i \in DOMAIN s |-> IF i \in asked THEN <<i>> ELSE <<>>]
<1>1. parts \in Seq(Seq(asked))
  <2>1. \A i \in DOMAIN s : parts[i] \in Seq(asked)
    OBVIOUS
  <2>2. Len(s) \in Nat /\ DOMAIN s = 1 .. Len(s)
    OBVIOUS
  <2> HIDE DEF parts
  <2>3. parts = [i \in 1 .. Len(s) |-> parts[i]]
    BY <2>2 DEF parts
  <2> QED BY <2>1, <2>2, <2>3
<1> QED BY <1>1, FlatType DEF Places

\* If all places from a to b are asked for, they are what a filter has.
LEMMA IntervalPlaces ==
  ASSUME NEW T, NEW s \in Seq(T), NEW a \in 1 .. Len(s) + 1, NEW b \in a - 1 .. Len(s)
  PROVE  /\ Places(s, a .. b) = Run(a, b)
         /\ Filtered(s, a .. b) = SubSeq(s, a, b)
<1> DEFINE n == Len(s)
           parts == [i \in DOMAIN s |-> IF i \in a .. b THEN <<i>> ELSE <<>>]
           pre(k) == SubSeq(parts, 1, k)
           top(k) == IF k < a THEN a - 1 ELSE IF k < b THEN k ELSE b
           K == {k \in Nat : k <= n => FlattenSeq(pre(k)) = Run(a, top(k))}
<1>1. n \in Nat /\ DOMAIN s = 1 .. n /\ a \in 1 .. n + 1 /\ b \in a - 1 .. n
  OBVIOUS
<1>2. parts \in Seq(Seq(Int)) /\ Len(parts) = n
      /\ \A i \in 1 .. n : parts[i] = IF i \in a .. b THEN <<i>> ELSE <<>>
  <2>1. parts = [i \in 1 .. n |-> parts[i]]
        /\ \A i \in 1 .. n : parts[i] = IF i \in a .. b THEN <<i>> ELSE <<>>
    BY <1>1
  <2> HIDE DEF parts, n
  <2>2. ASSUME NEW i \in 1 .. n PROVE parts[i] \in Seq(Int)
    <3>1. i \in Int
      BY <1>1
    <3>2. <<i>> \in Seq(Int) /\ <<>> \in Seq(Int)
      BY <3>1
    <3> QED BY <2>1, <3>2
  <2> DEFINE T0 == Seq(Int)
  <2>3. \A i \in 1 .. n : parts[i] \in T0
    BY <2>2
  <2>4. parts = [i \in 1 .. n |-> parts[i]]
    BY <2>1
  <2> HIDE DEF T0
  <2>5. parts \in Seq(T0) /\ Len(parts) = n
    BY ONLY <1>1, <2>3, <2>4
  <2> QED BY <2>1, <2>5 DEF T0
<1>3. pre(n) = parts
  <2> HIDE DEF parts, n
  <2> QED BY <1>1, <1>2
<1> HIDE DEF parts, n
<1>4. 0 \in K
  <2>1. pre(0) = <<>> /\ top(0) = a - 1
    BY <1>1, <1>2
  <2> DEFINE z == a - 1
  <2>3. a \in Nat /\ z \in Int /\ z = a - 1
    BY <1>1
  <2> HIDE DEF z
  <2>4. Run(a, z) = <<>>
    BY <2>3, RunGrows
  <2>2. Run(a, a - 1) = <<>>
    BY <2>4 DEF z
  <2> QED BY <2>1, <2>2, FlatNone
<1>5. ASSUME NEW k \in Nat, k \in K PROVE k + 1 \in K
  <2> SUFFICES ASSUME k + 1 <= n PROVE FlattenSeq(pre(k + 1)) = Run(a, top(k + 1))
    OBVIOUS
  <2> DEFINE k1 == k + 1
             t == parts[k1]
             r == Run(a, top(k))
  <2>1. k1 \in 1 .. n /\ k \in 0 .. n /\ FlattenSeq(pre(k)) = r
    BY <1>1, <1>5
  <2>2. pre(k) \in Seq(Seq(Int)) /\ t \in Seq(Int) /\ pre(k1) = Append(pre(k), t)
    BY <1>1, <1>2, <2>1
  <2> HIDE DEF pre, t
  <2>3. FlattenSeq(pre(k1)) = r \o t
    <3>1. Widths!FlattenSeq(Append(pre(k), t)) = Widths!FlattenSeq(pre(k)) \o t
      BY <2>2, Widths!FlattenAppend
    <3> QED BY <2>1, <2>2, <3>1 DEF FlattenSeq, Widths!FlattenSeq
  <2>4. top(k) \in Int /\ top(k) >= a - 1
    BY <1>1, <2>1
  <2> HIDE DEF top
  <2>5. r \in Seq(Int) /\ r \o <<top(k) + 1>> = Run(a, top(k) + 1)
    <3> DEFINE z == top(k)
    <3>1. a \in Nat /\ z \in Int /\ z >= a - 1
      BY <1>1, <2>4
    <3> HIDE DEF z
    <3>2. Run(a, z) \in Seq(Int) /\ Run(a, z) \o <<z + 1>> = Run(a, z + 1)
      BY <3>1, RunGrows
    <3> QED BY <3>2 DEF z
  <2> HIDE DEF r, K
  <2>6. CASE k1 \in a .. b
    <3>1. t = <<k1>>
      BY <1>2, <2>1, <2>6 DEF t
    <3>2. top(k) + 1 = k1 /\ top(k1) = k1
      BY <1>1, <2>1, <2>6 DEF top
    <3> QED BY <2>3, <2>5, <3>1, <3>2
  <2>7. CASE k1 \notin a .. b
    <3>1. t = <<>>
      BY <1>2, <2>1, <2>7 DEF t
    <3>2. top(k) = top(k1)
      BY <1>1, <2>1, <2>7 DEF top
    <3>3. r \o <<>> = r
      BY <2>5
    <3> QED BY <2>3, <3>1, <3>2, <3>3 DEF r
  <2> QED BY <2>6, <2>7
<1>6. \A k \in Nat : k \in K
  <2> HIDE DEF K
  <2> QED BY <1>4, <1>5, Widths!Induction
<1>7. FlattenSeq(parts) = Run(a, b)
  <2>1. FlattenSeq(pre(n)) = Run(a, top(n))
    BY <1>1, <1>6
  <2>2. top(n) = b
    BY <1>1
  <2> QED BY <1>3, <2>1, <2>2
<1>8. Places(s, a .. b) = Run(a, b)
  BY <1>7 DEF Places, parts
<1>9. Filtered(s, a .. b) = SubSeq(s, a, b)
  <2> DEFINE m == b - a + 1
  <2>1. m \in Nat /\ DOMAIN Run(a, b) = 1 .. m /\ \A j \in 1 .. m : Run(a, b)[j] = a + j - 1
    BY <1>1 DEF Run
  <2>2. Filtered(s, a .. b) = [j \in DOMAIN Run(a, b) |-> s[Run(a, b)[j]]]
    BY <1>8 DEF Filtered
  <2>3. Filtered(s, a .. b) = [j \in 1 .. m |-> s[a + j - 1]]
    BY <2>1, <2>2
  <2>4. SubSeq(s, a, b) = [j \in 1 .. m |-> s[a + j - 1]]
    BY <1>1
  <2> QED BY <2>3, <2>4
<1> QED BY <1>8, <1>9

-----------------------------------------------------------------------------
(* Queries of a log.                                                       *)

\* Entry i has revision g + i.
Numbering(l, g) ==
  /\ l.entries \in Seq(LogEntries) /\ g \in Nat
  /\ \A i \in 1 .. Len(l.entries) : l.entries[i].revision = g + i

\* A range of revisions is a part of the log, if the places a to b are those
\* with revisions in it.
LEMMA RangeIs ==
  ASSUME NEW l, NEW g, Numbering(l, g), NEW from \in Int, NEW to \in SUBSET Int,
         NEW a \in 1 .. Len(l.entries) + 1, NEW b \in a - 1 .. Len(l.entries),
         \A i \in 1 .. Len(l.entries) :
           i \in a .. b <=> g + i >= from /\ \A r \in to : g + i <= r
  PROVE  LogRange(l, from, to).entries = SubSeq(l.entries, a, b)
<1> DEFINE es == l.entries
           asked == {i \in DOMAIN es : InRange(es[i], {from}, to)}
<1>1. es \in Seq(LogEntries) /\ Len(es) \in Nat /\ DOMAIN es = 1 .. Len(es)
      /\ a \in 1 .. Len(es) + 1 /\ b \in a - 1 .. Len(es)
      /\ \A i \in 1 .. Len(es) : es[i].revision = g + i
  BY DEF Numbering
<1>2. LogRange(l, from, to).entries = Filtered(es, asked)
  BY DEF LogRange
<1>3. \A i \in 1 .. Len(es) : i \in asked <=> i \in a .. b
  <2> SUFFICES ASSUME NEW i \in 1 .. Len(es)
               PROVE  InRange(es[i], {from}, to) <=> i \in a .. b
    BY <1>1
  <2>1. InRange(es[i], {from}, to) <=> g + i >= from /\ \A r \in to : g + i <= r
    BY <1>1 DEF InRange
  <2> QED BY <2>1
<1>4. asked \subseteq 1 .. Len(es)
  BY <1>1
<1>5. a .. b \subseteq 1 .. Len(es)
  BY <1>1
<1> HIDE DEF asked, es
<1>6. asked = a .. b
  BY <1>3, <1>4, <1>5
<1>7. Filtered(es, a .. b) = SubSeq(es, a, b)
  BY <1>1, IntervalPlaces
<1> QED BY <1>2, <1>6, <1>7 DEF es

\* A tail is a range of the last revisions.
LEMMA TailIsRange ==
  ASSUME NEW l, NEW g, Numbering(l, g), l.next = g + Len(l.entries) + 1, NEW n \in Nat
  PROVE  LogTail(l, n) = LogRange(l, l.next - n, {}).entries
<1> DEFINE m == Len(l.entries)
           a == Max2(1, m - n + 1)
           from == l.next - n
<1>1. m \in Nat /\ g \in Nat
  BY DEF Numbering
<1>2. a = IF 1 >= m - n + 1 THEN 1 ELSE m - n + 1
  BY <1>1, LargerOfTwo
<1>3. from \in Int /\ from = g + m + 1 - n
  BY <1>1
<1> HIDE DEF from, m, a
<1>4. a \in 1 .. m + 1 /\ m \in a - 1 .. m
  BY <1>1, <1>2
<1>5. \A i \in 1 .. m : i \in a .. m <=> g + i >= from /\ \A r \in {} : g + i <= r
  BY <1>1, <1>2, <1>3
<1>6. LogRange(l, from, {}).entries = SubSeq(l.entries, a, m)
  <2>1. {} \in SUBSET Int
    OBVIOUS
  <2> QED BY <1>3, <1>4, <1>5, <2>1, RangeIs DEF m
<1> QED BY <1>6 DEF LogTail, from, a, m

\* The place of a revision.
LEMMA RevisionAt ==
  ASSUME NEW l, NEW g, Numbering(l, g), NEW i \in 1 .. Len(l.entries)
  PROVE  LET at == {j \in DOMAIN l.entries : l.entries[j].revision = l.entries[i].revision} IN
         at # {} /\ Min(at) = i
<1>1. l.entries \in Seq(LogEntries) /\ g \in Nat /\ Len(l.entries) \in Nat
      /\ DOMAIN l.entries = 1 .. Len(l.entries)
      /\ \A j \in 1 .. Len(l.entries) : l.entries[j].revision = g + j
  BY DEF Numbering
<1> DEFINE at == {j \in DOMAIN l.entries : l.entries[j].revision = l.entries[i].revision}
<1>2. i \in at /\ \A j \in at : j = i
  BY <1>1
<1>3. at = {i}
  BY <1>2
<1>4. i \in Nat
  BY <1>1
<1> HIDE DEF at
<1>5. Min(at) \in at
  <2>1. at \in SUBSET Nat /\ at # {}
    BY <1>3, <1>4
  <2> QED BY <2>1, LeastIs
<1> QED BY <1>3, <1>5 DEF at

\* The context of an entry are those around it, and a range of revisions.
LEMMA ContextIs ==
  ASSUME NEW l, NEW g, Numbering(l, g), NEW i \in 1 .. Len(l.entries), NEW b \in Nat, NEW a \in Nat
  PROVE  LET r == l.entries[i].revision IN
         /\ Context(l, r, b, a) = SubSeq(l.entries, Max2(1, i - b), Min2(i + a, Len(l.entries)))
         /\ Context(l, r, b, a) = LogRange(l, r - b, {r + a}).entries
<1> DEFINE m == Len(l.entries)
           r == l.entries[i].revision
           from == r - b
           to == {r + a}
           lo == Max2(1, i - b)
           hi == Min2(i + a, m)
<1>1. m \in Nat /\ g \in Nat /\ i \in 1 .. m /\ r = g + i
  BY DEF Numbering
<1>2. Context(l, r, b, a) = SubSeq(l.entries, lo, hi)
  BY RevisionAt DEF Context
<1>3. lo = IF 1 >= i - b THEN 1 ELSE i - b
  BY <1>1, LargerOfTwo
<1>4. hi = IF i + a <= m THEN i + a ELSE m
  <2> DEFINE c == i + a
  <2>1. c \in Int /\ m \in Int
    BY <1>1
  <2> HIDE DEF c, m
  <2>2. Min2(c, m) = IF c <= m THEN c ELSE m
    BY <2>1 DEF Min2, Min
  <2> QED BY <2>2 DEF c
<1> HIDE DEF m, lo, hi, r
<1>5. lo \in 1 .. m + 1 /\ hi \in lo - 1 .. m
  BY <1>1, <1>3, <1>4
<1>6. from \in Int /\ to \in SUBSET Int
  BY <1>1
<1>7. \A j \in 1 .. m : j \in lo .. hi <=> g + j >= from /\ \A t \in to : g + j <= t
  BY <1>1, <1>3, <1>4
<1> HIDE DEF from, to
<1>8. LogRange(l, from, to).entries = SubSeq(l.entries, lo, hi)
  BY <1>5, <1>6, <1>7, RangeIs DEF m
<1> QED BY <1>2, <1>8 DEF r, from, to, lo, hi, m

\* The smaller of two numbers.
LEMMA SmallerOfTwo ==
  ASSUME NEW a \in Int, NEW b \in Int
  PROVE  Min2(a, b) = IF a <= b THEN a ELSE b
BY DEF Min2, Min

\* A search finds what evidence for its pattern does, and tells as it does
\* whether there is more; around a match is its context.
LEMMA SearchIs ==
  ASSUME NEW l, NEW g, Numbering(l, g), NEW p, NEW max \in Nat, max > 0
  PROVE  LET found == Search(l, p, max)
             evidence == Evidence(l, {}, {}, {p}, max) IN
         /\ Revisions(found.matches) = Revisions(evidence.entries)
         /\ found.truncated = evidence.truncated
         /\ \A j \in DOMAIN found.matches :
              LET m == found.matches[j] IN
              Context(l, m.revision, SearchContext, SearchContext)
                = m.before \o <<l.entries[m.line_number + 1]>> \o m.after
<1> DEFINE es == l.entries
           n == Len(es)
           A == {i \in DOMAIN es : p \in es[i].has}
           B == {i \in DOMAIN es : InRange(es[i], {}, {}) /\ {p} \subseteq es[i].has}
           hits == Places(es, A)
           h == Len(hits)
           shown == Min2(h, Max2(1, max))
           found == Search(l, p, max)
           evidence == Evidence(l, {}, {}, {p}, max)
<1>1. es \in Seq(LogEntries) /\ n \in Nat /\ DOMAIN es = 1 .. n
      /\ \A i \in 1 .. n : es[i].revision = g + i
  BY DEF Numbering
<1>2. A = B
  BY DEF InRange
<1>3. hits \in Seq(A) /\ A \in SUBSET (1 .. n)
  <2>1. A \in SUBSET (1 .. n)
    BY <1>1
  <2> HIDE DEF A, es
  <2> QED BY <1>1, <2>1, PlacesType DEF n
<1>4. /\ found.matches = [m \in 1 .. shown |-> SearchMatch(l, hits[m])]
      /\ found.truncated = (shown >= max /\ shown < h)
  BY DEF Search
<1>5. /\ evidence.entries = [j \in 1 .. Min2(Len(Places(es, B)), max) |->
           LET e == es[Places(es, B)[j]] IN
           [entry_id |-> Places(es, B)[j] - 1, revision |-> e.revision,
            byte_start |-> e.offset, byte_end |-> e.offset + e.len]]
      /\ evidence.truncated = (Len(Places(es, B)) > max)
  BY DEF Evidence
<1> HIDE DEF A, B, es, n, found, evidence
<1>6. h \in Nat /\ DOMAIN hits = 1 .. h /\ \A m \in 1 .. h : hits[m] \in 1 .. n
  <2>1. h \in Nat /\ DOMAIN hits = 1 .. h /\ \A m \in 1 .. h : hits[m] \in A
    <3> HIDE DEF hits
    <3> QED BY ONLY <1>3
  <2> QED BY <1>3, <2>1
<1> HIDE DEF hits, h
<1>7. Max2(1, max) = max
  BY LargerOfTwo
<1>8. shown = Min2(h, max) /\ shown = IF h <= max THEN h ELSE max
  BY <1>6, <1>7, SmallerOfTwo
<1> HIDE DEF shown
<1>9. /\ evidence.entries = [j \in 1 .. shown |->
           LET e == es[hits[j]] IN
           [entry_id |-> hits[j] - 1, revision |-> e.revision,
            byte_start |-> e.offset, byte_end |-> e.offset + e.len]]
      /\ evidence.truncated = (h > max)
  <2>1. Places(es, B) = hits
    BY <1>2 DEF hits
  <2>2. Len(Places(es, B)) = h
    BY <2>1 DEF h
  <2> QED BY <1>5, <1>8, <2>1, <2>2
<1>10. found.truncated = evidence.truncated
  BY <1>4, <1>6, <1>8, <1>9
<1>11. Revisions(found.matches) = [j \in 1 .. shown |-> es[hits[j]].revision]
  BY <1>4 DEF Revisions, SearchMatch, es
<1>12. Revisions(evidence.entries) = [j \in 1 .. shown |-> es[hits[j]].revision]
  BY <1>9 DEF Revisions
<1>13. ASSUME NEW j \in DOMAIN found.matches
       PROVE  Context(l, found.matches[j].revision, SearchContext, SearchContext)
                = found.matches[j].before \o <<es[found.matches[j].line_number + 1]>>
                  \o found.matches[j].after
  <2> DEFINE i == hits[j]
             c == SearchContext
             lo == Max2(1, i - c)
             hi == Min2(i + c, n)
             a == SubSeq(es, lo, i - 1)
             b == SubSeq(es, i + 1, hi)
  <2>1. j \in 1 .. shown /\ j \in 1 .. h
    BY <1>4, <1>6, <1>8
  <2>2. i \in 1 .. n /\ c \in Nat
    BY <1>6, <2>1, LogBufferAssumption
  <2>3. found.matches[j] = SearchMatch(l, i)
    BY <1>4, <2>1
  <2> HIDE DEF i
  <2>4. found.matches[j] = [revision |-> es[i].revision, line_number |-> i - 1,
                            before |-> a, after |-> b]
    BY <2>3 DEF SearchMatch, es, n
  <2>5. es[found.matches[j].line_number + 1] = es[i]
    BY <2>2, <2>4
  <2>6. Context(l, es[i].revision, c, c) = SubSeq(es, lo, hi)
    <3> HIDE DEF c
    <3> QED BY <2>2, ContextIs DEF es, n
  <2>7. lo = IF 1 >= i - c THEN 1 ELSE i - c
    BY <1>1, <2>2, LargerOfTwo
  <2>8. hi = IF i + c <= n THEN i + c ELSE n
    <3> DEFINE d == i + c
    <3>1. d \in Int /\ n \in Int
      BY <1>1, <2>2
    <3> HIDE DEF d
    <3>2. Min2(d, n) = IF d <= n THEN d ELSE n
      BY <3>1, SmallerOfTwo
    <3> QED BY <3>2 DEF d
  <2> HIDE DEF c, lo, hi
  <2>9. lo \in 1 .. i /\ hi \in i .. n
    BY <1>1, <2>2, <2>7, <2>8
  <2>10. SubSeq(es, lo, hi) = a \o <<es[i]>> \o b
    <3>1. es \in Seq(LogEntries) /\ n = Len(es)
      BY <1>1 DEF n
    <3>2. i \in Int /\ n \in Nat /\ lo \in Int /\ hi \in Int
      BY <1>1, <2>2, <2>9
    <3> HIDE DEF n
    <3>5. lo \in 1 .. Len(es) /\ i \in lo .. Len(es) /\ lo \in 1 .. Len(es) + 1
          /\ i \in lo - 1 .. Len(es) /\ hi \in i .. Len(es)
      BY <1>1, <2>2, <2>9, <3>1
    <3> HIDE DEF n
    <3>3. SubSeq(es, lo, i) = a \o <<es[i]>>
      BY ONLY <3>1, <3>5, SubSeqRecursiveSecond
    <3>4. SubSeq(es, lo, i) \o b = SubSeq(es, lo, hi)
      BY ONLY <3>1, <3>5, ConcatAdjacentSubSeq
    <3> HIDE DEF a, b
    <3> QED BY ONLY <3>3, <3>4
  <2> HIDE DEF a, b
  <2>11. found.matches[j].before = a /\ found.matches[j].after = b
         /\ found.matches[j].revision = es[i].revision
    BY <2>4
  <2> QED BY <2>5, <2>6, <2>10, <2>11 DEF c
<1> QED BY <1>10, <1>11, <1>12, <1>13 DEF found, evidence, es

\* Evidence for everything is all entries, where they start and end.
LEMMA EvidenceIs ==
  ASSUME NEW l, NEW g, Numbering(l, g)
  PROVE  LET n == Len(l.entries)
             all == Evidence(l, {}, {}, {}, n) IN
         /\ ~all.truncated /\ Len(all.entries) = n /\ DOMAIN all.entries = 1 .. n
         /\ \A i \in 1 .. n :
              /\ all.entries[i].byte_start = l.entries[i].offset
              /\ all.entries[i].byte_end = l.entries[i].offset + l.entries[i].len
<1> DEFINE es == l.entries
           n == Len(es)
           B == {i \in DOMAIN es : InRange(es[i], {}, {}) /\ {} \subseteq es[i].has}
           all == Evidence(l, {}, {}, {}, n)
<1>1. es \in Seq(LogEntries) /\ n \in Nat /\ DOMAIN es = 1 .. n
  BY DEF Numbering
<1>2. B = 1 .. n
  BY <1>1 DEF InRange
<1>3. /\ all.entries = [j \in 1 .. Min2(Len(Places(es, B)), n) |->
           LET e == es[Places(es, B)[j]] IN
           [entry_id |-> Places(es, B)[j] - 1, revision |-> e.revision,
            byte_start |-> e.offset, byte_end |-> e.offset + e.len]]
      /\ all.truncated = (Len(Places(es, B)) > n)
  BY DEF Evidence
<1> HIDE DEF es, n, B, all
<1>4. Places(es, B) = Run(1, n)
  <2>1. 1 \in 1 .. Len(es) + 1 /\ n \in 1 - 1 .. Len(es)
    BY <1>1 DEF n
  <2>2. Places(es, 1 .. n) = Run(1, n)
    BY ONLY <1>1, <2>1, IntervalPlaces
  <2> QED BY <1>2, <2>2
<1>5. Len(Run(1, n)) = n /\ \A j \in 1 .. n : Run(1, n)[j] = j
  BY <1>1 DEF Run
<1>6. Min2(n, n) = n
  BY <1>1, SmallerOfTwo
<1>7. all.entries = [j \in 1 .. n |->
        LET e == es[Run(1, n)[j]] IN
        [entry_id |-> Run(1, n)[j] - 1, revision |-> e.revision,
         byte_start |-> e.offset, byte_end |-> e.offset + e.len]]
      /\ ~all.truncated
  <2> DEFINE at == Places(es, B)
  <2>1. at = Run(1, n)
    BY <1>4
  <2>2. Len(at) = n
    BY <1>5, <2>1
  <2>3. Min2(Len(at), n) = n /\ ~(Len(at) > n)
    BY <1>1, <1>6, <2>2
  <2> QED BY <1>3, <2>1, <2>3
<1>8. Len(all.entries) = n /\ DOMAIN all.entries = 1 .. n
  BY <1>1, <1>7
<1>9. ASSUME NEW i \in 1 .. n
      PROVE  all.entries[i].byte_start = es[i].offset
             /\ all.entries[i].byte_end = es[i].offset + es[i].len
  BY <1>5, <1>7
<1> QED BY <1>7, <1>8, <1>9 DEF all, n, es
-----------------------------------------------------------------------------
(* The invariant of the stores.                                            *)

StoresInv ==
  /\ LogKept(log, past.logged) /\ OffsetsKept(log, past.logged)
  /\ ObservationsKept(obs, past.seen)
  /\ DOMAIN past = PastFields

\* The invariant holds at the start.
LEMMA StoresInit == Init => StoresInv
<1> SUFFICES ASSUME Init PROVE StoresInv
  OBVIOUS
<1>1. /\ log = [entries |-> <<>>, total |-> 0, next |-> 1] /\ past.logged = <<>>
      /\ obs = [events |-> <<>>, next |-> 1] /\ past.seen = <<>>
      /\ DOMAIN past = PastFields
  BY DEF Init, NewLog, NewObservations, PastFields
<1>2. LogKept(log, past.logged)
  <2>1. MaxLogBytes \in Nat /\ MaxLogEntries \in Nat
    BY LogBufferAssumption
  <2> QED BY <1>1, <2>1, BytesEmpty DEF LogKept, Gone
<1>3. ObservationsKept(obs, past.seen)
  BY <1>1, LogBufferAssumption DEF ObservationsKept
<1>4. OffsetsKept(log, past.logged)
  BY <1>1 DEF OffsetsKept
<1> QED BY <1>1, <1>2, <1>3, <1>4 DEF StoresInv

\* The runtime's calls leave the stores alone, and theirs keep them.
LEMMA StoresStep == StoresInv /\ [Next]_vars => StoresInv'
<1> SUFFICES ASSUME StoresInv, [Next]_vars PROVE StoresInv'
  OBVIOUS
<1>1. DOMAIN past = PastFields /\ LogKept(log, past.logged) /\ ObservationsKept(obs, past.seen)
      /\ OffsetsKept(log, past.logged)
  BY DEF StoresInv
<1>2. ASSUME log' = log, obs' = obs, past'.logged = past.logged, past'.seen = past.seen,
             DOMAIN past' = DOMAIN past
      PROVE  StoresInv'
  BY <1>1, <1>2 DEF StoresInv
<1>3. ASSUME NEW b \in Reads, PollRead(b) PROVE StoresInv'
  <2>1. past'.logged = past.logged /\ past'.seen = past.seen /\ DOMAIN past' = DOMAIN past
    BY <1>1, <1>3 DEF PollRead, PastFields
  <2> QED BY <1>2, <1>3, <2>1 DEF PollRead
<1>4. ASSUME NEW size \in Sizes, ResizeTerminal(size) PROVE StoresInv'
  <2>1. past'.logged = past.logged /\ past'.seen = past.seen /\ DOMAIN past' = DOMAIN past
    BY <1>1, <1>4 DEF ResizeTerminal, PastFields
  <2> QED BY <1>2, <1>4, <2>1 DEF ResizeTerminal
<1>5. ASSUME NEW v \in Viewers,
             RemoveViewport(v) \/ \E size \in ViewSizes : UpdateViewport(v, size)
      PROVE  StoresInv'
  BY <1>2, <1>5 DEF RemoveViewport, UpdateViewport
<1>6. ASSUME NEW text \in BoundedSeq(Lines, 2), NEW stream \in {"stdout", "stderr"},
             AppendLog(text, stream)
      PROVE  StoresInv'
  <2>1. text \in Seq(Lines)
    <3>1. PICK m \in 0 .. 2 : text \in [1 .. m -> Lines]
      BY DEF BoundedSeq, SeqOf
    <3>2. m \in Nat
      OBVIOUS
    <3> QED BY ONLY <3>1, <3>2
  <2>2. CASE stream = "stdout"
    <3>1. AppendLog(text, "stdout")
      BY <1>6, <2>2
    <3>2. /\ log' = LogAppended(log, text, "stdout") /\ obs' = obs
          /\ past'.logged = FoldLeft(LAMBDA ls, line : Logged(ls, line, "stdout"),
                                     past.logged, text)
          /\ past'.seen = past.seen /\ DOMAIN past' = DOMAIN past
      BY <1>1, <3>1 DEF AppendLog, PastFields
    <3>3. LogKept(log', past'.logged) /\ OffsetsKept(log', past'.logged)
      BY <1>1, <2>1, <3>2, OutKeeps
    <3> QED BY <1>1, <3>2, <3>3 DEF StoresInv
  <2>3. CASE stream = "stderr"
    <3>1. AppendLog(text, "stderr")
      BY <1>6, <2>3
    <3>2. /\ log' = LogAppended(log, text, "stderr") /\ obs' = obs
          /\ past'.logged = FoldLeft(LAMBDA ls, line : Logged(ls, line, "stderr"),
                                     past.logged, text)
          /\ past'.seen = past.seen /\ DOMAIN past' = DOMAIN past
      BY <1>1, <3>1 DEF AppendLog, PastFields
    <3>3. LogKept(log', past'.logged) /\ OffsetsKept(log', past'.logged)
      BY <1>1, <2>1, <3>2, ErrKeeps
    <3> QED BY <1>1, <3>2, <3>3 DEF StoresInv
  <2> QED BY <2>2, <2>3
<1>7. ASSUME NEW session \in Watched, Observe(session) PROVE StoresInv'
  <2>1. /\ obs' = Observed(obs, session) /\ log' = log
        /\ past'.seen = Append(past.seen, session)
        /\ past'.logged = past.logged /\ DOMAIN past' = DOMAIN past
    BY <1>1, <1>7 DEF Observe, PastFields
  <2>2. ObservationsKept(obs', past'.seen)
    BY <1>1, <2>1, ObservedKeeps
  <2> QED BY <1>1, <2>1, <2>2 DEF StoresInv
<1>8. ASSUME UNCHANGED vars PROVE StoresInv'
  BY <1>2, <1>8 DEF vars
<1> QED BY <1>3, <1>4, <1>5, <1>6, <1>7, <1>8 DEF Next

-----------------------------------------------------------------------------
(* The theorems.                                                           *)

\* The invariant of the output: the buffer has the last of the reads, the
\* record is its tail, the screen is as large as the terminal, and nothing
\* panicked on ASCII (runtime.rs and the modules it feeds).
THEOREM OutputInvariant == Spec => [](OutputInv /\ CutsKept)
<1>1. Init => OutputInv /\ CutsKept
  <2>1. Init => CutsKept
    BY DEF Init, NewBuffer, CutsKept
  <2> QED BY <2>1, OutputInit
<1>2. OutputInv /\ CutsKept /\ [Next]_vars => (OutputInv /\ CutsKept)'
  BY OutputStep, CutsStep
<1> QED BY <1>1, <1>2, PTL DEF Spec

\* The invariant of log and observations, for limits of any size.
THEOREM StoresInvariant == Spec => []StoresInv
BY StoresInit, StoresStep, PTL DEF Spec

\* A log and the observation store hold exactly the most recent lines and
\* events within their limits, numbered as they came, whatever they are and
\* however lines are grouped into texts (log_buffer.rs, observation_store.rs).
THEOREM LogsStayRecent == Spec => []LogsAreRecent
<1>1. StoresInv => LogsAreRecent
  <2> SUFFICES ASSUME StoresInv PROVE LogsAreRecent
    OBVIOUS
  <2>1. LogKept(log, past.logged) /\ ObservationsKept(obs, past.seen)
    BY DEF StoresInv
  <2> DEFINE n == Len(past.logged)
             m == Len(log.entries)
             t == SubSeq(past.logged, LinesEvicted + 1, n)
  <2>2. /\ log.entries \in Seq(LogEntries) /\ past.logged \in Seq(LoggedLines)
        /\ log.next = n + 1 /\ log.total = EntryBytes(log.entries) /\ m <= n
        /\ n \in Nat /\ m \in Nat /\ LinesEvicted = n - m /\ Gone(log, past.logged) = n - m
        /\ log.total <= MaxLogBytes /\ m <= MaxLogEntries
    BY <2>1 DEF LogKept, LinesEvicted, Gone
  <2>3. ASSUME NEW i \in 1 .. m
        PROVE  /\ log.entries[i].revision = LinesEvicted + i
               /\ SameLineAs(log.entries[i], past.logged[LinesEvicted + i])
    BY <2>1, <2>2 DEF LogKept
  <2>4. LinesEvicted > 0 => m = MaxLogEntries \/ LoggedBytes(LinesEvicted) > MaxLogBytes
    BY <2>1, <2>2 DEF LogKept, LoggedBytes
  <2> HIDE DEF n, m
  <2>5. /\ t \in Seq(LoggedLines) /\ Len(t) = n - LinesEvicted
        /\ \A i \in 1 .. n - LinesEvicted : t[i] = past.logged[i + LinesEvicted]
    <3>1. past.logged \in Seq(LoggedLines) /\ n = Len(past.logged) /\ LinesEvicted \in 0 .. n
      BY <2>2 DEF n
    <3> QED BY ONLY <3>1, RestOf
  <2> HIDE DEF t
  <2>6. log.total = LoggedBytes(LinesEvicted + 1)
    <3>1. Len(log.entries) = Len(t)
      BY <2>2, <2>5 DEF m
    <3>2. ASSUME NEW i \in 1 .. Len(log.entries) PROVE log.entries[i].len = t[i].len
      <4>1. i \in 1 .. m /\ i \in 1 .. n - LinesEvicted /\ i + LinesEvicted = LinesEvicted + i
        BY <2>2 DEF m
      <4> QED BY <2>3, <2>5, <4>1 DEF SameLineAs
    <3>3. EntryBytes(log.entries) = EntryBytes(t)
      BY <2>2, <2>5, <3>1, <3>2, BytesSame
    <3> QED BY <2>2, <3>3 DEF t, LoggedBytes, n
  <2>7. /\ log.next = Len(past.logged) + 1
        /\ \A i \in DOMAIN log.entries :
             LET e == log.entries[i] l == past.logged[LinesEvicted + i] IN
             /\ e.revision = LinesEvicted + i
             /\ e.len = l.len /\ e.has = l.has /\ e.stream = l.stream
        /\ Len(log.entries) <= MaxLogEntries
        /\ LinesEvicted > 0 =>
             Len(log.entries) = MaxLogEntries \/ LoggedBytes(LinesEvicted) > MaxLogBytes
    <3>1. log.next = Len(past.logged) + 1 /\ Len(log.entries) <= MaxLogEntries
      BY <2>2 DEF n, m
    <3>2. DOMAIN log.entries = 1 .. m
      BY <2>2 DEF m
    <3>3. ASSUME NEW i \in DOMAIN log.entries
          PROVE  LET e == log.entries[i] l == past.logged[LinesEvicted + i] IN
                 /\ e.revision = LinesEvicted + i
                 /\ e.len = l.len /\ e.has = l.has /\ e.stream = l.stream
      BY <2>3, <3>2 DEF SameLineAs
    <3> QED BY <2>4, <3>1, <3>3 DEF m
  <2> DEFINE c == Len(obs.events)
             g == Len(past.seen)
  <2>8. /\ obs.events \in Seq(Events) /\ past.seen \in Seq(Watched)
        /\ obs.next = g + 1 /\ c <= g /\ c <= MaxObservations
        /\ (g > c => c = MaxObservations)
        /\ \A i \in 1 .. c :
             obs.events[i] = [event_id |-> g - c + i, session |-> past.seen[g - c + i]]
    BY <2>1 DEF ObservationsKept
  <2>9. DOMAIN obs.events = 1 .. c /\ c \in Nat /\ g \in Nat /\ EventsEvicted = g - c
    BY <2>8 DEF EventsEvicted
  <2>10. obs.events # <<>> => Head(NewestFirst(obs)).event_id = obs.next - 1
    <3> SUFFICES ASSUME obs.events # <<>> PROVE Head(NewestFirst(obs)).event_id = obs.next - 1
      OBVIOUS
    <3>1. c > 0
      BY <2>8
    <3>2. Head(NewestFirst(obs)) = obs.events[c]
      BY <2>8, <3>1 DEF NewestFirst, Reverse
    <3> HIDE DEF c, g
    <3>3. c \in 1 .. c /\ g - c + c = obs.next - 1
      BY <2>8, <2>9, <3>1
    <3>4. obs.events[c].event_id = g - c + c
      <4>1. \A i \in 1 .. c :
              obs.events[i] = [event_id |-> g - c + i, session |-> past.seen[g - c + i]]
        BY <2>8
      <4>2. obs.events[c] = [event_id |-> g - c + c, session |-> past.seen[g - c + c]]
        BY ONLY <3>3, <4>1
      <4> QED BY ONLY <4>2
    <3> QED BY <3>2, <3>3, <3>4
  <2> HIDE DEF c, g
  <2>11. /\ EventsEvicted > 0 => c = MaxObservations
         /\ \A i \in DOMAIN obs.events :
              obs.events[i] = [event_id |-> EventsEvicted + i,
                               session |-> past.seen[EventsEvicted + i]]
    <3>1. EventsEvicted > 0 => g > c
      BY <2>9
    <3> QED BY <2>8, <2>9, <3>1
  <2>12. Len(obs.events) <= MaxObservations /\ (EventsEvicted > 0 => Len(obs.events) = MaxObservations)
    BY <2>8, <2>11 DEF c
  <2> QED BY <2>2, <2>6, <2>7, <2>10, <2>11, <2>12 DEF LogsAreRecent
<1> QED BY <1>1, StoresInvariant, PTL

\* Tails, contexts, searches and evidence of a log agree with each other, and
\* the byte ranges of evidence follow on each other until the first eviction
\* (log_buffer.rs, evidence.rs).
THEOREM LogQueriesAgree == Spec => []LogQueriesExact
<1>1. StoresInv => LogQueriesExact
  <2> SUFFICES ASSUME StoresInv PROVE LogQueriesExact
    OBVIOUS
  <2> DEFINE g == LinesEvicted
             m == Len(log.entries)
             all == Evidence(log, {}, {}, {}, m)
  <2>1. LogKept(log, past.logged) /\ OffsetsKept(log, past.logged)
    BY DEF StoresInv
  <2>2. Numbering(log, g) /\ log.next = g + m + 1 /\ g = Gone(log, past.logged)
    BY <2>1 DEF LogKept, Numbering, LinesEvicted, Gone
  <2> HIDE DEF g
  <2>3. m \in Nat /\ DOMAIN log.entries = 1 .. m
    BY <2>2 DEF Numbering
  <2>4. Bounds \subseteq Nat /\ \A n \in Bounds \ {0} : n > 0
    BY DEF Bounds
  <2>5. \A n \in Bounds : LogTail(log, n) = LogRange(log, log.next - n, {}).entries
    BY <2>2, <2>4, TailIsRange
  <2>6. \A i \in DOMAIN log.entries, b \in Bounds, a \in Bounds :
          LET r == log.entries[i].revision IN
          Context(log, r, b, a) = LogRange(log, r - b, {r + a}).entries
    <3> SUFFICES ASSUME NEW i \in DOMAIN log.entries, NEW b \in Bounds, NEW a \in Bounds
                 PROVE  LET r == log.entries[i].revision IN
                        Context(log, r, b, a) = LogRange(log, r - b, {r + a}).entries
      OBVIOUS
    <3>1. i \in 1 .. Len(log.entries) /\ b \in Nat /\ a \in Nat
      BY <2>3, <2>4
    <3>2. Numbering(log, g) /\ i \in 1 .. Len(log.entries)
      BY <2>2, <3>1
    <3> QED BY ONLY <3>1, <3>2, ContextIs
  <2>7. ASSUME NEW p \in Patterns, NEW max \in Bounds \ {0}
        PROVE  LET found == Search(log, p, max)
                   evidence == Evidence(log, {}, {}, {p}, max) IN
               /\ Revisions(found.matches) = Revisions(evidence.entries)
               /\ found.truncated = evidence.truncated
               /\ \A j \in DOMAIN found.matches :
                    LET e == found.matches[j] IN
                    Context(log, e.revision, SearchContext, SearchContext)
                      = e.before \o <<log.entries[e.line_number + 1]>> \o e.after
    <3>1. max \in Nat /\ max > 0
      BY <2>4
    <3> QED BY ONLY <2>2, <3>1, SearchIs
  <2>8. /\ ~all.truncated /\ Len(all.entries) = m /\ DOMAIN all.entries = 1 .. m
        /\ \A i \in 1 .. m :
             /\ all.entries[i].byte_start = log.entries[i].offset
             /\ all.entries[i].byte_end = log.entries[i].offset + log.entries[i].len
    BY <2>2, EvidenceIs
  <2>9. /\ \A i \in 1 .. m : log.entries[i].offset <= MaxLogBytes
        /\ g = 0 =>
             /\ \A i \in 1 .. m - 1 :
                  log.entries[i].offset + log.entries[i].len = log.entries[i + 1].offset
             /\ m > 0 => /\ log.entries[1].offset = 0
                         /\ log.entries[m].offset + log.entries[m].len = log.total
    BY <2>1, <2>2 DEF OffsetsKept
  <2> HIDE DEF m, all
  <2>10. \A i \in DOMAIN all.entries : all.entries[i].byte_start <= MaxLogBytes
    BY <2>8, <2>9
  <2>11. ASSUME g = 0
         PROVE  /\ \A i \in 1 .. Len(all.entries) - 1 :
                     all.entries[i].byte_end = all.entries[i + 1].byte_start
                /\ all.entries # <<>> => /\ all.entries[1].byte_start = 0
                                         /\ Last(all.entries).byte_end = log.total
    <3>1. ASSUME NEW i \in 1 .. m - 1
          PROVE  all.entries[i].byte_end = all.entries[i + 1].byte_start
      <4>1. i \in 1 .. m /\ i + 1 \in 1 .. m
        BY <2>3
      <4> QED BY <2>8, <2>9, <2>11, <4>1
    <3>2. ASSUME all.entries # <<>>
          PROVE  all.entries[1].byte_start = 0 /\ Last(all.entries).byte_end = log.total
      <4>1. m # 0
        <5>1. ASSUME m = 0 PROVE all.entries = <<>>
          BY <2>2, <2>8, <5>1
        <5> QED BY <3>2, <5>1
      <4>2. m > 0 /\ 1 \in 1 .. m /\ m \in 1 .. m
        BY <2>3, <4>1
      <4>3. Last(all.entries) = all.entries[m]
        BY <2>8 DEF Last
      <4> QED BY <2>8, <2>9, <2>11, <4>2, <4>3
    <3> QED BY <2>8, <3>1, <3>2
  <2>12. /\ ~Evidence(log, {}, {}, {}, Len(log.entries)).truncated
         /\ \A i \in DOMAIN all.entries : all.entries[i].byte_start <= MaxLogBytes
         /\ LinesEvicted = 0 =>
              /\ \A i \in 1 .. Len(all.entries) - 1 :
                   all.entries[i].byte_end = all.entries[i + 1].byte_start
              /\ all.entries # <<>> => /\ all.entries[1].byte_start = 0
                                       /\ Last(all.entries).byte_end = log.total
    BY <2>8, <2>10, <2>11 DEF g, all, m
  <2> QED BY <2>5, <2>6, <2>7, <2>12 DEF LogQueriesExact, all, m
<1> QED BY <1>1, StoresInvariant, PTL

\* The stores keep their types whatever is read, logged, observed and
\* resized; the screen has as many lines as the terminal has rows, the
\* scrollback and the record's tail keep to their limits.
THEOREM TextTypes == Spec => []TextTypeOK
<1>1. StoresInv => log.total \in Nat /\ log.next \in Nat /\ obs.next \in Nat
  BY DEF StoresInv, LogKept, ObservationsKept
<1>2. OutputInv /\ StoresInv => TextTypeOK
  BY <1>1, OutputGives DEF TextTypeOK
<1> QED BY <1>2, OutputInvariant, StoresInvariant, PTL

\* The handling of output or of a new size panics only after output that is
\* not ASCII or under a size without rows or columns (terminal.rs,
\* output_buffer.rs).
THEOREM PanicsHaveCause == Spec => []PanicHasCause
<1>1. OutputInv => PanicHasCause
  BY OutputGives
<1> QED BY <1>1, OutputInvariant, PTL

\* The buffer has the longest run of last chunks that fits, its tails and
\* slices are exactly what they say they are, and the record of a session is
\* the end of what its reads were decoded to, which is the output decoded as a
\* whole only if no read split a character; for a buffer, a tail and reads of
\* any size (output_buffer.rs, and poll_once of runtime.rs).
THEOREM OutputStaysRecent == Spec => []RecentOutput
<1>1. OutputInv /\ CutsKept => RecentOutput
  BY OutputGives, QueriesAre, RecordIs DEF RecentOutput
<1> QED BY <1>1, OutputInvariant, PTL

\* The invariant of the screen: the terminal shows the end of the paper, for a
\* scrollback, sizes and ASCII output of any length (terminal.rs).
THEOREM PaperInvariant == Spec => []PaperInv
<1>1. Init => PaperInv
  BY PaperInit
<1>2. OutputInv /\ PaperInv /\ [Next]_vars => PaperInv'
  BY PaperStep
<1> QED BY <1>1, <1>2, OutputInvariant, PTL DEF Spec

\* With ASCII output, until the terminal shrinks, scrollback and screen show
\* the last lines of the paper with the cursor in its place, lines are given up
\* only by a full scrollback, and a viewport that is not lower than the screen
\* has the cursor's line where it says it is (append, resize and
\* viewport_snapshot of terminal.rs).
THEOREM ScreenStaysPaper == Spec => []ScreenIsPaper
<1>1. OutputInv /\ PaperInv => ScreenIsPaper
  BY ScreenIs
<1> QED BY <1>1, OutputInvariant, PaperInvariant, PTL
=============================================================================

---------------------------- MODULE OutputBuffer ----------------------------
(***************************************************************************)
(* SessionOutputBuffer of session/output_buffer.rs: a queue of numbered    *)
(* chunks that forgets the oldest ones. Operators on the record            *)
(* [chunks, size, next]; the module that uses them makes them actions.     *)
(***************************************************************************)
EXTENDS Text, FiniteSetsExt

CONSTANT Capacity  \* capacity_bytes
ASSUME OutputBufferAssumption == Capacity \in Nat \ {0}

NewBuffer == [chunks |-> <<>>, size |-> 0, next |-> 0]

\* A string above the capacity is cut to its last bytes.
TruncationPanics(s) == ByteLen(s) > Capacity /\ ~CutsClean(s, Capacity)
Truncated(s) == IF ByteLen(s) > Capacity THEN LastBytes(s, Capacity) ELSE s

DataBytes(chunks) == FoldLeft(LAMBDA sum, c : sum + ByteLen(c.data), 0, chunks)

\* evict_if_needed drops chunks from the front until the rest fits.
\* (mutant) the last chunk that does not fit stays
EvictedLate(b) ==
  LET left(k) == b.size - DataBytes(SubSeq(b.chunks, 1, k))
      k == Min({j \in 0 .. Len(b.chunks) : left(j) <= Capacity + 1}) IN
  [b EXCEPT !.chunks = SubSeq(@, k + 1, Len(@)), !.size = left(k)]
Evicted(b) ==
  LET left(k) == b.size - DataBytes(SubSeq(b.chunks, 1, k))
      k == Min({j \in 0 .. Len(b.chunks) : left(j) <= Capacity \/ j = Len(b.chunks)}) IN
  [b EXCEPT !.chunks = SubSeq(@, k + 1, Len(@)), !.size = left(k)]

\* append, where it does not panic.
Appended(b, s) ==
  IF s = <<>> THEN b
  ELSE LET data == Truncated(s) IN
       Evicted([chunks |-> Append(b.chunks, [seq |-> b.next, data |-> data]),
                size   |-> b.size + ByteLen(data),
                next   |-> b.next + 1])

\* The number of the last chunk, if there is one.
LatestSequence(b) == IF b.chunks = <<>> THEN {} ELSE {Last(b.chunks).seq}

\* OutputSlice of the chunks from the i-th on; the default slice has number 0
\* too, so its range does not tell it from a slice of chunk 0.
NoSlice == [seq_start |-> 0, seq_end |-> 0, data |-> <<>>]
SliceAt(b, i) ==
  [seq_start |-> b.chunks[i].seq, seq_end |-> Last(b.chunks).seq,
   data |-> FlattenSeq([j \in 1 .. Len(b.chunks) - i + 1 |-> b.chunks[i + j - 1].data])]

\* tail goes back from the last chunk until it has max bytes, and cuts the
\* first chunk it took.
TailFrom(b, max) ==
  LET taken == [i \in DOMAIN b.chunks |-> Min({ByteLen(b.chunks[i].data), max})]
      collected(i) == FoldLeft(LAMBDA sum, n : sum + n, 0, SubSeq(taken, i, Len(taken))) IN
  Max({1} \cup {i \in DOMAIN b.chunks : collected(i) >= max})
TailPanics(b, max) ==
  /\ b.chunks # <<>> /\ max # 0
  /\ LET s == SliceAt(b, TailFrom(b, max)).data IN
     ByteLen(s) > max /\ ~CutsClean(s, max)
BufferTail(b, max) ==
  IF b.chunks = <<>> \/ max = 0 THEN NoSlice
  ELSE LET s == SliceAt(b, TailFrom(b, max)) IN
       [s EXCEPT !.data = IF ByteLen(@) > max THEN LastBytes(@, max) ELSE @]

SliceFromSequence(b, first) ==
  LET from == {i \in DOMAIN b.chunks : b.chunks[i].seq >= first} IN
  IF from = {} THEN NoSlice ELSE SliceAt(b, Min(from))
=============================================================================

-------------------------------- MODULE Text --------------------------------
(***************************************************************************)
(* Rust strings, as far as the session layer depends on them. A string is  *)
(* a sequence of characters, but it is measured and cut in bytes, and a    *)
(* cut or a replacement inside a character panics.                         *)
(*                                                                         *)
(* A character is [k, n]: its kind and, to tell characters of one kind     *)
(* apart, the number of the output byte it comes from.                     *)
(***************************************************************************)
EXTENDS Integers, Sequences, SequencesExt

\* What a child writes: plain ASCII characters, the control characters the
\* multiplexer knows, and the two bytes of a two-byte character.
Bytes == {"x", "nl", "cr", "tab", "esc", "lead", "cont"}
\* What strings hold: "wide" is that two-byte character, "bad" is U+FFFD,
\* which has three bytes, "sp" a blank.
Kinds == {"x", "nl", "cr", "tab", "esc", "wide", "bad", "sp"}
Blank == [k |-> "sp", n |-> 0]

Width(c) == CASE c.k = "wide" -> 2 [] c.k = "bad" -> 3 [] OTHER -> 1

\* len()
ByteLen(s) == FoldLeft(LAMBDA sum, c : sum + Width(c), 0, s)

\* &s[len - max ..]: the characters of the last max bytes, for a string that
\* is longer. CutsClean says whether the cut is at a character's boundary.
CutsClean(s, max) == \E t \in Suffixes(s) : ByteLen(t) = max
LastBytes(s, max) == CHOOSE t \in Suffixes(s) : ByteLen(t) = max

\* String::from_utf8_lossy on the bytes of one read. A byte of a character
\* whose other byte is not beside it becomes U+FFFD.
Lossy(b) ==
  FlattenSeq([i \in DOMAIN b |->
    LET paired(j) == j \in DOMAIN b /\ j + 1 \in DOMAIN b
                     /\ b[j].k = "lead" /\ b[j + 1].k = "cont" IN
    CASE b[i].k = "lead" -> <<[b[i] EXCEPT !.k = IF paired(i) THEN "wide" ELSE "bad"]>>
      [] b[i].k = "cont" -> IF paired(i - 1) THEN <<>> ELSE <<[b[i] EXCEPT !.k = "bad"]>>
      [] OTHER -> <<b[i]>>])
=============================================================================

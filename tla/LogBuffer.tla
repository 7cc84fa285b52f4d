----------------------------- MODULE LogBuffer -----------------------------
(***************************************************************************)
(* What the service keeps of sessions that are only logged: LogBuffer of   *)
(* service/log_buffer.rs with its queries, assemble_evidence of            *)
(* service/evidence.rs, and ObservationStore of                            *)
(* service/observation_store.rs. Operators on records.                     *)
(*                                                                         *)
(* A line is [len, has]: its bytes, and the patterns it contains when case *)
(* is ignored. Time stamps and metadata are left out.                      *)
(***************************************************************************)
EXTENDS Integers, Sequences, SequencesExt, FiniteSetsExt

CONSTANTS
  MaxLogBytes, MaxLogEntries,  \* max_bytes and max_entries
  SearchContext,               \* lines of context around a match: 3
  MaxObservations              \* max_events: 1000
ASSUME LogBufferAssumption ==
  {MaxLogBytes, MaxLogEntries, SearchContext, MaxObservations} \subseteq Nat

NewLog == [entries |-> <<>>, total |-> 0, next |-> 1]

EntryBytes(entries) == FoldLeft(LAMBDA sum, e : sum + e.len, 0, entries)

\* evict_if_needed, after each line. (mutant first: entries are not counted)
LogEvictedByBytes(log) ==
  LET left(k) == log.total - EntryBytes(SubSeq(log.entries, 1, k))
      k == Min({j \in 0 .. Len(log.entries) : left(j) <= MaxLogBytes}) IN
  [log EXCEPT !.entries = SubSeq(@, k + 1, Len(@)), !.total = left(k)]
LogEvicted(log) ==
  LET left(k) == log.total - EntryBytes(SubSeq(log.entries, 1, k))
      k == Min({j \in 0 .. Len(log.entries) :
                  Len(log.entries) - j <= MaxLogEntries /\ left(j) <= MaxLogBytes}) IN
  [log EXCEPT !.entries = SubSeq(@, k + 1, Len(@)), !.total = left(k)]

\* append: the lines of a text. What follows the last newline is a line too,
\* even if the text was cut there. The offset is taken from total_bytes, which
\* eviction lowers.
LineLogged(log, line, stream) ==
  IF line.len = 0 THEN log
  ELSE LogEvicted([entries |-> Append(log.entries,
                     [revision |-> log.next, stream |-> stream, len |-> line.len,
                      has |-> line.has, offset |-> log.total]),
                   total   |-> log.total + line.len,
                   next    |-> log.next + 1])
LogAppended(log, lines, stream) ==
  FoldLeft(LAMBDA l, line : LineLogged(l, line, stream), log, lines)

-----------------------------------------------------------------------------
(* Queries                                                                 *)

Min2(a, b) == Min({a, b})
Max2(a, b) == Max({a, b})

\* A filter: the places of a sequence that are asked for, in order, and the
\* elements there.
Places(seq, asked) == FlattenSeq([i \in DOMAIN seq |-> IF i \in asked THEN <<i>> ELSE <<>>])
Filtered(seq, asked) ==
  LET at == Places(seq, asked) IN [j \in DOMAIN at |-> seq[at[j]]]

LogTail(log, count) ==
  SubSeq(log.entries, Max2(1, Len(log.entries) - count + 1), Len(log.entries))

\* An Option is a set of at most one element.
InRange(e, from, to) ==
  /\ \A r \in from : e.revision >= r
  /\ \A r \in to : e.revision <= r
LogRange(log, from, to) ==
  [entries |-> Filtered(log.entries,
                        {i \in DOMAIN log.entries : InRange(log.entries[i], {from}, to)}),
   total_bytes |-> log.total]

\* Matches are pushed before the limit is looked at, so there is one even if
\* max is 0.
SearchMatch(log, i) ==
  [revision |-> log.entries[i].revision, line_number |-> i - 1,
   before |-> SubSeq(log.entries, Max2(1, i - SearchContext), i - 1),
   after |-> SubSeq(log.entries, i + 1, Min2(i + SearchContext, Len(log.entries)))]
Search(log, pattern, max) ==
  LET hits == Places(log.entries, {i \in DOMAIN log.entries : pattern \in log.entries[i].has})
      shown == Min2(Len(hits), Max2(1, max)) IN
  [matches |-> [m \in 1 .. shown |-> SearchMatch(log, hits[m])],
   truncated |-> shown >= max /\ shown < Len(hits)]

\* (mutant) the line itself counts as one after it
ContextShort(log, revision, before, after) ==
  LET at == {i \in DOMAIN log.entries : log.entries[i].revision = revision} IN
  IF at = {} THEN <<>>
  ELSE LET i == Min(at) IN
       SubSeq(log.entries, Max2(1, i - before), Min2(i + after - 1, Len(log.entries)))
Context(log, revision, before, after) ==
  LET at == {i \in DOMAIN log.entries : log.entries[i].revision = revision} IN
  IF at = {} THEN <<>>
  ELSE LET i == Min(at) IN
       SubSeq(log.entries, Max2(1, i - before), Min2(i + after, Len(log.entries)))

\* assemble_evidence over the entries of a log. The id of an entry is its
\* place among the entries that are kept.
Evidence(log, from, to, pattern, max) ==
  LET asked == {i \in DOMAIN log.entries :
                  InRange(log.entries[i], from, to) /\ pattern \subseteq log.entries[i].has}
      found == Places(log.entries, asked) IN
  [entries |-> [j \in 1 .. Min2(Len(found), max) |->
                  LET e == log.entries[found[j]] IN
                  [entry_id |-> found[j] - 1, revision |-> e.revision,
                   byte_start |-> e.offset, byte_end |-> e.offset + e.len]],
   truncated |-> Len(found) > max]

-----------------------------------------------------------------------------
(* Observations                                                            *)

NewObservations == [events |-> <<>>, next |-> 1]
Observed(obs, session) ==
  LET all == Append(obs.events, [event_id |-> obs.next, session |-> session]) IN
  [events |-> SubSeq(all, Max2(1, Len(all) - MaxObservations + 1), Len(all)),
   next |-> obs.next + 1]
NewestFirst(obs) == Reverse(obs.events)
ListForSession(obs, session) ==
  Filtered(obs.events, {i \in DOMAIN obs.events : obs.events[i].session = session})
=============================================================================

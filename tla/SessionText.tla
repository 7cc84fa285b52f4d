---------------------------- MODULE SessionText ----------------------------
(***************************************************************************)
(* What becomes of the output of one session of the service: SessionRuntime *)
(* turns what it read into text and hands it to the output buffer, the     *)
(* terminal multiplexer and the session record; a session that is only     *)
(* logged has a LogBuffer instead, and observations are kept for all.      *)
(*                                                                         *)
(* These stores share no state. kind chooses in Init which of them a       *)
(* behaviour is about, so that their states are not multiplied. The life   *)
(* of the process behind the runtime is SessionService's.                  *)
(***************************************************************************)
EXTENDS OutputBuffer, Terminal, LogBuffer

CONSTANTS
  TailBytes,     \* how much of the output the record keeps: 64 KiB
  FirstSize, Sizes,         \* terminal sizes: at the start, and set later
  Viewers, ViewSizes,       \* viewports
  Reads,         \* what a read may return: sequences of Bytes
  Lines, Patterns,          \* lines that may be logged, and their patterns
  Watched,       \* sessions that are observed
  MaxReads, MaxResizes, MaxTexts, MaxEvents  \* bounds
ASSUME TextAssumption ==
  /\ {TailBytes, MaxReads, MaxResizes, MaxTexts, MaxEvents} \subseteq Nat
  /\ {FirstSize} \cup Sizes \cup ViewSizes \subseteq [columns : Nat, rows : Nat]
  /\ Reads \subseteq Seq(Bytes) \ {<<>>}
  /\ Lines \subseteq [len : Nat, has : SUBSET Patterns]

VARIABLES
  kind,    \* "pty", "log" or "audit"
  buf,     \* output_buffer
  mux,     \* terminal_multiplexer
  views,   \* its viewports
  record,  \* current_sequence and recent_terminal_tail of the SessionRecord
  ok,      \* no call panicked
  log,     \* log_buffer
  obs,     \* observation_store
  past     \* what was read, logged and observed, and the sizes set (history)

vars == <<kind, buf, mux, views, record, ok, log, obs, past>>
runtimeVars == <<buf, mux, views, record, ok>>

\* An endless sheet with the same cursor: what the multiplexer shows a part of.
NewPaper(size) == [lines |-> <<>>, row |-> 0, col |-> 0, columns |-> size.columns]

Init ==
  /\ kind \in {"pty", "log", "audit"}
  /\ buf = NewBuffer /\ mux = NewTerminal(FirstSize)
  /\ views = << >> /\ ok = TRUE
  /\ record = [sequence |-> 0, tail |-> <<>>]
  /\ log = NewLog /\ obs = NewObservations
  /\ past = [reads |-> <<>>, resizes |-> 0, sizes |-> {FirstSize}, shrunk |-> FALSE,
             paper |-> NewPaper(FirstSize), texts |-> 0, logged |-> <<>>, seen |-> <<>>]

-----------------------------------------------------------------------------
(* The paper.                                                              *)

Cell(line, i) == IF i \in DOMAIN line THEN line[i] ELSE Blank
Written(line, i, ch) ==
  [j \in 1 .. Max2(Len(line), i) |-> IF j = i THEN ch ELSE Cell(line, j)]
PaperPut(p, ch) ==
  IF p.col >= p.columns THEN p
  ELSE LET line(r) == IF r \in DOMAIN p.lines THEN p.lines[r] ELSE <<>> IN
       [p EXCEPT !.col = @ + 1,
                 !.lines = [r \in 1 .. Max2(Len(@), p.row + 1) |->
                   IF r = p.row + 1 THEN Written(line(r), p.col + 1, ch) ELSE line(r)]]
PaperFed(p, ch) ==
  CASE ch.k = "nl"  -> [p EXCEPT !.row = @ + 1, !.col = 0]
    [] ch.k = "cr"  -> [p EXCEPT !.col = 0]
    [] ch.k = "tab" -> [p EXCEPT !.col = Min2((@ \div TabStop + 1) * TabStop, p.columns - 1)]
    [] ch.k = "esc" -> p
    [] OTHER        -> PaperPut(p, ch)

-----------------------------------------------------------------------------
(* The runtime.                                                            *)

Numbered(b) ==
  [i \in DOMAIN b |-> [k |-> b[i], n |-> i + Len(FlattenSeq(past.reads))]]

\* One turn of poll_once's loop that read the bytes b. Each of the three may
\* panic: the buffer before it changed anything, the multiplexer before the
\* record is written, the tail between the record's two fields.
PollRead(b) ==
  /\ kind = "pty" /\ ok /\ Len(past.reads) < MaxReads
  /\ LET text == Lossy(Numbered(b)) IN
     /\ IF TruncationPanics(text)
        THEN ok' = FALSE /\ UNCHANGED <<buf, mux, record>>
        ELSE /\ buf' = Appended(buf, text)
             /\ mux' = TerminalAppended(mux, text)
             /\ ok' = (mux'.ok /\ ~TailPanics(buf', TailBytes))
             /\ record' = [sequence |-> IF mux'.ok THEN buf'.next - 1 ELSE record.sequence,
                           tail |-> IF ok' THEN BufferTail(buf', TailBytes).data ELSE record.tail]
     /\ past' = [past EXCEPT !.reads = Append(@, Numbered(b)),
                             !.paper = FoldLeft(PaperFed, @, text)]
  /\ UNCHANGED <<kind, views, log, obs>>

\* resize_terminal, when the pty takes the size.
ResizeTerminal(size) ==
  /\ kind = "pty" /\ ok /\ past.resizes < MaxResizes
  /\ mux' = Resized(mux, size) /\ ok' = mux'.ok
  /\ past' = [past EXCEPT !.resizes = @ + 1, !.sizes = @ \cup {size},
                          !.shrunk = @ \/ size.rows < mux.size.rows
                                       \/ size.columns < mux.size.columns,
                          !.paper.columns = size.columns]
  /\ UNCHANGED <<kind, buf, views, record, log, obs>>

\* get_snapshot of SessionManager: what others see of the session. The screen,
\* the semantic change and the signals are never filled.
Snapshot ==
  [current_sequence |-> record.sequence, recent_terminal_tail |-> record.tail,
   terminal_screen |-> {}]

UpdateViewport(v, size) ==
  /\ kind = "pty" /\ ok
  /\ views' = [w \in DOMAIN views \cup {v} |-> IF w = v THEN size ELSE views[w]]
  /\ UNCHANGED <<kind, buf, mux, record, ok, log, obs, past>>
RemoveViewport(v) ==
  /\ kind = "pty" /\ ok
  /\ views' = [w \in DOMAIN views \ {v} |-> views[w]]
  /\ UNCHANGED <<kind, buf, mux, record, ok, log, obs, past>>

-----------------------------------------------------------------------------
(* Logged sessions and observations.                                       *)

\* All lines but empty ones count as logged (history).
Logged(lines, line, stream) ==
  IF line.len = 0 THEN lines
  ELSE Append(lines, [len |-> line.len, has |-> line.has, stream |-> stream])

\* append_stdout, append_stderr.
AppendLog(text, stream) ==
  /\ kind = "log" /\ past.texts < MaxTexts
  /\ log' = LogAppended(log, text, stream)
  /\ past' = [past EXCEPT !.texts = @ + 1,
       !.logged = FoldLeft(LAMBDA lines, line : Logged(lines, line, stream), @, text)]
  /\ UNCHANGED <<kind, runtimeVars, obs>>

Observe(session) ==
  /\ kind = "audit" /\ Len(past.seen) < MaxEvents
  /\ obs' = Observed(obs, session)
  /\ past' = [past EXCEPT !.seen = Append(@, session)]
  /\ UNCHANGED <<kind, runtimeVars, log>>

Next ==
  \/ \E b \in Reads : PollRead(b)
  \/ \E size \in Sizes : ResizeTerminal(size)
  \/ \E v \in Viewers : RemoveViewport(v) \/ \E size \in ViewSizes : UpdateViewport(v, size)
  \/ \E text \in BoundedSeq(Lines, 2), stream \in {"stdout", "stderr"} : AppendLog(text, stream)
  \/ \E s \in Watched : Observe(s)

Spec == Init /\ [][Next]_vars

-----------------------------------------------------------------------------
(* Properties                                                              *)

Chars == [k : Kinds, n : Nat]

\* The types; the screen has as many lines as the terminal has rows, and the
\* scrollback keeps to its limit.
TextTypeOK ==
  /\ kind \in {"pty", "log", "audit"} /\ ok \in BOOLEAN
  /\ buf.next \in Nat /\ buf.size \in Nat
  /\ \A i \in DOMAIN buf.chunks : buf.chunks[i].data \in Seq(Chars) \ {<<>>}
  /\ mux.size \in {FirstSize} \cup Sizes /\ Len(mux.screen) = mux.size.rows
  /\ mux.scrollback \in Seq(Seq(Chars)) /\ Len(mux.scrollback) <= MaxScrollback
  /\ mux.row \in Nat /\ mux.col \in Nat /\ mux.revision \in Nat
  /\ DOMAIN views \subseteq Viewers /\ \A v \in DOMAIN views : views[v] \in ViewSizes
  /\ record.sequence \in Nat /\ ByteLen(record.tail) <= TailBytes
  /\ log.total \in Nat /\ log.next \in Nat /\ obs.next \in Nat

\* Everything the child wrote and the buffer accepted, chunk by chunk.
History == [i \in 1 .. buf.next |-> Truncated(Lossy(past.reads[i]))]
FirstKept == buf.next - Len(buf.chunks)
From(i) == FlattenSeq(SubSeq(History, i, buf.next))

\* The buffer holds the longest run of last chunks that fits, numbered as
\* they came.
BufferIsRecent ==
  /\ buf.next \in {Len(past.reads)} \cup (IF ok THEN {} ELSE {Len(past.reads) - 1})
  /\ FirstKept >= 0
  /\ \A i \in DOMAIN buf.chunks :
       buf.chunks[i] = [seq |-> FirstKept + i - 1, data |-> History[FirstKept + i]]
  /\ buf.size = ByteLen(From(FirstKept + 1)) /\ buf.size <= Capacity
  /\ FirstKept > 0 => ByteLen(From(FirstKept)) > Capacity

\* A tail is the end of what is kept, as long as asked for, and its numbers
\* are those of the chunks it has a part of; a slice is all from a number on.
QueriesExact ==
  /\ \A max \in 1 .. Capacity + 1 : ~TailPanics(buf, max) =>
       LET t == BufferTail(buf, max) IN
       /\ ByteLen(t.data) = Min2(max, buf.size)
       /\ IsSuffix(t.data, From(FirstKept + 1))
       /\ buf.size > 0 => /\ ByteLen(From(t.seq_start + 1)) >= ByteLen(t.data)
                          /\ ByteLen(From(t.seq_start + 2)) < ByteLen(t.data)
                          /\ LatestSequence(buf) = {t.seq_end}
  /\ \A first \in 0 .. buf.next :
       SliceFromSequence(buf, first).data = From(Max2(first, FirstKept) + 1)

\* No read ended inside a character that the next one went on with.
Unsplit ==
  \A i \in 1 .. Len(past.reads) - 1 :
    Last(past.reads[i]).k = "lead" => Head(past.reads[i + 1]).k # "cont"

\* A snapshot's tail is the end of what the child wrote, decoded as a whole
\* (as long as no read split a character), and its number the last chunk's.
RecordFollows ==
  ok /\ past.reads # <<>> =>
    /\ Snapshot.current_sequence = Len(past.reads) - 1
    /\ ByteLen(Snapshot.recent_terminal_tail) = Min2(TailBytes, buf.size)
    /\ Unsplit => IsSuffix(Snapshot.recent_terminal_tail, Lossy(FlattenSeq(past.reads)))

\* However chunks were cut and evicted, the output buffer, its queries and the
\* record of a session show the last part of what the child's output was decoded
\* to read by read, whole and in order (output_buffer.rs, and runtime.rs which
\* feeds it).
RecentOutput == BufferIsRecent /\ QueriesExact /\ RecordFollows

-----------------------------------------------------------------------------
(* The screen                                                              *)

Wide == {"lead", "cont"}
AsciiOnly ==
  \A i \in DOMAIN past.reads : \A j \in DOMAIN past.reads[i] : past.reads[i][j].k \notin Wide
NeverEmpty == \A size \in past.sizes : size.rows > 0 /\ size.columns > 0

\* Equal but for blanks at the end.
SameLine(a, b) == \A i \in DOMAIN a \cup DOMAIN b : Cell(a, i) = Cell(b, i)
PaperLine(r) == IF r \in DOMAIN past.paper.lines THEN past.paper.lines[r] ELSE <<>>
AllLines == mux.scrollback \o mux.screen
LinesGone == past.paper.row - CursorLine(mux)

\* With ASCII output, and until the terminal shrinks, the scrollback and the
\* screen of a terminal with rows and columns together show the last lines of
\* the paper with the cursor in its place, lines are given up only when the
\* scrollback is full, and a viewport not lower than the screen shows the
\* cursor's line where it says the cursor is (append, resize and
\* viewport_snapshot of terminal.rs).
ScreenIsPaper ==
  ok /\ AsciiOnly /\ NeverEmpty /\ ~past.shrunk =>
    /\ mux.row < mux.size.rows /\ mux.col = past.paper.col
    /\ LinesGone >= 0 /\ (LinesGone > 0 => Len(mux.scrollback) = MaxScrollback)
    /\ \A i \in DOMAIN AllLines : SameLine(AllLines[i], PaperLine(LinesGone + i))
    /\ Len(past.paper.lines) <= LinesGone + Len(AllLines)
    /\ \A v \in DOMAIN views : views[v].rows >= mux.size.rows =>
         LET snap == ViewportSnapshot(mux, views[v]) IN
         \E r \in snap.cursor_row :
           SameLine(snap.lines[r + 1], PaperLine(past.paper.row + 1))

\* Handling output or a size panics only after output that is not ASCII or
\* under a size without rows or columns; in particular never because the
\* terminal shrank above its cursor (terminal.rs, output_buffer.rs).
PanicHasCause == ok \/ ~AsciiOnly \/ ~NeverEmpty

-----------------------------------------------------------------------------
(* Logs                                                                    *)

LoggedBytes(i) == EntryBytes(SubSeq(past.logged, i, Len(past.logged)))
LinesEvicted == Len(past.logged) - Len(log.entries)
EventsEvicted == Len(past.seen) - Len(obs.events)

\* A log holds the longest run of last lines within both limits, under the
\* revisions in which they came, however they were grouped into texts; the
\* observation store the last events, under their own numbers
\* (log_buffer.rs, observation_store.rs).
LogsAreRecent ==
  /\ log.next = Len(past.logged) + 1
  /\ \A i \in DOMAIN log.entries :
       LET e == log.entries[i] l == past.logged[LinesEvicted + i] IN
       /\ e.revision = LinesEvicted + i
       /\ e.len = l.len /\ e.has = l.has /\ e.stream = l.stream
  /\ log.total = LoggedBytes(LinesEvicted + 1) /\ log.total <= MaxLogBytes
  /\ Len(log.entries) <= MaxLogEntries /\ Len(obs.events) <= MaxObservations
  /\ LinesEvicted > 0 =>
       Len(log.entries) = MaxLogEntries \/ LoggedBytes(LinesEvicted) > MaxLogBytes
  /\ EventsEvicted > 0 => Len(obs.events) = MaxObservations
  /\ \A i \in DOMAIN obs.events :
       obs.events[i] = [event_id |-> EventsEvicted + i, session |-> past.seen[EventsEvicted + i]]
  /\ obs.events # <<>> => Head(NewestFirst(obs)).event_id = obs.next - 1

Revisions(entries) == [i \in DOMAIN entries |-> entries[i].revision]
Bounds == 0 .. 3

\* The queries of a log agree with each other: a tail and a context are ranges
\* of revisions, the lines around a match are its context, a search finds what
\* evidence for the pattern finds and both tell truly whether there is more.
\* The byte ranges of evidence follow on each other until the first eviction,
\* and start within the limit ever after (log_buffer.rs, evidence.rs).
LogQueriesExact ==
  /\ \A n \in Bounds : LogTail(log, n) = LogRange(log, log.next - n, {}).entries
  /\ \A i \in DOMAIN log.entries, b \in Bounds, a \in Bounds :
       LET r == log.entries[i].revision IN
       Context(log, r, b, a) = LogRange(log, r - b, {r + a}).entries
  /\ \A p \in Patterns, max \in Bounds \ {0} :
       LET found == Search(log, p, max)
           evidence == Evidence(log, {}, {}, {p}, max) IN
       /\ Revisions(found.matches) = Revisions(evidence.entries)
       /\ found.truncated = evidence.truncated
       /\ \A j \in DOMAIN found.matches :
            LET m == found.matches[j] IN
            Context(log, m.revision, SearchContext, SearchContext)
              = m.before \o <<log.entries[m.line_number + 1]>> \o m.after
  /\ LET all == Evidence(log, {}, {}, {}, Len(log.entries)).entries IN
     /\ ~Evidence(log, {}, {}, {}, Len(log.entries)).truncated
     /\ \A i \in DOMAIN all : all[i].byte_start <= MaxLogBytes
     /\ LinesEvicted = 0 =>
          /\ \A i \in 1 .. Len(all) - 1 : all[i].byte_end = all[i + 1].byte_start
          /\ all # <<>> => all[1].byte_start = 0 /\ Last(all).byte_end = log.total
=============================================================================

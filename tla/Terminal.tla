------------------------------ MODULE Terminal ------------------------------
(***************************************************************************)
(* TerminalMultiplexer of session/terminal.rs: the lines on the screen,    *)
(* the lines above it, a cursor, and what a viewer with a window of its    *)
(* own gets to see. Operators on a record; the module that uses them makes *)
(* them actions. ok turns FALSE where the code panics, and what follows    *)
(* changes nothing any more.                                               *)
(*                                                                         *)
(* alt_screen is never set and left out. Escape sequences are not parsed:  *)
(* their characters are text but for the ESC itself.                       *)
(***************************************************************************)
EXTENDS Text, FiniteSetsExt

CONSTANTS
  MaxScrollback,  \* max_scrollback: 2000 lines
  OverflowChecks  \* does the build panic on integer overflow (debug) or wrap?
ASSUME TerminalAssumption == MaxScrollback \in Nat /\ OverflowChecks \in BOOLEAN

TabStop == 8

BlankLines(n) == [i \in 1 .. n |-> <<>>]
NewTerminal(size) ==
  [size |-> size, screen |-> BlankLines(size.rows), scrollback |-> <<>>,
   row |-> 0, col |-> 0, revision |-> 0, ok |-> TRUE,
   change |-> [kind |-> "none", scrolled |-> 0, chars |-> 0]]

Panicked(t) == [t EXCEPT !.ok = FALSE]

\* The last max lines.
Trimmed(lines, max) == SubSeq(lines, Max({1, Len(lines) - max + 1}), Len(lines))

-----------------------------------------------------------------------------
(* resize                                                                  *)

\* For each row that goes, the first line below the new screen moves up into
\* the scrollback: the same line each time.
ResizedRows(t, rows) ==
  IF rows > t.size.rows THEN [t EXCEPT !.screen = @ \o BlankLines(rows - t.size.rows)]
  ELSE [t EXCEPT !.screen = SubSeq(@, 1, rows),
                 !.scrollback = @ \o [i \in 1 .. t.size.rows - rows |-> t.screen[rows + 1]]]

\* Lines are cut to the new width in bytes. The cursor stays where it was.
TruncateLine(line, bytes) ==
  IF ByteLen(line) <= bytes THEN line
  ELSE CHOOSE p \in Prefixes(line) : ByteLen(p) = bytes
TruncatePanics(line, bytes) ==
  ByteLen(line) > bytes /\ \A p \in Prefixes(line) : ByteLen(p) # bytes

\* (mutant) what moved into the scrollback is not counted
ResizedUntrimmed(t, size) ==
  LET r == ResizedRows(t, size.rows) IN
  IF \E i \in DOMAIN r.screen : TruncatePanics(r.screen[i], size.columns)
  THEN Panicked(t)
  ELSE [r EXCEPT !.size = size,
                 !.screen = [i \in DOMAIN @ |-> TruncateLine(@[i], size.columns)],
                 !.revision = @ + 1]
Resized(t, size) ==
  LET r == ResizedRows(t, size.rows) IN
  IF \E i \in DOMAIN r.screen : TruncatePanics(r.screen[i], size.columns)
  THEN Panicked(t)
  ELSE [r EXCEPT !.size = size,
                 !.screen = [i \in DOMAIN @ |-> TruncateLine(@[i], size.columns)],
                 !.scrollback = Trimmed(@, MaxScrollback),
                 !.revision = @ + 1]

-----------------------------------------------------------------------------
(* append, character by character                                          *)

\* (mutant) the line that scrolls off comes back at the bottom
NewlineShort(t) ==
  IF t.row + 1 < t.size.rows THEN [t EXCEPT !.row = @ + 1, !.col = 0]
  ELSE IF t.screen = <<>> THEN Panicked(t)
  ELSE [t EXCEPT !.row = t.size.rows - 1, !.col = 0,
                 !.screen = Append(Tail(@), Head(@)),
                 !.scrollback = Trimmed(Append(@, Head(t.screen)), MaxScrollback),
                 !.change.scrolled = @ + 1]
\* A newline below the last row scrolls; on a screen of no rows, and so no
\* lines, it panics.
Newline(t) ==
  IF t.row + 1 < t.size.rows THEN [t EXCEPT !.row = @ + 1, !.col = 0]
  ELSE IF t.screen = <<>> THEN Panicked(t)
  ELSE [t EXCEPT !.row = t.size.rows - 1, !.col = 0,
                 !.screen = Append(Tail(@), <<>>),
                 !.scrollback = Trimmed(Append(@, Head(t.screen)), MaxScrollback),
                 !.change.scrolled = @ + 1]

\* The next tab stop, at most the last column; cols - 1 of no columns wraps.
TabTo(t) ==
  LET next == (t.col \div TabStop + 1) * TabStop IN
  IF t.size.columns > 0 THEN [t EXCEPT !.col = Min({next, t.size.columns - 1})]
  ELSE IF OverflowChecks THEN Panicked(t)
  ELSE [t EXCEPT !.col = next]

\* The line is padded until it has more bytes than the cursor's column.
Padded(line, col) == line \o [i \in 1 .. Max({0, col + 1 - ByteLen(line)}) |-> Blank]

\* Over how many characters, from the i-th on, ch is written: as many as have
\* its bytes. There may be no such number.
Overwritten(line, i, ch) ==
  {j \in i .. Len(line) : ByteLen(SubSeq(line, i, j)) = Width(ch)}

\* (mutant) the line is padded to one column less, and replaced there
PutCharUnpadded(t, ch) ==
  LET line == Padded(t.screen[t.row + 1], t.col - 1)
      i == t.col + 1
      put(l) == [t EXCEPT !.screen[t.row + 1] = l, !.col = @ + 1, !.change.chars = @ + 1] IN
  IF t.row >= t.size.rows THEN t
  ELSE IF t.col >= t.size.columns THEN [t EXCEPT !.screen[t.row + 1] = line]
  ELSE IF Overwritten(line, i, ch) = {} THEN Panicked(t)
  ELSE LET j == Min(Overwritten(line, i, ch)) IN
       put(SubSeq(line, 1, t.col) \o <<ch>> \o SubSeq(line, j + 1, Len(line)))
\* Columns count characters, padding counts bytes, and what is replaced is as
\* many bytes as ch has: more than one ASCII character, or past the end.
\* Below the screen and right of it characters are dropped.
PutChar(t, ch) ==
  LET line == Padded(t.screen[t.row + 1], t.col)
      i == t.col + 1
      put(l) == [t EXCEPT !.screen[t.row + 1] = l, !.col = @ + 1, !.change.chars = @ + 1] IN
  IF t.row >= t.size.rows THEN t
  ELSE IF t.col >= t.size.columns THEN [t EXCEPT !.screen[t.row + 1] = line]
  ELSE IF i > Len(line) THEN put(Append(line, ch))
  ELSE IF Overwritten(line, i, ch) = {} THEN Panicked(t)
  ELSE LET j == Min(Overwritten(line, i, ch)) IN
       put(SubSeq(line, 1, t.col) \o <<ch>> \o SubSeq(line, j + 1, Len(line)))

Feed(t, ch) ==
  IF ~t.ok THEN t
  ELSE CASE ch.k = "nl"  -> Newline(t)
         [] ch.k = "cr"  -> [t EXCEPT !.col = 0]
         [] ch.k = "tab" -> TabTo(t)
         [] ch.k = "esc" -> [t EXCEPT !.change.kind = "CosmeticChurn"]
         [] OTHER        -> PutChar(t, ch)

\* append. The revision counts appends that put a character somewhere; one
\* that only scrolls does not change it.
TerminalAppended(t, s) ==
  IF s = <<>> THEN t
  ELSE LET start == [t EXCEPT !.change = [kind |-> "none", scrolled |-> 0, chars |-> 0]]
           fed == FoldLeft(Feed, start, s) IN
       IF fed.ok /\ fed.change.chars > 0
       THEN [fed EXCEPT !.change.kind = "MeaningfulOutput", !.revision = @ + 1]
       ELSE fed

-----------------------------------------------------------------------------
(* viewport_snapshot, for a viewport of vp.rows rows that follows the      *)
(* cursor, as all of them do: it shows the last lines.                     *)

ViewportTop(t, vp) == Max({0, Len(t.scrollback) + Len(t.screen) - vp.rows})
CursorLine(t) == t.row + Len(t.scrollback)
ViewportSnapshot(t, vp) ==
  LET top == ViewportTop(t, vp) IN
  [top_line |-> top,
   lines |-> SubSeq(t.scrollback \o t.screen, top + 1,
                    Min({top + vp.rows, Len(t.scrollback) + Len(t.screen)})),
   cursor_row |-> IF top <= CursorLine(t) /\ CursorLine(t) < top + vp.rows
                  THEN {CursorLine(t) - top} ELSE {},
   cursor_column |-> t.col,
   revision |-> t.revision]
=============================================================================

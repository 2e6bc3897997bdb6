----------------------------- MODULE Transcript -----------------------------
(***************************************************************************)
(* The messages area of the omh TUI (bins/omh/src/tui.rs): the text of a   *)
(* message that is still growing is laid out in rows at every frame, and   *)
(* the user selects some of it with the mouse.  A selection is kept as     *)
(* row and column numbers of the layout; between the press and the release *)
(* the text grows, the view scrolls and the window may change its width.   *)
(*                                                                         *)
(* One message is modelled, as kinds of characters; of the markup only the *)
(* marks of inline code, which are not shown once they are closed.  Other  *)
(* markup, colours, the spinner in the header and borders are left out.    *)
(* The loop draws, takes one event of the agent or all the mouse events    *)
(* that wait, and draws again.                                             *)
(***************************************************************************)
EXTENDS SequenceParts, SequencesExt, FiniteSets

CONSTANTS
  Letters,     \* kinds of characters: subset of {"letter", "wide", "accent", "mark", "newline"}
  Widths,      \* inner widths the window may have
  Height,      \* rows that are visible
  Columns,     \* bound of the model: columns the mouse is on
  MaxText      \* bound of the model: characters of the message

ASSUME TranscriptBounds ==
  /\ Letters \subseteq {"letter", "wide", "accent", "mark", "newline"}
  /\ Widths \subseteq Nat \ {0} /\ Widths # {} /\ Height \in Nat \ {0} /\ Columns \subseteq Nat
  /\ MaxText \in Nat

VARIABLES
  message,    \* the text so far
  offset,     \* scroll_offset: rows scrolled up from the end
  rows,       \* msg_plain_lines: the rows of the last frame
  top,        \* msg_max_scroll - msg_scroll: its first visible row
  wide,       \* the inner width it was drawn with
  marked,     \* what it shows highlighted: the two ends, and the characters
  anchor,     \* selection_anchor and
  extent,     \* selection_end: a row and a column, or NoPoint
  pressed,    \* the character that was under the press, 0 if none
  reflowed,   \* since the press the width has changed or a mark has been closed
  clipboard,     \* what the last release copied, and what was true of it
  turn        \* "draw", "drawn" or "mouse": where the loop is

textVars == <<message, offset, rows, top, wide, marked, anchor, extent, pressed, reflowed,
              clipboard, turn>>

NoPoint == <<-1, -1>>
NoMarks == [ends |-> {NoPoint}, chars |-> <<>>]
NoCopy == [chars |-> <<>>, marks |-> <<>>, asMarked |-> FALSE, from |-> 0]

\* The first row to be seen of a view that is scrolled to the end.
LastTop(layout) == IF Len(layout) > Height THEN Len(layout) - Height ELSE 0
------------------------------------------------------------------------------
(***************************************************************************)
(* Layout.  A shown character is its kind and its place in the text; the   *)
(* bar in front of every line and the header have place 0.                 *)
(***************************************************************************)
Cell(kind, place) == [kind |-> kind, place |-> place]
Bar == <<Cell("bar", 0), Cell("space", 0)>>
Header == Bar \o <<Cell("letter", 0)>>

CellWidth(c) == CASE c.kind = "wide" -> 2 [] c.kind = "accent" -> 0 [] OTHER -> 1

\* find_closing: a mark is paired with the next one of its line.
IsHidden(t, line, i) ==
  LET marks == {j \in line : t[j] = "mark"}
      rank  == Cardinality({j \in marks : j <= i})
  IN i \in marks /\ rank <= 2 * (Cardinality(marks) \div 2)

\* render_message_content, parse_inline_spans: one line of the message.
Shown(t, line) ==
  Bar \o Kept({i \in line : ~ IsHidden(t, line, i)}, [i \in 1 .. Len(t) |-> Cell(t[i], i)])

\* content.lines(): a newline at the end begins no line.
LineAt(t, i) == {j \in i .. Len(t) : \A k \in i .. j : t[k] # "newline"}
Begins(t) == {i \in 1 .. Len(t) : i = 1 \/ t[i - 1] = "newline"}
LinesOf(t) == Kept(Begins(t), [i \in 1 .. Len(t) |-> Shown(t, LineAt(t, i))])

\* The column of each character of a row, and behind the last one the row's width.
Column(row, i) ==
  LET upTo[n \in 0 .. Len(row)] == IF n = 0 THEN 0 ELSE upTo[n - 1] + CellWidth(row[n])
  IN  upTo[i - 1]

\* wrap_lines, for one line: a row is full when the next character does not fit.
Put(done, c, width) ==
  LET row  == Last(done)
      used == Column(row, Len(row) + 1)
  IN  IF used + CellWidth(c) > width /\ used > 0
      THEN Append(done, <<c>>)
      ELSE Append(Front(done), Append(row, c))

Wrap(line, width) ==
  LET upTo[n \in 0 .. Len(line)] ==
        IF n = 0 THEN << <<>> >> ELSE Put(upTo[n - 1], line[n], width)
  IN  upTo[Len(line)]

Layout(t, width) ==
  LET lines == <<Header>> \o LinesOf(t)
  IN  Flat([k \in 1 .. Len(lines) |-> Wrap(lines[k], width)])
------------------------------------------------------------------------------
(***************************************************************************)
(* Points (row, column) in reading order, and what lies between two.       *)
(***************************************************************************)
AtOrBefore(p, q) == p[1] < q[1] \/ (p[1] = q[1] /\ p[2] <= q[2])
First(p, q) == IF AtOrBefore(p, q) THEN p ELSE q
Final(p, q) == IF AtOrBefore(p, q) THEN q ELSE p

RowsFrom(layout, p, q) ==
  [k \in 1 .. (IF q[1] < Len(layout) THEN q[1] ELSE Len(layout) - 1) - p[1] + 1 |-> p[1] + k - 1]

Cut(row, r, from, to) ==
  Kept({i \in 1 .. Len(row) : /\ (r = from[1]) => Column(row, i) >= from[2]
                              /\ (r = to[1]) => Column(row, i) < to[2] + 1}, row)

CutsOf(layout, p, q) ==
  LET r == RowsFrom(layout, First(p, q), Final(p, q))
  IN  [k \in 1 .. Len(r) |-> Cut(layout[r[k] + 1], r[k], First(p, q), Final(p, q))]

\* The characters of the message among some cells.
PlacesIn(cells) ==
  Kept({k \in 1 .. Len(cells) : cells[k].place # 0}, [k \in 1 .. Len(cells) |-> cells[k].place])

\* apply_selection_highlight: what is drawn on the selection's colour.
Highlighted(layout, p, q) ==
  LET pieces == CutsOf(layout, p, q)
  IN  Flat([k \in 1 .. Len(pieces) |-> PlacesIn(pieces[k])])

\* A row of blanks goes, and so does a bar at the start of a row.
Cleaned(piece) ==
  IF \A i \in 1 .. Len(piece) : piece[i].kind = "space" THEN <<>>
  ELSE IF IsPrefix(Bar, piece) THEN SubSeq(piece, 3, Len(piece))
  ELSE piece

\* extract_selection
Extracted(layout, p, q) ==
  LET pieces == CutsOf(layout, p, q)
  IN  Flat([k \in 1 .. Len(pieces) |-> PlacesIn(Cleaned(pieces[k]))])
------------------------------------------------------------------------------
TextTypeOK ==
  /\ message \in Seq(Letters) /\ Len(message) <= MaxText
  /\ offset \in Nat /\ wide \in Widths
  /\ top \in 0 .. LastTop(rows)
  /\ turn = "drawn" => offset + top = LastTop(rows)
  /\ pressed \in 0 .. MaxText /\ reflowed \in BOOLEAN
  /\ turn \in {"draw", "drawn", "mouse"}

TextInit ==
  /\ message = <<>> /\ offset = 0
  /\ wide = CHOOSE w \in Widths : TRUE     \* Resized makes it any other
  /\ rows = <<>> /\ top = 0 /\ marked = NoMarks
  /\ anchor = NoPoint /\ extent = NoPoint
  /\ pressed = 0 /\ reflowed = FALSE /\ clipboard = NoCopy /\ turn = "draw"

\* render: lays the text out, clamps the scroll offset and keeps what the mouse needs.
DrawTranscript ==
  /\ turn = "draw" /\ turn' = "drawn"
  /\ \E width \in Widths :
       /\ rows' = Layout(message, width)
       /\ wide' = width
       /\ reflowed' = (anchor # NoPoint /\ (reflowed \/ width # wide))
  /\ offset' = IF offset > LastTop(rows') THEN LastTop(rows') ELSE offset
  /\ top' = LastTop(rows') - offset'
  /\ marked' = IF anchor = NoPoint THEN NoMarks
               ELSE [ends |-> {anchor, extent}, chars |-> Highlighted(rows', anchor, extent)]
  /\ clipboard' = NoCopy
  /\ UNCHANGED <<message, anchor, extent, pressed>>

\* TextDelta
Grow(kind) ==
  /\ turn = "drawn" /\ turn' = "draw"
  /\ Len(message) < MaxText
  /\ message' = Append(message, kind)
  /\ LET old == LinesOf(message)
         new == LinesOf(message')
     IN  reflowed' = (anchor # NoPoint /\
           (reflowed \/ \E k \in 1 .. Len(old) : ~ IsPrefix(old[k], new[k])))
  /\ clipboard' = NoCopy /\ marked' = NoMarks
  /\ UNCHANGED <<offset, rows, top, wide, anchor, extent, pressed>>

\* Nothing but the clock: another frame.
Idle ==
  /\ turn \in {"drawn", "mouse"} /\ turn' = "draw"
  /\ clipboard' = NoCopy /\ marked' = NoMarks
  /\ UNCHANGED <<message, offset, rows, top, wide, anchor, extent, pressed, reflowed>>

\* Mutant: the scroll offset of now, not of the last frame.
PointNow(x, y) ==
  LET row == (IF offset > LastTop(rows) THEN 0 ELSE LastTop(rows) - offset) + y
  IN <<IF row < Len(rows) THEN row ELSE Len(rows) - 1, x>>

\* screen_to_content, for a cell inside the borders; the bottom and right borders count.
PointAt(x, y) == <<IF top + y < Len(rows) THEN top + y ELSE Len(rows) - 1, x>>

mouseEvent == turn \in {"drawn", "mouse"} /\ turn' = "mouse"

\* An accent is drawn on the character in front of it, the mouse is never on it alone.
Under(p) ==
  LET row == rows[p[1] + 1]
      at  == {i \in 1 .. Len(row) : Column(row, i) = p[2] /\ CellWidth(row[i]) > 0}
  IN  IF at = {} THEN 0 ELSE row[CHOOSE i \in at : TRUE].place

Press(x, y) ==
  /\ mouseEvent
  /\ anchor' = PointAt(x, y) /\ extent' = PointAt(x, y)
  /\ pressed' = IF top + y < Len(rows) THEN Under(<<top + y, x>>) ELSE 0
  /\ reflowed' = FALSE /\ clipboard' = NoCopy
  /\ UNCHANGED <<message, offset, rows, top, wide, marked>>

PressOutside ==
  /\ mouseEvent
  /\ anchor' = NoPoint /\ extent' = NoPoint /\ pressed' = 0
  /\ clipboard' = NoCopy /\ reflowed' = FALSE
  /\ UNCHANGED <<message, offset, rows, top, wide, marked>>

Drag(x, y) ==
  /\ mouseEvent
  /\ anchor # NoPoint
  /\ extent' = PointAt(x, y)
  /\ UNCHANGED <<message, offset, rows, top, wide, marked, anchor, pressed, reflowed, clipboard>>

Release(x, y) ==
  /\ mouseEvent
  /\ anchor # NoPoint
  /\ clipboard' = [chars |-> Extracted(rows, anchor, PointAt(x, y)),
                marks |-> marked.chars,
                asMarked |-> marked.ends = {anchor, PointAt(x, y)},
                from |-> IF reflowed THEN 0 ELSE pressed]
  /\ anchor' = NoPoint /\ extent' = NoPoint /\ pressed' = 0 /\ reflowed' = FALSE
  /\ UNCHANGED <<message, offset, rows, top, wide, marked>>

ScrollStep == 3

\* Past the end until the next frame; one step past, at most (bound of the model).
Scroll ==
  /\ mouseEvent
  /\ offset' \in {offset + ScrollStep, IF offset > ScrollStep THEN offset - ScrollStep ELSE 0}
  /\ offset' <= ScrollStep
  /\ clipboard' = NoCopy
  /\ UNCHANGED <<message, rows, top, wide, marked, anchor, extent, pressed, reflowed>>

TextNext ==
  \/ DrawTranscript
  \/ \E kind \in Letters : Grow(kind)
  \/ Idle
  \/ \E x \in {c \in Columns : c <= wide}, y \in 0 .. Height :
       Press(x, y) \/ Drag(x, y) \/ Release(x, y)
  \/ PressOutside
  \/ Scroll

TextSpec == TextInit /\ [][TextNext]_textVars
------------------------------------------------------------------------------
\* What is copied is what was highlighted when the button was released, whatever the
\* widths of the characters and however often the text has been laid out anew since
\* the press; and it begins or ends with the character that was pressed on, unless
\* the text in front of it has moved: text that is appended, and scrolling, do not
\* move it, a window of another width and inline code that is closed do.  Accents that
\* are drawn on the character in front of it are copied with it.
CopiesTheSelection ==
  /\ clipboard.asMarked => clipboard.chars = clipboard.marks
  /\ clipboard.from # 0 =>
       \E k \in 1 .. Len(clipboard.chars) :
         /\ clipboard.chars[k] = clipboard.from
         /\ \/ k = Len(clipboard.chars)
            \/ \A j \in 1 .. k - 1 : message[clipboard.chars[j]] = "accent"
=============================================================================

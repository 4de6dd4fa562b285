------------------------------ MODULE Terminal ------------------------------
(***************************************************************************)
(* The VGA text driver (drivers/terminal.c): the scrollback buffer, the    *)
(* viewport on it, and what the screen shows.  One writer prints; the      *)
(* keyboard interrupt calls the two paging functions between any two of    *)
(* its steps (drivers/keyboard.c, Page Up and Page Down).                  *)
(*                                                                         *)
(* The scrollback is the sequence of its stored lines, so its length is    *)
(* scrollback_count; lines and columns count from 0 as in the code.  A     *)
(* cell is a character or Space: colours are left out.                     *)
(***************************************************************************)
EXTENDS Integers, Sequences

CONSTANTS
    VGA_WIDTH,
    VGA_HEIGHT,
    SCROLLBACK_LINES,
    TAB_STOP,            \* 4 in the code
    Printable,           \* the printable characters used
    Space,               \* the space
    Overshoot            \* how far past the buffer the model lets the row go

ASSUME TerminalAssumption ==
    /\ VGA_WIDTH \in Nat \ {0}
    /\ VGA_HEIGHT \in Nat \ {0}
    /\ SCROLLBACK_LINES \in Nat
    /\ SCROLLBACK_LINES > VGA_HEIGHT
    /\ TAB_STOP \in Nat \ {0}
    /\ Overshoot \in Nat

VARIABLES
    scrollback,
    logical_row,
    logical_col,
    viewport_top,
    scroll_locked,
    vga,                 \* VGA_MEMORY, by rows
    hw_cursor,           \* <<hw_cursor_row, hw_cursor_col>>
    writer,              \* where the writer is
    drawing,             \* what it is drawing: "full", or the fast path's "char" or "wrap"
    start,               \* of terminal_render_viewport, 0 outside it
    y,                   \* of terminal_render_viewport, 0 outside it
    damaged              \* history: drawing went on over something else, and no
                         \* full render has begun since

text == <<scrollback, logical_row, logical_col>>
view == <<viewport_top, scroll_locked>>
screen == <<vga, hw_cursor>>
render == <<start, y>>
terminal_vars == <<text, view, screen, render, writer, drawing, damaged>>

Cells == Printable \union {Space}
Columns == 0..(VGA_WIDTH - 1)
ScreenRows == 0..(VGA_HEIGHT - 1)
BlankLine == [x \in Columns |-> Space]
BlankScreen == [r \in ScreenRows |-> BlankLine]

scrollback_count == Len(scrollback)
Line(i) == scrollback[i + 1]

-----------------------------------------------------------------------------
(***************************************************************************)
(* What terminal_render_viewport shows for a viewport_top.                 *)
(***************************************************************************)
StartOf(top) ==
    IF scrollback_count > VGA_HEIGHT + top
    THEN scrollback_count - VGA_HEIGHT - top
    ELSE 0

\* The row r of the screen in a view that starts at line s.
RowFrom(s, r) == IF s + r < scrollback_count THEN Line(s + r) ELSE BlankLine

ViewOf(top) == [r \in ScreenRows |-> RowFrom(StartOf(top), r)]

InView(s) == logical_row >= s /\ logical_row < s + VGA_HEIGHT

CursorFrom(s) ==
    IF scrollback_count = 0 THEN <<0, 0>>
    ELSE IF InView(s) THEN <<logical_row - s, logical_col>> ELSE <<VGA_HEIGHT - 1, 0>>

-----------------------------------------------------------------------------
(***************************************************************************)
(* terminal_initialize: one blank line, shown.                             *)
(***************************************************************************)
TerminalInit ==
    /\ scrollback = <<BlankLine>>
    /\ logical_row = 0 /\ logical_col = 0
    /\ viewport_top = 0 /\ scroll_locked = FALSE
    /\ vga = BlankScreen
    /\ hw_cursor = <<0, 0>>
    /\ writer = "idle" /\ drawing = "full" /\ start = 0 /\ y = 0
    /\ damaged = FALSE

-----------------------------------------------------------------------------
(***************************************************************************)
(* terminal_putchar, up to the test of scroll_locked.  A store past the    *)
(* last line leaves the array: what follows is undefined, the writer stops *)
(* in "overrun".                                                           *)
(***************************************************************************)
StoredLine(row, cells) ==
    IF row < scrollback_count
    THEN [scrollback EXCEPT ![row + 1] =
              [x \in Columns |-> IF x \in DOMAIN cells THEN cells[x] ELSE @[x]]]
    ELSE scrollback

\* The next step, unless the line stored to does not exist.
Then(row, next) == writer' = IF row < scrollback_count THEN next ELSE "overrun"

\* terminal_newline, from '\n' and from a tab that does not fit.
NewLine ==
    /\ logical_row < SCROLLBACK_LINES + Overshoot
    /\ logical_col' = 0
    /\ logical_row' = logical_row + 1
    /\ writer' = "grow" /\ drawing' = "full"
    /\ UNCHANGED <<scrollback, view, screen, render, damaged>>

PutNewline ==
    /\ writer = "idle"
    /\ NewLine

PutReturn ==
    /\ writer = "idle"
    /\ logical_col' = 0
    /\ writer' = "test" /\ drawing' = "full"
    /\ UNCHANGED <<scrollback, logical_row, view, screen, render, damaged>>

\* Erases the cell before the cursor; the start of a line continues at the end
\* of the one before.
PutBackspace ==
    LET row == IF logical_col = 0 /\ logical_row > 0 THEN logical_row - 1 ELSE logical_row
        col == IF logical_col > 0 THEN logical_col - 1
               ELSE IF logical_row > 0 THEN VGA_WIDTH - 1 ELSE 0
        moves == logical_col > 0 \/ logical_row > 0
    IN /\ writer = "idle"
       /\ logical_row' = row
       /\ logical_col' = col
       /\ scrollback' = IF moves THEN StoredLine(row, [x \in {col} |-> Space]) ELSE scrollback
       /\ Then(row, "test") /\ drawing' = "full"
       /\ UNCHANGED <<view, screen, render, damaged>>

PutTab ==
    LET next == ((logical_col + TAB_STOP) \div TAB_STOP) * TAB_STOP
    IN /\ writer = "idle"
       /\ \/ next >= VGA_WIDTH /\ NewLine
          \/ /\ next < VGA_WIDTH
             /\ scrollback' = StoredLine(logical_row, [x \in logical_col..(next - 1) |-> Space])
             /\ logical_col' = next
             /\ Then(logical_row, "test") /\ drawing' = "full"
             /\ UNCHANGED <<logical_row, view, screen, render, damaged>>

PutPrintable(ch) ==
    LET wraps == logical_col + 1 >= VGA_WIDTH
    IN /\ writer = "idle"
       /\ scrollback' = StoredLine(logical_row, [x \in {logical_col} |-> ch])
       /\ logical_col' = IF wraps THEN 0 ELSE logical_col + 1
       /\ logical_row' = IF wraps THEN logical_row + 1 ELSE logical_row
       /\ Then(logical_row, IF wraps THEN "grow" ELSE "test")
       /\ drawing' = IF wraps THEN "wrap" ELSE "char"
       /\ UNCHANGED <<view, screen, render, damaged>>

\* MUTANT: a line is appended only after a second one is missing.
AppendLate ==
    IF logical_row > scrollback_count THEN Append(scrollback, BlankLine) ELSE scrollback

\* scrollback_append_blank_line, when the row has no line yet: the oldest line
\* goes when the buffer is full, and the row is not moved with the others.
Appended ==
    IF logical_row < scrollback_count THEN scrollback
    ELSE IF scrollback_count < SCROLLBACK_LINES
         THEN Append(scrollback, BlankLine)
         ELSE Append(Tail(scrollback), BlankLine)

Grow ==
    /\ writer = "grow"
    /\ scrollback' = Appended
    /\ writer' = "test"
    /\ UNCHANGED <<logical_row, logical_col, view, screen, render, drawing, damaged>>

-----------------------------------------------------------------------------
(***************************************************************************)
(* The drawing that ends every operation.                                  *)
(***************************************************************************)
\* A locked view is rendered whole.  Otherwise a printable character draws its
\* own row if that is in view, and everything else resumes following.
TestLock ==
    /\ writer = "test"
    /\ writer' = IF scroll_locked THEN "start"
             ELSE IF drawing = "full" THEN "follow"
             ELSE IF InView(StartOf(0)) THEN "row" ELSE "start"
    /\ drawing' = IF scroll_locked THEN "full" ELSE drawing
    /\ UNCHANGED <<text, view, screen, render, damaged>>

\* terminal_resume_follow: two stores, then the render.
FollowTop ==
    /\ writer = "follow"
    /\ viewport_top' = 0
    /\ writer' = "unlock"
    /\ UNCHANGED <<text, scroll_locked, screen, render, drawing, damaged>>

FollowUnlock ==
    /\ writer = "unlock"
    /\ scroll_locked' = FALSE
    /\ writer' = "start"
    /\ UNCHANGED <<text, viewport_top, screen, render, drawing, damaged>>

\* terminal_render_viewport: the start line, the rows one by one, the cursor.
RenderStart ==
    /\ writer = "start"
    /\ start' = StartOf(viewport_top)
    /\ y' = 0
    /\ writer' = "copy"
    /\ damaged' = (damaged /\ drawing # "full")
    /\ UNCHANGED <<text, view, screen, drawing>>

RenderRow ==
    /\ writer = "copy"
    /\ vga' = [vga EXCEPT ![y] = RowFrom(start, y)]
    /\ y' = IF y + 1 = VGA_HEIGHT THEN 0 ELSE y + 1
    /\ writer' = IF y + 1 = VGA_HEIGHT THEN "cursor" ELSE "copy"
    /\ UNCHANGED <<text, view, hw_cursor, start, drawing, damaged>>

RenderCursor ==
    /\ writer = "cursor"
    /\ hw_cursor' = CursorFrom(start)
    /\ start' = 0
    /\ writer' = IF drawing = "full" THEN "idle" ELSE "place"
    /\ UNCHANGED <<text, view, vga, y, drawing, damaged>>

\* MUTANT: the fast path draws the row at its place in the buffer.
UpdateRowUnshifted ==
    /\ writer = "row"
    /\ vga' = [vga EXCEPT ![logical_row % VGA_HEIGHT] = Line(logical_row)]
    /\ writer' = "place"
    /\ damaged' = (damaged \/ drawing = "wrap")
    /\ UNCHANGED <<text, view, hw_cursor, render, drawing>>

\* terminal_update_vga_row.  After a wrap this is the new row: the row that took
\* the character, and the rows that moved, are not drawn.
UpdateRow ==
    /\ writer = "row"
    /\ vga' = [vga EXCEPT ![logical_row - StartOf(0)] = Line(logical_row)]
    /\ writer' = "place"
    /\ damaged' = (damaged \/ drawing = "wrap")
    /\ UNCHANGED <<text, view, hw_cursor, render, drawing>>

PlaceCursor ==
    /\ writer = "place"
    /\ hw_cursor' = <<IF logical_row >= StartOf(0) THEN logical_row - StartOf(0)
                      ELSE VGA_HEIGHT - 1, logical_col>>
    /\ writer' = "idle" /\ drawing' = "full"
    /\ UNCHANGED <<text, view, vga, render, damaged>>

-----------------------------------------------------------------------------
(***************************************************************************)
(* terminal_clear.                                                         *)
(***************************************************************************)
Clear ==
    /\ writer = "idle"
    /\ scrollback' = <<>>
    /\ logical_row' = 0 /\ logical_col' = 0
    /\ writer' = "clear top"
    /\ UNCHANGED <<view, screen, render, drawing, damaged>>

ClearTop ==
    /\ writer = "clear top"
    /\ viewport_top' = 0
    /\ writer' = "clear lock"
    /\ UNCHANGED <<text, scroll_locked, screen, render, drawing, damaged>>

ClearLock ==
    /\ writer = "clear lock"
    /\ scroll_locked' = FALSE
    /\ scrollback' = <<BlankLine>>
    /\ writer' = "clear screen"
    /\ UNCHANGED <<logical_row, logical_col, viewport_top, screen, render, drawing, damaged>>

ClearScreen ==
    /\ writer = "clear screen"
    /\ vga' = BlankScreen
    /\ hw_cursor' = <<0, 0>>
    /\ damaged' = FALSE
    /\ writer' = "idle"
    /\ UNCHANGED <<text, view, render, drawing>>

-----------------------------------------------------------------------------
(***************************************************************************)
(* Page Up and Page Down, each whole in the keyboard interrupt.  The       *)
(* writer's drawing continues where it was.                                *)
(***************************************************************************)
Drawing ==
    \/ writer \in {"copy", "cursor", "row", "place"}
    \/ writer = "start" /\ drawing # "full"

ShowFrom(top) ==
    /\ writer # "overrun"
    /\ viewport_top' = top
    /\ scroll_locked' = (top # 0)
    /\ vga' = ViewOf(top)
    /\ hw_cursor' = CursorFrom(StartOf(top))
    /\ damaged' = Drawing
    /\ UNCHANGED <<text, render, writer, drawing>>

\* MUTANT: the page is not capped at the oldest line.
PageUpUncapped ==
    /\ scrollback_count > VGA_HEIGHT
    /\ viewport_top < SCROLLBACK_LINES
    /\ ShowFrom(viewport_top + VGA_HEIGHT)

terminal_scrollback_page_up ==
    LET max_top == scrollback_count - VGA_HEIGHT
    IN /\ scrollback_count > VGA_HEIGHT
       /\ ShowFrom(IF viewport_top + VGA_HEIGHT <= max_top
                   THEN viewport_top + VGA_HEIGHT ELSE max_top)

terminal_scrollback_page_down ==
    /\ viewport_top # 0
    /\ ShowFrom(IF viewport_top > VGA_HEIGHT THEN viewport_top - VGA_HEIGHT ELSE 0)

-----------------------------------------------------------------------------
Write ==
    \/ PutNewline
    \/ PutReturn
    \/ PutBackspace
    \/ PutTab
    \/ \E ch \in Printable : PutPrintable(ch)
    \/ Clear

Draw ==
    \/ Grow
    \/ TestLock
    \/ FollowTop
    \/ FollowUnlock
    \/ RenderStart
    \/ RenderRow
    \/ RenderCursor
    \/ UpdateRow
    \/ PlaceCursor
    \/ ClearTop
    \/ ClearLock
    \/ ClearScreen

TerminalNext ==
    \/ Write
    \/ Draw
    \/ terminal_scrollback_page_up
    \/ terminal_scrollback_page_down

TerminalSpec == TerminalInit /\ [][TerminalNext]_terminal_vars

-----------------------------------------------------------------------------
PCs == {"idle", "grow", "test", "follow", "unlock", "start", "copy", "cursor", "row",
        "place", "clear top", "clear lock", "clear screen", "overrun"}

\* Lines are whole, the cursor's column is on the line, the viewport and the
\* loop of the render are in range.
TerminalTypeOK ==
    /\ scrollback \in Seq([Columns -> Cells])
    /\ scrollback_count <= SCROLLBACK_LINES
    /\ logical_row \in Nat
    /\ logical_col \in Columns
    /\ viewport_top \in Nat
    /\ scroll_locked \in BOOLEAN
    /\ vga \in [ScreenRows -> [Columns -> Cells]]
    /\ hw_cursor \in Nat \X Columns
    /\ writer \in PCs
    /\ drawing \in {"full", "char", "wrap"}
    /\ start \in Nat
    /\ y \in ScreenRows
    /\ damaged \in BOOLEAN

Clearing == writer \in {"clear top", "clear lock", "clear screen"}

\* Between two operations the screen is the part of the scrollback the viewport
\* names, and the cursor stands where the next character goes, however page keys
\* and output were mixed.  The viewport counts from the newest line, so a locked
\* view moves with the output: the code draws it again, whatever the comment that
\* LockedViewKept quotes says, and this holds of what it draws.  Three things suspend this, and the next full render
\* ends each: a wrap drawn by the fast path, a page key while a row or the
\* cursor was being drawn, and a page key between the two stores of
\* terminal_resume_follow (a scrolled view that is not locked).
ScreenMatches ==
    (writer = "idle" /\ ~damaged /\ (viewport_top > 0 => scroll_locked)) =>
        /\ vga = ViewOf(viewport_top)
        /\ InView(StartOf(viewport_top)) =>
               hw_cursor = <<logical_row - StartOf(viewport_top), logical_col>>

\* The view never reaches above the oldest stored line: page up caps
\* viewport_top, and no later clear, append or page key breaks the cap.  And the
\* live view is never locked, so output is never held back from a user who looks
\* at it ("true when viewport_top > 0", in one direction): only between the two
\* stores that bring the view back is the lock still to be dropped.
ViewportSound ==
    /\ ~Clearing => (viewport_top = 0 \/ viewport_top + VGA_HEIGHT <= scrollback_count)
    /\ (viewport_top = 0 /\ scroll_locked) => writer \in {"unlock", "clear lock"}

\* The row of the cursor is a stored line until the buffer is full: newline and
\* wrap append the line they move to before anything is stored in it.
RowStored ==
    writer = "idle" =>
        (logical_row < scrollback_count \/ scrollback_count = SCROLLBACK_LINES)

\* A character printed while the view is locked leaves the screen as it is ("user
\* scrolled up - do not change visible VGA contents", terminal.c:395): what
\* terminal_render_viewport is about to draw is what is there.
LockedViewKept ==
    (writer = "test" /\ scroll_locked /\ drawing # "full" /\ ~damaged) =>
        vga = ViewOf(viewport_top)

\* logical_row is a "line index within the logical stream
\* (0..scrollback_count-1)" between two operations.
RowInStream ==
    writer = "idle" => logical_row < scrollback_count
=============================================================================

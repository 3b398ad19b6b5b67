-------------------------------- MODULE Tty --------------------------------
(***************************************************************************)
(* A text terminal, kernel/src/drivers/tty.c: its field of characters, its *)
(* cursor and its parser of escape sequences, and the video memory, which  *)
(* the terminal shares with another.                                       *)
(*                                                                         *)
(* A cell is a character and its palette, of which only one thing matters: *)
(* whether it is the cursor's.  Positions count cells, not bytes.  The     *)
(* characters of programs and the echo of keys come one at a time, and     *)
(* terminals are switched between two of them, although the interrupt that *)
(* echoes and switches may come in the middle of text_putchar.             *)
(***************************************************************************)
EXTENDS Integers

CONSTANTS
    VD_ROWS, Columns,       \* Columns is VD_COLS / 2
    Chars,                  \* printable characters
    Digits,                 \* the digits that occur
    INT_MAX,                \* of an int; 2^31 - 1 on the machine
    TtyModes                \* the modes: "raw", "noblock", "noscroll"

ASSUME TtyAssumption ==
    /\ VD_ROWS \in Nat \ {0} /\ Columns \in Nat \ {0}
    /\ Digits \subseteq 0 .. 9
    /\ INT_MAX \in Nat /\ VD_ROWS * Columns <= INT_MAX
    /\ {" ", "?"} \cap Chars = {}

Size == VD_ROWS * Columns
Cells == 0 .. Size - 1

\* Arithmetic modulo the number of values of an int, and the int of a number.
IntRange == 2 * (INT_MAX + 1)
Ints == -(INT_MAX + 1) .. INT_MAX
AsInt(v) == ((v + INT_MAX + 1) % IntRange) - (INT_MAX + 1)

VARIABLES
    scr,        \* the field, the cursor and the video memory
    esc,        \* the parser
    tty_modes,  \* the modes that are on
    shown       \* whether the terminal is current_tty

ttyVars == <<scr, esc, tty_modes, shown>>

Spaces == [k \in Cells |-> " "]

\* A field, and those of its cells that have the palette of a cursor.
Blank == [text |-> Spaces, lit |-> {0}]

\* esc_value points to value0 or to value1, and esc_default likewise.
NoEscape == [escape |-> FALSE, value |-> <<0, 0>>, default |-> <<TRUE, TRUE>>, sel |-> 1]

\* init_tty.  The other terminal stays as it is.
TtyInit ==
    /\ scr = [field |-> Blank, cursor |-> 0, video |-> Blank]
    /\ esc = NoEscape
    /\ tty_modes = {}
    /\ shown \in BOOLEAN

----------------------------------------------------------------------------
(* What the functions of the driver do to the screen s *)

Clear_cursor(s) ==
    [s EXCEPT !.field.lit = @ \ {s.cursor},
              !.video.lit = IF shown THEN @ \ {s.cursor} ELSE @]

Draw_cursor(s) ==
    [s EXCEPT !.field.lit = @ \cup {s.cursor},
              !.video.lit = IF shown THEN @ \cup {s.cursor} ELSE @]

\* A character at the cursor.
Store(s, c) ==
    [s EXCEPT !.field.text[s.cursor] = c,
              !.video.text = IF shown THEN [@ EXCEPT ![s.cursor] = c] ELSE @]

Refresh(s) == [s EXCEPT !.video = IF shown THEN s.field ELSE @]

\* Mutant: the video memory is left as it was.
ScrollUnseen(s) ==
    [s EXCEPT !.field.text = [k \in Cells |-> IF k < Size - Columns THEN @[k + Columns]
                                              ELSE " "],
              !.field.lit = {k - Columns : k \in {j \in @ : j >= Columns}}]

\* The text moves up by a row, palettes included.
Scroll(s) ==
    Refresh([s EXCEPT
        !.field.text = [k \in Cells |-> IF k < Size - Columns THEN @[k + Columns] ELSE " "],
        !.field.lit = {k - Columns : k \in {j \in @ : j >= Columns}}])

Moved(s, k) == Draw_cursor([Clear_cursor(s) EXCEPT !.cursor = k])

X(s) == s.cursor % Columns
Y(s) == s.cursor \div Columns

\* The offset counts bytes modulo IntRange, two for each cell.
text_set_cursor_pos(s, x, y) == Moved(s, (y * Columns + x) % (INT_MAX + 1))

\* text_putchar: 0x0A
Newline(s) ==
    IF Y(s) = VD_ROWS - 1
    THEN text_set_cursor_pos(Scroll(Clear_cursor(s)), 0, VD_ROWS - 1)
    ELSE text_set_cursor_pos(s, 0, Y(s) + 1)

\* text_putchar: 0x08
Backspace(s) ==
    IF s.cursor = 0 THEN s
    ELSE Draw_cursor(Store([Clear_cursor(s) EXCEPT !.cursor = @ - 1], " "))

\* Mutant: the last cell is not seen as the last.
PrintedPastEnd(s, c) ==
    LET t == Store(Clear_cursor(s), c)
    IN  Draw_cursor(
          IF s.cursor >= Size
          THEN IF "noscroll" \in tty_modes THEN t
               ELSE [Scroll(t) EXCEPT !.cursor = Size - Columns]
          ELSE [t EXCEPT !.cursor = @ + 1])

\* text_putchar: a printable character
Printed(s, c) ==
    LET t == Store(Clear_cursor(s), c)
    IN  Draw_cursor(
          IF s.cursor >= Size - 1
          THEN IF "noscroll" \in tty_modes THEN t
               ELSE [Scroll(t) EXCEPT !.cursor = Size - Columns]
          ELSE [t EXCEPT !.cursor = @ + 1])

text_clear_no_move(s) ==
    Refresh(Draw_cursor([Clear_cursor(s) EXCEPT !.field = [text |-> Spaces, lit |-> {}]]))

----------------------------------------------------------------------------
(* text_putchar outside an escape sequence *)

Putchar(s) ==
    /\ ~esc.escape
    /\ scr' = s
    /\ UNCHANGED <<esc, tty_modes, shown>>

BeginEscape ==
    /\ ~esc.escape
    /\ esc' = [esc EXCEPT !.escape = TRUE]
    /\ UNCHANGED <<scr, tty_modes, shown>>

----------------------------------------------------------------------------
(* escape_parse *)

\* "[" is passed over wherever it is.
Bracket ==
    /\ esc.escape
    /\ UNCHANGED ttyVars

\* Too many digits overflow the int, which wraps.
Digit(d) ==
    /\ esc.escape
    /\ esc' = [esc EXCEPT !.value[esc.sel] = AsInt(@ * 10 + d), !.default[esc.sel] = FALSE]
    /\ UNCHANGED <<scr, tty_modes, shown>>

Semicolon ==
    /\ esc.escape
    /\ esc' = [esc EXCEPT !.sel = 2]
    /\ UNCHANGED <<scr, tty_modes, shown>>

\* Mutant: the second parameter is kept.
ResetFirst == [NoEscape EXCEPT !.value[2] = esc.value[2]]

\* The parser once a sequence has ended.
Reset == NoEscape

\* A sequence that leaves the screen as s.
EndsIn(s) ==
    /\ esc.escape
    /\ scr' = s
    /\ esc' = Reset
    /\ UNCHANGED <<tty_modes, shown>>

AtMost(n, limit) == IF n > limit THEN limit ELSE n

\* How far a sequence moves: a row or a column is unsigned, and what is
\* compared with it or added to it becomes unsigned too.
Times == (IF esc.default[1] THEN 1 ELSE esc.value[1]) % IntRange
Further(n, limit) == AtMost((n + Times) % IntRange, limit)

Up == EndsIn(text_set_cursor_pos(scr, X(scr), Y(scr) - AtMost(Times, Y(scr))))
Down == EndsIn(text_set_cursor_pos(scr, X(scr), Further(Y(scr), VD_ROWS - 1)))
Forward == EndsIn(text_set_cursor_pos(scr, Further(X(scr), Columns - 1), Y(scr)))
Back == EndsIn(text_set_cursor_pos(scr, X(scr) - AtMost(Times, X(scr)), Y(scr)))

\* Row and column count from 1, and only their upper limits are tested.  The
\* least int less 1 overflows: the compiler may test before it subtracts.
Positions(k, limit) ==
    IF esc.default[k] THEN {0}
    ELSE {AtMost(AsInt(esc.value[k] - 1), limit)} \cup
         {p \in {INT_MAX} : esc.value[k] = -(INT_MAX + 1)}

Home == \E x \in Positions(2, Columns - 1), y \in Positions(1, VD_ROWS - 1) :
            EndsIn(text_set_cursor_pos(scr, x, y))

\* sgr chooses the palette of the text.
Sgr == EndsIn(scr)

EraseDisplay == EndsIn(IF esc.value[1] = 2 THEN text_clear_no_move(scr) ELSE scr)

ToggleMode(m) ==
    /\ esc.escape
    /\ tty_modes' = IF m \in tty_modes THEN tty_modes \ {m} ELSE tty_modes \cup {m}
    /\ esc' = Reset
    /\ UNCHANGED <<scr, shown>>

Unknown == EndsIn(Printed(scr, "?"))

----------------------------------------------------------------------------

\* switch_tty, to this terminal or to the other.
switch_tty(here) ==
    /\ shown' = here
    /\ scr' = [scr EXCEPT !.video = IF here THEN scr.field ELSE Blank]
    /\ UNCHANGED <<esc, tty_modes>>

\* Once the cursor is off the screen the terminal stores outside its field:
\* what follows is left out.
TtyNext ==
    \/ /\ scr.cursor \in Cells
       /\ \/ Putchar(Newline(scr)) \/ Putchar(Backspace(scr))
          \/ \E c \in Chars : Putchar(Printed(scr, c))
          \/ BeginEscape \/ Bracket \/ Semicolon \/ \E d \in Digits : Digit(d)
          \/ Up \/ Down \/ Forward \/ Back \/ Home \/ Sgr \/ EraseDisplay \/ Unknown
          \/ \E m \in TtyModes : ToggleMode(m)
    \/ \E here \in BOOLEAN : switch_tty(here)

TtySpec == TtyInit /\ [][TtyNext]_ttyVars

----------------------------------------------------------------------------

\* Every variable has its type.
TtyTypeOK ==
    /\ scr.field.text \in [Cells -> Chars \cup {" ", "?"}]
    /\ scr.video.text \in [Cells -> Chars \cup {" ", "?"}]
    /\ esc.value \in Ints \X Ints
    /\ esc.sel \in {1, 2}
    /\ tty_modes \subseteq TtyModes /\ shown \in BOOLEAN

\* Whatever text and escape sequences a program writes, and however far their
\* parameters overflow, one thing alone takes the cursor off the screen: to
\* address a cell (ESC [ row ; column H) by a row or a column below 1.
\* text_putchar stores at the cursor without a test of the offset.
CursorLeavesBelowOne ==
    [][scr.cursor \in Cells /\ scr'.cursor \notin Cells =>
          /\ esc.escape /\ ~esc'.escape
          /\ \E k \in {1, 2} : ~esc.default[k] /\ esc.value[k] < 1]_ttyVars

\* The video memory shows the current terminal, though most changes write to
\* it and to the field one cell at a time, and none is made for a terminal
\* that is not shown (tty_refresh); and the one cell drawn as a cursor is the
\* one the cursor is in (clear_cursor, draw_cursor, scroll).  As long as that
\* is on the screen.
VideoShowsTty ==
    scr.cursor \in Cells =>
        /\ scr.field.lit = {scr.cursor}
        /\ scr.video = IF shown THEN scr.field ELSE Blank

\* An escape sequence starts with default parameters, however the last one
\* ended and whatever came in the middle of it (escape_parse).
EscapesStartClean == ~esc.escape => esc = NoEscape
=============================================================================

----------------------------- MODULE Keyboard -----------------------------
(***************************************************************************)
(* The keyboard, kernel/src/drivers/keyboard.c: the interrupt handler,     *)
(* which edits a line in a terminal's first buffer and passes it on to the *)
(* second, and keyboard_fetch_char, which takes a character from that.     *)
(*                                                                         *)
(* A scan code is named for its key; codes of released letters change      *)
(* nothing and are left out.  Letters are not told apart, so the choice    *)
(* among the four tables is left out too, and capslock, which has no other *)
(* use.  due is history.                                                   *)
(***************************************************************************)
EXTENDS Integers, Sequences

CONSTANTS
    Ttys,           \* the terminals; one is shown at boot
    FirstTty,
    Codes,          \* the scan codes that occur, of those below
    Modes,          \* the modes that programs switch: "raw", "noblock"
    KB_L1_SIZE, KB_L2_SIZE,
    Room            \* bound: tty -> characters that are left in its buffers

ASSUME KeyboardAssumption ==
    /\ FirstTty \in Ttys
    /\ Codes \subseteq {"a", "c", "enter", "backspace", "ctrl", "ctrl_rel",
                        "shift", "shift_rel"} \cup Ttys
    /\ Modes \subseteq {"raw", "noblock"}
    /\ KB_L1_SIZE \in Nat /\ KB_L2_SIZE \in Nat
    /\ \A t \in Ttys : Room[t] \in 0 .. KB_L2_SIZE

VARIABLES
    mods,           \* which of shift_active and ctrl_active are set
    current_tty,
    l1, l2,         \* tty -> kb_l1_buffer, kb_l2_buffer up to their indices
    modes,          \* tty -> the modes it is in
    is_eof,
    due             \* tty -> what its readers are to get

kbVars == <<mods, current_tty, l1, l2, modes, is_eof, due>>

EOF == "eof"        \* -1
NUL == ""
KbInit ==
    /\ mods = {}
    /\ current_tty = FirstTty
    /\ l1 = [t \in Ttys |-> <<>>] /\ l2 = [t \in Ttys |-> <<>>]
    /\ modes = [t \in Ttys |-> {}]
    /\ is_eof = FALSE
    /\ due = [t \in Ttys |-> <<>>]

\* The tables.  The function keys lie past their end: whatever is there.
Ascii(code) ==
    CASE code = "enter" -> {"newline"}
      [] code = "backspace" -> {"erase"}
      [] code \in {"a", "c"} -> {"a"}
      [] OTHER -> {"a", "newline", "erase"}

Toggle(m) == IF m \in mods THEN mods \ {m} ELSE mods \cup {m}

\* What readers see of a line, or of a raw character: the end of a line is
\* followed by an end of file.
AsRead(s) == IF s[Len(s)] = "newline" THEN Append(s, EOF) ELSE s

\* The function keys switch terminals while a shift is on.
SwitchTty(code) ==
    /\ code \in Ttys /\ "shift" \in mods
    /\ current_tty' = code
    /\ UNCHANGED <<mods, l1, l2, modes, is_eof, due>>

\* A modifier is toggled by every code of its key, pressed, repeated or released.
Modifier(code) ==
    /\ \/ code \in {"ctrl", "ctrl_rel"} /\ mods' = Toggle("ctrl")
       \/ code \in {"shift", "shift_rel"} /\ mods' = Toggle("shift")
    /\ UNCHANGED <<current_tty, l1, l2, modes, is_eof, due>>

\* Characters are added to the second buffer.  When a fetch is interrupted that
\* has lowered the index and not yet moved the rest, they come to lie over the
\* last of them, and what the move brings in at the end is stale.
AddedTo(buf, s, fetching) ==
    IF fetching THEN SubSeq(buf, 1, Len(buf) - 1) \o s \o <<NUL>> ELSE buf \o s

Passed(s, fetching) ==
    /\ l2' = [l2 EXCEPT ![current_tty] = AddedTo(@, s, fetching)]
    /\ due' = [due EXCEPT ![current_tty] = @ \o AsRead(s)]

\* A character in the mode with lines; it is echoed.
Character(c, fetching) ==
    CASE c = "erase" /\ l1[current_tty] # <<>> ->
                  /\ l1' = [l1 EXCEPT ![current_tty] = SubSeq(@, 1, Len(@) - 1)]
                  /\ UNCHANGED <<l2, due>>
      [] c = "erase" /\ l1[current_tty] = <<>> -> UNCHANGED <<l1, l2, due>>
      [] c = "newline" -> /\ Passed(Append(l1[current_tty], c), fetching)
                     /\ l1' = [l1 EXCEPT ![current_tty] = <<>>]
      [] OTHER -> /\ l1' = [l1 EXCEPT ![current_tty] = Append(@, c)]
                  /\ UNCHANGED <<l2, due>>

\* The rest of keyboard_handler: with a full first buffer nothing is accepted.
\* Programs read before the second is full, which nothing else ensures.
Typed(code, fetching) ==
    /\ code \in {"a", "c", "enter", "backspace"} \cup Ttys
    /\ ~(code \in Ttys /\ "shift" \in mods)
    /\ ~(code = "c" /\ "ctrl" \in mods)
    /\ Len(l1[current_tty]) < KB_L1_SIZE
    /\ Len(l1[current_tty]) + Len(l2[current_tty]) < Room[current_tty]
    /\ \E c \in Ascii(code) :
          IF "raw" \in modes[current_tty]
          THEN Passed(<<c>>, fetching) /\ UNCHANGED l1
          ELSE Character(c, fetching)
    /\ UNCHANGED <<mods, current_tty, modes, is_eof>>

keyboard_handler(code, fetching) ==
    SwitchTty(code) \/ Modifier(code) \/ Typed(code, fetching)

\* A program writes the escape sequence that enters or leaves a mode.
SwitchMode(t, m) ==
    /\ modes' = [modes EXCEPT ![t] = IF m \in @ THEN @ \ {m} ELSE @ \cup {m}]
    /\ UNCHANGED <<mods, current_tty, l1, l2, is_eof, due>>
=============================================================================

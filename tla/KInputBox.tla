------------------------------ MODULE KInputBox -----------------------------
(***************************************************************************)
(* The field in which menuconfig has a text or a number edited             *)
(* (dialog_inputbox of support/kconfig/lxdialog/inputbox.c), and           *)
(* conf_string of mconf.c, which opens it for a symbol.                    *)
(*                                                                         *)
(* The box draws only the cells it means to have changed, so the screen is *)
(* part of the state.  Cells count from 0, as in the code.                 *)
(***************************************************************************)
EXTENDS Integers, Sequences, Functions

CONSTANTS
    Letters,    \* what can be typed
    Digits,     \* what the symbol accepts, at least one of them
    Blank,      \* an empty cell
    MAX_LEN,    \* bound of the text; 2048 in the code
    box_width   \* the cells of the field

DigitsAssumption == Digits \subseteq Letters /\ Digits # {} /\ Blank \notin Letters
SizeAssumption == MAX_LEN \in Nat /\ box_width \in Nat \ {0, 1}

VARIABLES
    value,      \* of the symbol
    instr,      \* the text
    pos,        \* where the next letter goes in it
    show_x,     \* the first letter that is shown
    input_x,    \* the cell the cursor is in
    cells,      \* the field on the screen
    button,     \* -1 the field, 0 Ok, 1 Help
    open

field == <<instr, pos, show_x, input_x, cells>>
vars == <<value, field, button, open>>

Field == 0 - 1
len == Len(instr)
Cells == 0..box_width - 1

\* sym_set_string_value takes it.
Accepted(text) == text # <<>> /\ Range(text) \subseteq Digits

Init ==
    /\ value \in {<<d>> : d \in Digits}
    /\ instr = <<>> /\ pos = 0 /\ show_x = 0 /\ input_x = 0
    /\ cells = [c \in Cells |-> Blank]
    /\ button = Field /\ open = FALSE

\* The cells drawn anew from the letter first on: as many as there is text
\* for, and one that is blank; the others stay.
Redraw(text, first, old) ==
    [c \in Cells |-> IF first + c < Len(text) THEN text[first + c + 1]
                     ELSE IF first + c = Len(text) THEN Blank ELSE old[c]]

-----------------------------------------------------------------------------
\* do_resize, which is where the box is opened too: the cursor goes to the
\* end, and a text that does not fit is shown from the letter that lets it
\* be in the last cell.
Begin(text) == IF Len(text) >= box_width THEN Len(text) - box_width + 1 ELSE 0

Draw(text) ==
    /\ instr' = text /\ pos' = Len(text)
    /\ show_x' = Begin(text) /\ input_x' = Len(text) - Begin(text)
    /\ cells' = [c \in Cells |-> IF Begin(text) + c < Len(text) THEN text[Begin(text) + c + 1] ELSE Blank]

\* conf_string
Opened == Draw(value) /\ button' = Field /\ open' = TRUE /\ UNCHANGED value
Open == ~open /\ Opened
Resize == open /\ Draw(instr) /\ UNCHANGED <<value, button, open>>

-----------------------------------------------------------------------------
\* The keys the field takes.
InField == open /\ button = Field
Same == UNCHANGED <<value, button, open>>

\* Keys that scroll do so in the first and in the last cell.
StepLeft == IF input_x = 0 THEN show_x' = show_x - 1 /\ input_x' = 0
            ELSE input_x' = input_x - 1 /\ UNCHANGED show_x
StepRight == IF input_x = box_width - 1 THEN show_x' = show_x + 1 /\ UNCHANGED input_x
             ELSE input_x' = input_x + 1 /\ UNCHANGED show_x

Type ==
    /\ InField /\ len < MAX_LEN
    /\ \E k \in Letters : instr' = SubSeq(instr, 1, pos) \o <<k>> \o SubSeq(instr, pos + 1, len)
    /\ pos' = pos + 1
    /\ StepRight
    /\ cells' = Redraw(instr', show_x', cells)
    /\ Same

Backspace ==
    /\ InField /\ pos > 0
    /\ StepLeft
    /\ instr' = SubSeq(instr, 1, pos - 1) \o SubSeq(instr, pos + 1, len)
    /\ pos' = pos - 1
    /\ cells' = Redraw(instr', show_x', cells)
    /\ Same

\* Within the cells only the cursor moves.
Left ==
    /\ InField /\ pos > 0
    /\ StepLeft
    /\ pos' = pos - 1
    /\ cells' = IF input_x = 0 THEN Redraw(instr, show_x', cells) ELSE cells
    /\ UNCHANGED instr /\ Same

Right ==
    /\ InField /\ pos < len
    /\ StepRight
    /\ pos' = pos + 1
    /\ cells' = IF input_x = box_width - 1 THEN Redraw(instr, show_x', cells) ELSE cells
    /\ UNCHANGED instr /\ Same

-----------------------------------------------------------------------------
\* Between the field and the buttons; with a button selected, left and right
\* do this as well.
Go(to) == open /\ button' = to /\ UNCHANGED <<value, field, open>>
KeyUp == Go(IF button = Field THEN 1 ELSE button - 1)
KeyDown == Go(IF button = 1 THEN Field ELSE button + 1)

Gone ==
    /\ open' = FALSE /\ button' = Field
    /\ instr' = <<>> /\ pos' = 0 /\ show_x' = 0 /\ input_x' = 0
    /\ cells' = [c \in Cells |-> Blank]

\* Enter, unless on Help, or o with a button selected: a text that is no value
\* of the symbol is reported and lost.
Ok ==
    /\ open
    /\ IF Accepted(instr) THEN value' = instr /\ Gone ELSE Opened

\* Enter on Help, or h: the help text, and the box again
Help == open /\ button # Field /\ Opened

Escape == open /\ Gone /\ UNCHANGED value

Next ==
    \/ Open \/ Resize \/ Type \/ Backspace \/ Left \/ Right
    \/ KeyUp \/ KeyDown \/ Ok \/ Help \/ Escape

Spec == Init /\ [][Next]_vars

-----------------------------------------------------------------------------
\* The field shows the text around the cursor, which is in a cell of it.
InputInView ==
    /\ input_x \in Cells /\ show_x >= 0 /\ show_x + input_x = pos /\ pos <= len
    /\ \A c \in Cells : cells[c] = IF show_x + c < len THEN instr[show_x + c + 1] ELSE Blank

\* What the field promises.
Entry == INSTANCE KEntry WITH
    before <- SubSeq(instr, 1, pos), after <- SubSeq(instr, pos + 1, len)
=============================================================================

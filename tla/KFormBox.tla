------------------------------- MODULE KFormBox -----------------------------
(***************************************************************************)
(* The field in which nconfig has a text or a number edited                *)
(* (dialog_inputbox of support/kconfig/nconf.gui.c), and conf_string of    *)
(* nconf.c.  The field is drawn as a whole after each key, from the        *)
(* position of the cursor in the text and its column.                      *)
(***************************************************************************)
EXTENDS Integers, Sequences, Functions

CONSTANTS
    Letters,        \* what can be typed
    Digits,         \* what the symbol accepts, at least one of them
    MaxLength,      \* bound of the text
    prompt_width    \* the columns of the field

DigitsAssumption == Digits \subseteq Letters /\ Digits # {}
SizeAssumption == MaxLength \in Nat /\ prompt_width \in Nat \ {0}

VARIABLES
    value,          \* of the symbol
    result,         \* the text
    cursor_position, cursor_form_win,
    open

vars == <<value, result, cursor_position, cursor_form_win, open>>

len == Len(result)
Accepted(text) == text # <<>> /\ Range(text) \subseteq Digits
Smaller(a, b) == IF a < b THEN a ELSE b

Init ==
    /\ value \in {<<d>> : d \in Digits}
    /\ result = <<>> /\ cursor_position = 0 /\ cursor_form_win = 0 /\ open = FALSE

Opened ==
    /\ result' = value /\ cursor_position' = Len(value)
    /\ cursor_form_win' = Smaller(Len(value), prompt_width - 1)
    /\ open' = TRUE /\ UNCHANGED value
Open == ~open /\ Opened

-----------------------------------------------------------------------------
\* Cursor and column move together, but the column stays within the field.
Column(c) == IF c < 0 THEN 0 ELSE Smaller(c, prompt_width - 1)

Moves(n) ==
    /\ open
    /\ cursor_position' = cursor_position + n
    /\ cursor_form_win' = Column(cursor_form_win + n)
    /\ UNCHANGED <<value, open>>

Type ==
    /\ len < MaxLength
    /\ \E k \in Letters :
          result' = SubSeq(result, 1, cursor_position) \o <<k>> \o SubSeq(result, cursor_position + 1, len)
    /\ Moves(1)

\* The text without its letter n
Without(n) == SubSeq(result, 1, n - 1) \o SubSeq(result, n + 1, len)

Backspace == cursor_position > 0 /\ result' = Without(cursor_position) /\ Moves(0 - 1)
Delete == cursor_position < len /\ result' = Without(cursor_position + 1) /\ Moves(0)

Right == cursor_position < len /\ Moves(1) /\ UNCHANGED result
Left == cursor_position > 0 /\ Moves(0 - 1) /\ UNCHANGED result

Home == open /\ cursor_position' = 0 /\ cursor_form_win' = 0 /\ UNCHANGED <<value, result, open>>
End ==
    /\ open
    /\ cursor_position' = len /\ cursor_form_win' = Smaller(len, prompt_width - 1)
    /\ UNCHANGED <<value, result, open>>

-----------------------------------------------------------------------------
Gone == open' = FALSE /\ result' = <<>> /\ cursor_position' = 0 /\ cursor_form_win' = 0

Enter == open /\ IF Accepted(result) THEN value' = result /\ Gone ELSE Opened
Help == open /\ Opened
Escape == open /\ Gone /\ UNCHANGED value

Next ==
    \/ Open \/ Type \/ Backspace \/ Delete \/ Left \/ Right \/ Home \/ End
    \/ Enter \/ Help \/ Escape

Spec == Init /\ [][Next]_vars

-----------------------------------------------------------------------------
\* The field is drawn from a letter of the text, or its end, on, and the
\* cursor, which is before the letter it is about, in a column of it.
FormInView ==
    /\ cursor_form_win \in 0..prompt_width - 1
    /\ cursor_position \in 0..len /\ cursor_form_win <= cursor_position

\* What the field promises.
Entry == INSTANCE KEntry WITH
    before <- SubSeq(result, 1, cursor_position), after <- SubSeq(result, cursor_position + 1, len)
=============================================================================

------------------------------- MODULE KEntry -------------------------------
(***************************************************************************)
(* What a field to enter a text in promises, whichever front end draws it: *)
(* a text with a cursor, the changes around the cursor a user asks for,    *)
(* and a symbol whose value is the text that was there when he said so, if *)
(* that is a value for it.                                                 *)
(***************************************************************************)
EXTENDS Naturals, Sequences

CONSTANTS Letters,      \* what can be typed
          Accepted(_)   \* the texts that are values of the symbol

VARIABLES value,        \* of the symbol
          before, after,\* the text on both sides of the cursor
          open          \* the field is there

vars == <<value, before, after, open>>

Init == before = <<>> /\ after = <<>> /\ open = FALSE /\ Accepted(value)

Cursor(b, a) == open /\ open' /\ before' = b /\ after' = a /\ UNCHANGED value

\* The field shows the value, with the cursor behind it.
Shown == open' /\ before' = value /\ after' = <<>> /\ UNCHANGED value
Closed == ~open' /\ before' = <<>> /\ after' = <<>>

Open == ~open /\ Shown
Type == \E k \in Letters : Cursor(Append(before, k), after)
Backspace == before # <<>> /\ Cursor(SubSeq(before, 1, Len(before) - 1), after)
Delete == after # <<>> /\ Cursor(before, Tail(after))
Left == before # <<>> /\ Cursor(SubSeq(before, 1, Len(before) - 1), <<before[Len(before)]>> \o after)
Right == after # <<>> /\ Cursor(Append(before, Head(after)), Tail(after))
Home == Cursor(<<>>, before \o after)
End == Cursor(before \o after, <<>>)

\* The text is accepted, or the field shows the value again, as it does after
\* the help text.
Enter ==
    /\ open
    /\ IF Accepted(before \o after) THEN value' = before \o after /\ Closed ELSE Shown
Help == open /\ Shown
Cancel == open /\ Closed /\ UNCHANGED value

Next ==
    \/ Open \/ Type \/ Backspace \/ Delete \/ Left \/ Right \/ Home \/ End
    \/ Enter \/ Help \/ Cancel

Spec == Init /\ [][Next]_vars
=============================================================================

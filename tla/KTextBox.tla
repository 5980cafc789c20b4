------------------------------ MODULE KTextBox ------------------------------
(***************************************************************************)
(* The box menuconfig shows texts in (dialog_textbox of                    *)
(* support/kconfig/lxdialog/textbox.c), and the results of a search in it, *)
(* where some lines can be jumped to (search_conf and update_text of       *)
(* mconf.c).                                                               *)
(*                                                                         *)
(* A text has lines 0..lines-1, all with a newline or all but the last;    *)
(* page, a pointer into it, is the number of a line, or lines at the NUL.  *)
(* Scrolling sideways changes what is shown of a line only.                *)
(***************************************************************************)
EXTENDS Integers, Sequences, Functions

CONSTANTS
    Results,    \* what searches may find: texts with lines that can be jumped to
    Plain,      \* other texts
    Heights,    \* the heights of the terminal, so that boxh is 8 less
    JUMP_NB     \* how many lines get a key of their own

IsText(t) == t.lines \in Nat \ {0} /\ t.newline \in BOOLEAN /\ t.jumps \in Seq(0..t.lines - 1)

\* Only short messages, which fit, do not end with a newline; the jumps of a
\* search are in the order of the lines.
TextsAssumption ==
    /\ \A t \in Results \cup Plain : IsText(t) /\ (t.newline \/ t.lines <= 2)
    /\ \A t \in Results : t.newline /\ \A i, j \in DOMAIN t.jumps : i < j => t.jumps[i] < t.jumps[j]
    /\ Plain \cap Results = {}
HeightsAssumption == \A h \in Heights : h \in Nat /\ h > 8
JumpAssumption == JUMP_NB \in Nat \ {0}

VARIABLES
    text,       \* what is shown
    lines,      \* the height of the terminal
    page, begin_reached, end_reached, page_length,
    rows,       \* the lines in the rows of the box, or none
    keys,       \* the lines with a key, with the key
    vscroll,    \* where a search is opened again
    state       \* "search", "box" or "off"

view == <<page, begin_reached, end_reached, page_length>>
vars == <<text, lines, view, rows, keys, vscroll, state>>

NoLine == 0 - 1
boxh == lines - 8
View(p, b, e) == [page |-> p, begin |-> b, end |-> e]

-----------------------------------------------------------------------------
Smaller(a, b) == IF a < b THEN a ELSE b

\* get_line, n times, at least once: page moves on by as many lines, or the end
\* has been reached.
GetLines(t, v, n) ==
    [v EXCEPT !.page = Smaller(v.page + n, t.lines),
              !.end = v.page + n > t.lines \/ (v.page + n = t.lines /\ ~t.newline)]

\* Mutant: the empty line at the end does not count
BackLinesPlain(t, v, n) ==
    IF n <= 0 THEN [v EXCEPT !.begin = FALSE]
    ELSE [v EXCEPT !.page = IF n >= v.page THEN 0 ELSE v.page - n, !.begin = n >= v.page]

\* back_lines: at the end that has been reached the first step is the line
\* that was shown empty.  The begin is reached where no newline is before.
BackLines(t, v, n) ==
    LET empty == v.page = t.lines /\ v.end
        m == IF empty THEN n - 1 ELSE n
    IN  IF n <= 0 THEN [v EXCEPT !.begin = FALSE]
        ELSE View(IF m >= v.page THEN 0 ELSE v.page - m, m >= v.page, v.end /\ ~empty)

\* update_text: the first of the jumps to lines from start to before end get
\* keys; they follow each other.
KeyOf(i) == (i - 1) % JUMP_NB
Keyed(t, start, end) ==
    LET here == {i \in DOMAIN t.jumps : start <= t.jumps[i] /\ t.jumps[i] < end}
    IN  {[line |-> t.jumps[i], key |-> KeyOf(i)] : i \in {j \in here : j - JUMP_NB \notin here}}

\* Before a page of search results is printed its lines are counted, which
\* may move its start back.
Settle(t, v, h) == IF t \in Results THEN BackLines(t, GetLines(t, v, h), h) ELSE v

\* print_page: a row for each line; past the end there is none.  Its length is
\* counted up to the line at which the end is reached.
LineAt(t, n) == IF n < t.lines THEN n ELSE NoLine
ToEnd(t, p) == IF t.newline \/ p = t.lines THEN t.lines - p + 1 ELSE t.lines - p

Printed(t, v, h) ==
    /\ page' = GetLines(t, v, h).page /\ begin_reached' = v.begin /\ end_reached' = GetLines(t, v, h).end
    /\ page_length' = Smaller(h, ToEnd(t, v.page))
    /\ rows' = [r \in 1..h |-> LineAt(t, v.page + r - 1)]

PrintPage(t, v, h) ==
    /\ keys' = IF t \in Results THEN Keyed(t, Settle(t, v, h).page, GetLines(t, v, h).page) ELSE {}
    /\ Printed(t, Settle(t, v, h), h)
    /\ state' = "box"

Now == View(page, begin_reached, end_reached)
Pages(v) == PrintPage(text, v, boxh) /\ UNCHANGED <<text, lines, vscroll>>
GoBack(n) == Pages(BackLines(text, Now, n))

-----------------------------------------------------------------------------
NoView ==
    /\ page' = 0 /\ begin_reached' = TRUE /\ end_reached' = FALSE /\ page_length' = 0
    /\ rows' = <<>> /\ keys' = {}

Init ==
    /\ text \in Results \cup Plain
    /\ lines \in Heights
    /\ page = 0 /\ begin_reached = TRUE /\ end_reached = FALSE /\ page_length = 0
    /\ rows = <<>> /\ keys = {} /\ vscroll = 0
    /\ state = "off"

\* search_conf, or show_textbox; after a jump the search is made again and
\* shown from where it was left.
Opened(t, skip) ==
    PrintPage(t, IF skip = 0 THEN View(0, TRUE, FALSE) ELSE GetLines(t, View(0, FALSE, FALSE), skip), boxh)

Open ==
    /\ state = "off"
    /\ text' \in Results \cup Plain
    /\ Opened(text', 0)
    /\ vscroll' = 0
    /\ UNCHANGED lines

SearchAgain ==
    /\ state = "search"
    /\ text' \in Results
    /\ Opened(text', vscroll)
    /\ UNCHANGED <<lines, vscroll>>

KeyHome == state = "box" /\ ~begin_reached /\ Pages(View(0, TRUE, end_reached))
KeyEnd == state = "box" /\ Pages(BackLines(text, View(text.lines, begin_reached, TRUE), boxh))
KeyUp == state = "box" /\ ~begin_reached /\ GoBack(page_length + 1)
KeyPageUp == state = "box" /\ ~begin_reached /\ GoBack(page_length + boxh)
KeyDown == state = "box" /\ ~end_reached /\ GoBack(page_length - 1)
KeyPageDown == state = "box" /\ ~end_reached /\ Pages(View(page, FALSE, end_reached))
KeySideways == state = "box" /\ GoBack(page_length)

\* The page starts as many lines before its end as the old terminal has but
\* for four.
Resize ==
    /\ state = "box"
    /\ lines' \in Heights \ {lines}
    /\ PrintPage(text, BackLines(text, Now, lines - 4), lines' - 8)
    /\ UNCHANGED <<text, vscroll>>

\* One of the keys: the place is saved, the user goes to the menu and back.
JumpKey ==
    /\ state = "box" /\ keys # {}
    /\ vscroll' = BackLines(text, Now, page_length).page
    /\ state' = "search"
    /\ NoView
    /\ UNCHANGED <<text, lines>>

Leave ==
    /\ state = "box"
    /\ state' = "off" /\ vscroll' = 0
    /\ NoView
    /\ UNCHANGED <<text, lines>>

Next ==
    \/ Open \/ SearchAgain \/ Resize \/ JumpKey \/ Leave
    \/ KeyHome \/ KeyEnd \/ KeyUp \/ KeyPageUp \/ KeyDown \/ KeyPageDown \/ KeySideways

Spec == Init /\ [][Next]_vars

-----------------------------------------------------------------------------
\* The first line that is shown; past the last one there is none.
First(rs) == IF rs[1] = NoLine THEN text.lines ELSE rs[1]

\* The rows show lines that follow each other; the flags and the length say
\* where in the text the page is; and the lines with a jump that are shown have
\* keys, no two the same, unless there are no more.
TextInView ==
    state = "box" =>
        /\ \A r \in DOMAIN rows : rows[r] = (IF First(rows) + r - 1 < text.lines THEN First(rows) + r - 1 ELSE NoLine)
        /\ begin_reached <=> First(rows) = 0
        /\ ~end_reached => page = First(rows) + boxh /\ page_length = boxh
        /\ {k.line : k \in keys} \subseteq Range(rows)
        /\ text \in Results =>
             \/ {k.key : k \in keys} = 0..JUMP_NB - 1
             \/ {k.line : k \in keys} = Range(text.jumps) \cap Range(rows)
        /\ \A k, l \in keys : k.key = l.key => k = l

\* A key moves the page by a line or a page, and never past what there is;
\* moving sideways, or to a menu and back, not at all.
TextMoves ==
    state = "box" /\ text.newline /\ UNCHANGED <<text, lines>> /\ state' = "box" =>
        /\ KeyUp => First(rows') = First(rows) - 1
        /\ KeyPageUp => First(rows') = (IF First(rows) > boxh THEN First(rows) - boxh ELSE 0)
        /\ KeyDown => First(rows') = First(rows) + 1
        /\ KeySideways => rows' = rows
=============================================================================

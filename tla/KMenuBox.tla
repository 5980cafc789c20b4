------------------------------ MODULE KMenuBox ------------------------------
(***************************************************************************)
(* The menus of menuconfig: conf and build_conf of support/kconfig/mconf.c *)
(* around the box of lxdialog/menubox.c.  What a user does in the box may  *)
(* change which entries there are the next time it is drawn, or how many   *)
(* rows it has.                                                            *)
(*                                                                         *)
(* Symbols are boolean and can be changed.  Rows, items and scroll         *)
(* positions count from 0, as in the code.                                 *)
(***************************************************************************)
EXTENDS Integers, Sequences, Functions

CONSTANTS
    Order,      \* the entries, as the Kconfig files have them
    Root, None, \* the menu all are in, and no entry at all
    Menu,       \* the menu an entry is listed in
    Tag,        \* its tag: "m" a menu, "t" a symbol, ":" a comment
    Needs,      \* the symbol an entry depends on, or None
    Letter,     \* its hotkey
    Heights,    \* the rows the box may have
    MaxFrames   \* bound: calls of conf within each other

Entry == Range(Order)
Letters == {Letter[e] : e \in Entry}

EntriesAssumption ==
    /\ Order \in Seq(Entry)
    /\ Root \notin Entry /\ None \notin Entry \cup {Root}
    /\ \A e \in Entry :
          /\ Menu[e] = Root \/ Tag[Menu[e]] = "m"
          /\ Needs[e] = None \/ Tag[Needs[e]] = "t"
HeightsAssumption == Heights \subseteq Nat \ {0}

VARIABLES
    on,         \* the symbols that are y
    all,        \* show_all_options
    frames,     \* the calls of conf, innermost first: menu, active_menu, s_scroll
    items,      \* the list the box shows
    height,     \* menu_height
    first_item, scroll, choice,
    rows,       \* what the rows of the box show, and which is highlighted
    resized,    \* the box was resized since it was opened
    state       \* "conf", "box", "off" or "crashed"

place == <<first_item, scroll, choice, rows>>
vars == <<on, all, frames, items, height, place, resized, state>>

Blank == [item |-> None, lit |-> FALSE]
Frame(menu, active) == [menu |-> menu, active |-> active, s_scroll |-> 0]

Init ==
    /\ on = {} /\ all = FALSE
    /\ frames = <<Frame(Root, None)>>
    /\ items = <<>>
    /\ height \in Heights
    /\ first_item = 0 /\ scroll = 0 /\ choice = 0 /\ rows = <<>>
    /\ resized = FALSE
    /\ state = "conf"

count == Len(items)
max_choice == IF height < count THEN height ELSE count
Item(n) == items[n + 1]
Current == Item(scroll + choice)

\* build_conf: what is visible, or may be shown all the same
Visible(e) == all \/ Needs[e] = None \/ Needs[e] \in on
Build(menu) ==
    LET list[n \in 0..Len(Order)] ==
            IF n = 0 THEN <<>>
            ELSE IF Menu[Order[n]] = menu /\ Visible(Order[n]) THEN Append(list[n - 1], Order[n])
            ELSE list[n - 1]
    IN  list[Len(Order)]

-----------------------------------------------------------------------------
\* Where the box opens: at the saved scroll position if it is one for this
\* list and has the selected item in view, else with it in the middle.  The
\* choice stays as it was if nothing is selected.
Chosen(list, selected, c) ==
    IF \E i \in DOMAIN list : list[i] = selected
    THEN (CHOOSE i \in DOMAIN list : list[i] = selected) - 1 ELSE c

Middle(c, n, max) == IF c >= n - max \div 2 THEN n - max ELSE c - max \div 2

\* Mutant: the saved position is good if the item is in view
PlaceInView(c, s, n, max, first) ==
    IF s <= c /\ s + max > c THEN [first |-> s, scroll |-> s, choice |-> c - s]
    ELSE IF c >= max
    THEN [first |-> Middle(c, n, max), scroll |-> Middle(c, n, max), choice |-> c - Middle(c, n, max)]
    ELSE [first |-> first, scroll |-> 0, choice |-> c]

Place(c, s, n, max, first) ==
    IF s <= c /\ s + max > c /\ s + max <= n THEN [first |-> s, scroll |-> s, choice |-> c - s]
    ELSE IF c >= max
    THEN [first |-> Middle(c, n, max), scroll |-> Middle(c, n, max), choice |-> c - Middle(c, n, max)]
    ELSE [first |-> first, scroll |-> 0, choice |-> c]

\* The rows from first on; beyond the end of the list there is no item to
\* read, and the program crashes.
Show(list, h, max, p) ==
    /\ first_item' = p.first /\ scroll' = p.scroll /\ choice' = p.choice
    /\ IF p.first + max > Len(list) THEN state' = "crashed" /\ rows' = <<>>
       ELSE /\ state' = "box"
            /\ rows' = [r \in 1..h |->
                          IF r <= max THEN [item |-> list[p.first + r], lit |-> r - 1 = p.choice] ELSE Blank]

Smaller(h, n) == IF h < n THEN h ELSE n

Draw(list, h, first, c) ==
    Show(list, h, Smaller(h, Len(list)),
         Place(Chosen(list, Head(frames).active, c), Head(frames).s_scroll, Len(list),
               Smaller(h, Len(list)), first))

\* A turn of conf: the list is built and the box opened.
Open ==
    /\ state = "conf"
    /\ items' = Build(Head(frames).menu)
    /\ Draw(items', height, 0, 0)
    /\ resized' = FALSE
    /\ UNCHANGED <<on, all, frames, height>>

\* The size of the terminal has changed: first_item and choice are not reset.
Resize ==
    /\ state = "box"
    /\ height' \in Heights \ {height}
    /\ Draw(items, height', first_item, choice)
    /\ resized' = TRUE
    /\ UNCHANGED <<on, all, frames, items>>

-----------------------------------------------------------------------------
\* What the keys that move do, on the box as it is on the screen
Box == [scroll |-> scroll, choice |-> choice, rows |-> rows]

Lit(n, lit) == [item |-> Item(n), lit |-> lit]
PrintItem(b, n, row, lit) == [b EXCEPT !.rows[row + 1] = Lit(n, lit)]

\* n more items in view, above or below; in a box that scrolls all rows are
\* those of items.
Above(b, n) ==
    [b EXCEPT !.scroll = @ - n,
              !.rows = [r \in 1..height |-> IF r <= n THEN Lit(b.scroll - n + r - 1, FALSE) ELSE b.rows[r - n]]]
Below(b, n) ==
    [b EXCEPT !.scroll = @ + n,
              !.rows = [r \in 1..height |->
                          IF r > height - n THEN Lit(b.scroll + n + r - 1, FALSE) ELSE b.rows[r + n]]]

Up(b) ==
    IF b.choice < 2 /\ b.scroll > 0 THEN Above(b, 1)
    ELSE [b EXCEPT !.choice = IF @ > 0 THEN @ - 1 ELSE 0]

Down(b) ==
    IF b.choice > max_choice - 3 /\ b.scroll + max_choice < count THEN Below(b, 1)
    ELSE [b EXCEPT !.choice = IF @ < max_choice - 1 THEN @ + 1 ELSE @]

\* max_choice steps, each of which scrolls, or else moves the highlight
PageUp(b) ==
    LET n == Smaller(max_choice, b.scroll)
    IN  [Above(b, n) EXCEPT !.choice = @ - Smaller(max_choice - n, @)]
PageDown(b) ==
    LET n == Smaller(max_choice, count - max_choice - b.scroll)
    IN  [Below(b, n) EXCEPT !.choice = @ + Smaller(max_choice - n, max_choice - 1 - @)]

\* The rows whose item has a letter; the next one below the choice is first.
WithLetter(k) == {r \in 0..max_choice - 1 : Letter[Item(scroll + r)] = k}
Next0(rs) == IF \E r \in rs : r > choice THEN {r \in rs : r > choice} ELSE rs
Hotkey(b, k) == [b EXCEPT !.choice = CHOOSE r \in Next0(WithLetter(k)) : \A q \in Next0(WithLetter(k)) : r <= q]

\* The highlight is taken off, put on again, and the key done between.
Moved(b) ==
    /\ scroll' = b.scroll /\ choice' = b.choice
    /\ rows' = PrintItem(b, b.scroll + b.choice, b.choice, TRUE).rows
    /\ UNCHANGED <<on, all, frames, items, height, first_item, resized, state>>
Plain == PrintItem(Box, scroll + choice, choice, FALSE)

Shown == state = "box" /\ count # 0

KeyUp == Shown /\ Moved(Up(Plain))
KeyDown == Shown /\ Moved(Down(Plain))
KeyPageUp == Shown /\ Moved(PageUp(Plain))
KeyPageDown == Shown /\ Moved(PageDown(Plain))
KeyLetter == Shown /\ \E k \in Letters : WithLetter(k) # {} /\ Moved(Hotkey(Plain, k))

-----------------------------------------------------------------------------
\* A key that ends the box: the scroll position is saved, and conf goes on
\* with the item that is selected.
Selected == IF count = 0 THEN None ELSE Current
Top == [Head(frames) EXCEPT !.s_scroll = scroll, !.active = Selected]
Is(tag) == count # 0 /\ Tag[Current] = tag

\* The box is gone.
Gone ==
    /\ items' = <<>> /\ rows' = <<>>
    /\ first_item' = 0 /\ scroll' = 0 /\ choice' = 0
    /\ resized' = FALSE
    /\ UNCHANGED height

Ends(stack) ==
    /\ state = "box"
    /\ frames' = stack
    /\ state' = "conf"
    /\ Gone

\* Enter on Select, or a space, on a menu.  The buttons are other ways to
\* the keys below.
EnterMenu ==
    /\ Is("m") /\ Len(frames) < MaxFrames
    /\ Ends(<<Frame(Current, None), Top>> \o Tail(frames))
    /\ UNCHANGED <<on, all>>

SetYes == Is("t") /\ Ends(<<Top>> \o Tail(frames)) /\ on' = on \cup {Current} /\ UNCHANGED all
SetNo == Is("t") /\ Ends(<<Top>> \o Tail(frames)) /\ on' = on \ {Current} /\ UNCHANGED all

\* Help, Save, Load, and keys that mean nothing for the item
OtherBox == Ends(<<Top>> \o Tail(frames)) /\ UNCHANGED <<on, all>>

ShowAll == Ends(<<Top>> \o Tail(frames)) /\ all' = ~all /\ UNCHANGED on

\* A jump from the results of a search: to an entry that is visible
Jump ==
    /\ \E e \in Entry :
          /\ Visible(e)
          /\ Ends(<<Frame(Menu[e], e), Top>> \o Tail(frames))
    /\ Len(frames) < MaxFrames
    /\ UNCHANGED <<on, all>>

\* Escape, or Enter on Exit, which saves the scroll position first
Leave ==
    /\ state = "box"
    /\ frames' = Tail(frames)
    /\ state' = IF Len(frames) = 1 THEN "off" ELSE "conf"
    /\ Gone
    /\ UNCHANGED <<on, all>>

\* menuconfig again
Start ==
    /\ state \in {"off", "crashed"}
    /\ frames' = <<Frame(Root, None)>>
    /\ all' = FALSE
    /\ state' = "conf"
    /\ Gone
    /\ UNCHANGED on

Next ==
    \/ Open \/ Resize
    \/ KeyUp \/ KeyDown \/ KeyPageUp \/ KeyPageDown \/ KeyLetter
    \/ EnterMenu \/ SetYes \/ SetNo \/ OtherBox \/ ShowAll \/ Jump \/ Leave \/ Start

Spec == Init /\ [][Next]_vars

-----------------------------------------------------------------------------
\* A box that was resized is placed anew, with first_item as it was: that goes
\* wrong only if there is a saved scroll position, beyond the new choice or the
\* new size.
Fits == resized => Head(frames).s_scroll = 0

\* The rows show the items from the scroll position on, the one that is
\* chosen, and no other, is highlighted, and as many are in view as fit.
RowsShowItems ==
    Fits =>
        /\ state # "crashed"
        /\ state = "box" =>
             /\ scroll >= 0 /\ scroll + max_choice <= count
             /\ choice >= 0 /\ (count # 0 => choice < max_choice)
             /\ \A r \in 1..height :
                   rows[r] = IF r <= max_choice
                             THEN [item |-> items[scroll + r], lit |-> r - 1 = choice] ELSE Blank

\* The user acts on the entry he sees highlighted and finds it highlighted
\* again, as long as it is there, whatever his act has changed above it; a key
\* moves the highlight by one.
HighlightStays ==
    /\ state = "conf" /\ state' = "box" /\ Head(frames).active \in Range(items')
          => Current' = Head(frames).active
    /\ KeyUp => scroll' + choice' = (IF scroll + choice > 0 THEN scroll + choice - 1 ELSE 0)
    /\ KeyDown => scroll' + choice' = (IF scroll + choice < count - 1 THEN scroll + choice + 1 ELSE count - 1)

\* Menus may change their size on the fly.
NeverCrashes == state # "crashed"
=============================================================================

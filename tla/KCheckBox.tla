------------------------------ MODULE KCheckBox -----------------------------
(***************************************************************************)
(* The list in which menuconfig has a value of a choice picked             *)
(* (dialog_checklist of support/kconfig/lxdialog/checklist.c, on the list  *)
(* of util.c), and conf_choice of mconf.c, which makes the list and opens  *)
(* the box until something is picked.                                      *)
(*                                                                         *)
(* Rows and items count from 0, as in the code.                            *)
(***************************************************************************)
EXTENDS Integers, Sequences, Functions

CONSTANTS
    Order,      \* what is visible in the choice: symbols and comments
    Comment,    \* the comments
    Letter,     \* what the text of each begins with
    None,       \* no symbol
    list_height

Entry == Range(Order)
EntriesAssumption ==
    /\ Order \in Seq(Entry)
    /\ None \notin Entry /\ Comment \subseteq Entry /\ Entry # Comment
    /\ IsInjective(Order)
HeightAssumption == list_height \in Nat \ {0, 1}

VARIABLES
    picked,     \* the value of the choice
    active,     \* the symbol last acted on
    scroll, choice,
    list,       \* the rows on the screen: the item, whether it has an X, and is lit
    open

vars == <<picked, active, scroll, choice, list, open>>

count == Len(Order)
max_choice == IF list_height < count THEN list_height ELSE count
Item(n) == Order[n + 1]
Current == Item(scroll + choice)
Symbol(e) == IF e \in Comment THEN None ELSE e
Row(e, lit) == [item |-> e, x |-> e = picked, lit |-> lit]

Init ==
    /\ picked \in Entry \ Comment
    /\ active = None /\ scroll = 0 /\ choice = 0 /\ list = <<>> /\ open = FALSE

-----------------------------------------------------------------------------
\* The first item that is active, or else the value of the choice, is
\* highlighted; one that is out of view is shown in the last row.
Actives(a) == {i \in DOMAIN Order : Symbol(Order[i]) = a}
Place(a) ==
    IF Actives(a) # {} THEN (CHOOSE i \in Actives(a) : \A j \in Actives(a) : i <= j) - 1
    ELSE (CHOOSE i \in DOMAIN Order : Order[i] = picked) - 1
Beyond(n) == IF n >= list_height THEN n - list_height + 1 ELSE 0

PrintList(first, lit) ==
    /\ scroll' = first /\ choice' = lit
    /\ list' = [r \in 1..max_choice |-> Row(Item(first + r - 1), r - 1 = lit)]

\* A turn of conf_choice
Shown(a) ==
    /\ PrintList(Beyond(Place(a)), Place(a) - Beyond(Place(a)))
    /\ active' = a /\ open' = TRUE
    /\ UNCHANGED picked

Open == ~open /\ Shown(picked)

\* The size of the terminal has changed, which the box does not depend on.
Resize == open /\ PrintList(scroll, choice) /\ UNCHANGED <<picked, active, open>>

-----------------------------------------------------------------------------
Keeps == UNCHANGED <<picked, active, open>>

\* In the first and the last row the list scrolls under the highlight.
Up ==
    /\ open /\ choice = 0 /\ scroll > 0
    /\ scroll' = scroll - 1 /\ UNCHANGED choice
    /\ list' = <<Row(Item(scroll - 1), TRUE), Row(Item(scroll), FALSE)>> \o SubSeq(list, 2, max_choice - 1)
    /\ Keeps

Down ==
    /\ open /\ choice = max_choice - 1 /\ scroll + choice < count - 1
    /\ scroll' = scroll + 1 /\ UNCHANGED choice
    /\ list' = SubSeq(list, 2, max_choice - 1)
                 \o <<Row(Item(scroll + choice), FALSE), Row(Item(scroll + max_choice), TRUE)>>
    /\ Keeps

Highlight(r) ==
    /\ open
    /\ choice' = r /\ UNCHANGED scroll
    /\ list' = [list EXCEPT ![choice + 1] = Row(Current, FALSE), ![r + 1] = Row(Item(scroll + r), TRUE)]
    /\ Keeps

UpRow == choice > 0 /\ Highlight(choice - 1)
DownRow == choice < max_choice - 1 /\ Highlight(choice + 1)

\* A letter goes to the first row in view that begins with it, be it one of
\* the letters that mean something else otherwise.
WithLetter(k) == {r \in 0..max_choice - 1 : Letter[Item(scroll + r)] = k}
KeyLetter ==
    \E k \in {Letter[e] : e \in Entry} :
        /\ WithLetter(k) # {}
        /\ \E r \in WithLetter(k) \ {choice} : (\A q \in WithLetter(k) : r <= q) /\ Highlight(r)

-----------------------------------------------------------------------------
Gone == active' = None /\ scroll' = 0 /\ choice' = 0 /\ list' = <<>> /\ open' = FALSE

\* Enter or a space, or s where no row in view begins with it.  A comment
\* cannot be picked: the box is opened again.
Select ==
    /\ open
    /\ IF Current \in Comment THEN Shown(active) ELSE picked' = Current /\ Gone

\* Enter with the button Help selected, or h or ?
Help == open /\ Shown(Symbol(Current))

Escape == open /\ Gone /\ UNCHANGED picked

Next == Open \/ Resize \/ Up \/ Down \/ UpRow \/ DownRow \/ KeyLetter \/ Select \/ Help \/ Escape

Spec == Init /\ [][Next]_vars

-----------------------------------------------------------------------------
\* The rows show the items from the scroll position on, the one that is
\* chosen is highlighted, and the X is at the value of the choice.
ListInView ==
    open =>
        /\ scroll >= 0 /\ scroll + max_choice <= count /\ choice \in 0..max_choice - 1
        /\ list = [r \in 1..max_choice |->
                     [item |-> Order[scroll + r], x |-> Order[scroll + r] = picked, lit |-> r - 1 = choice]]

\* What is picked is what the screen shows highlighted; a key moves the
\* highlight to the next item; a symbol is highlighted still when its help text
\* is gone.
PickIsHighlit ==
    /\ picked' # picked => list[choice + 1].item = picked'
    /\ Up \/ UpRow => scroll' + choice' = scroll + choice - 1
    /\ Down \/ DownRow => scroll' + choice' = scroll + choice + 1
    /\ Help /\ Current \notin Comment => Current' = Current
=============================================================================

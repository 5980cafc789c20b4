------------------------------- MODULE KTree -------------------------------
(***************************************************************************)
(* The menu tree of a configuration program: parsed, finalized once, then  *)
(* looked at while the values of the symbols change.                       *)
(***************************************************************************)
EXTENDS KMenu

CONSTANTS Trees     \* what the files may contain

VARIABLES
    tree,       \* the entries as they were parsed
    menus,      \* what menu_finalize has made of them
    finalized,
    value       \* of the symbols

vars == <<tree, menus, finalized, value>>

Init ==
    /\ tree \in Trees
    /\ menus = Parsed(tree)
    /\ finalized = FALSE
    /\ value = [s \in Symbols |-> No]

\* conf_parse: menu_finalize(&rootmenu)
ConfParse ==
    /\ ~finalized
    /\ menus' = Finalized(tree)
    /\ finalized' = TRUE
    /\ UNCHANGED <<tree, value>>

\* A symbol of a boolean or a tristate gets another value.
SetValue(s, x) ==
    /\ finalized
    /\ x # value[s]
    /\ value' = [value EXCEPT ![s] = x]
    /\ UNCHANGED <<tree, menus, finalized>>

Next ==
    \/ ConfParse
    \/ \E s \in Symbols, x \in {No, Mod, Yes} :
          /\ x = Mod => s \in Tristate
          /\ SetValue(s, x)

Spec == Init /\ [][Next]_vars

-----------------------------------------------------------------------------
Holds(e) == Value(e, value) # No

\* What the file says of an entry: its own dependencies, and what holds of all
\* that is above it, up to a choice, which stands for what is above that.
RECURSIVE Allowed(_)
Allowed(i) ==
    LET p == tree[i].parent
    IN  /\ Holds(tree[i].dep)
        /\ p # 0 =>
              IF tree[p].kind = "choice" THEN value[tree[p].sym] # No
              ELSE Holds(tree[p].if) /\ Allowed(p)

Shown(i) ==
    /\ Allowed(i) /\ Holds(tree[i].if)
    /\ tree[i].sym # NoSymbol =>
          \A j \in Above(tree, i) \ {0} : Holds(tree[j].visibility)

RECURSIVE FinalAbove(_)
FinalAbove(i) ==
    LET up == {j \in Entries(tree) : i \in ToSet(menus.kids[j])}
    IN  up \cup UNION {FinalAbove(j) : j \in up}

\* The tree: no entry is lost or appears twice when entries are moved under
\* others and out of those without a prompt, and all stay in the order of the
\* file (menu_finalize, last_menu and the splicing of lists).
TreeInOrder == Walk(menus, 0) = [i \in Entries(tree) |-> i]

\* A prompt is shown when the file says so: its own condition, the
\* dependencies of the entry, and those of all that is above it, are kept by
\* the rewriting on the way down.
PromptIsEffective ==
    finalized =>
        \A i \in Entries(tree) :
            tree[i].prompt => (Holds(menus.prompt[i]) <=> Shown(i))

\* A symbol is selected when some entry that selects it is on and allowed to,
\* and a choice that is not optional when its prompt is shown.
SelectedBySome ==
    finalized =>
        \A s \in Symbols :
            (menus.rev[s] # Null /\ Holds(menus.rev[s])) <=>
                \E i \in Entries(tree) :
                    \/ /\ tree[i].sym # NoSymbol /\ value[tree[i].sym] # No /\ Allowed(i)
                       /\ \E x \in ToSet(tree[i].selects) :
                              x.target = s /\ Holds(x.if)
                    \/ /\ tree[i].kind = "choice" /\ tree[i].sym = s
                       /\ ~tree[i].optional /\ Shown(i)

\* The direct dependencies of a symbol, those a selection is reported to leave
\* unmet, hold when one of its entries is allowed.  Entries without any
\* dependencies do not count beside one that has some: expr_alloc_or takes the
\* missing expression of the former for nothing, not for "y".
DirectDependencies ==
    finalized =>
        \A s \in Symbols :
            menus.dir[s] # Null =>
                (Holds(menus.dir[s]) <=>
                    \E i \in Entries(tree) :
                        tree[i].sym = s /\ menus.dep[i] # Null /\ Allowed(i))

\* No symbol is on against its direct dependencies, as one that is selected may be.
NoneUnmet ==
    \A s \in Symbols :
        value[s] # No /\ menus.dir[s] # Null => Holds(menus.dir[s])

\* An entry that was moved can be reached: if its prompt is shown, so is all
\* that it has been put under (menu_is_visible), though the symbol above it
\* may be off, or its own prompt hidden.  With a selection against the direct
\* dependencies this is lost: an entry that needs the selected symbol has
\* moved, with it, under what that symbol depends on.
CanBeReached ==
    finalized /\ NoneUnmet =>
        \A i \in Entries(tree) :
            tree[i].prompt /\ Holds(menus.prompt[i])
               /\ (\A j \in FinalAbove(i) : tree[j].kind # "menu") =>
                \A j \in FinalAbove(i) : IsVisible(tree, menus, j, value)

\* Every symbol in a choice block is one of its values or belongs to one of
\* them, whatever "if" it stands in.
RECURSIVE BlockOf(_)
BlockOf(i) ==       \* the choice entry i stands in, or 0
    LET p == tree[i].parent
    IN  IF p = 0 \/ tree[p].kind = "choice" THEN p
        ELSE IF tree[p].kind = "if" THEN BlockOf(p) ELSE 0

ChoiceIsWhole ==
    finalized =>
        \A i \in Entries(tree) :
            tree[i].kind = "config" /\ BlockOf(i) # 0 =>
                LET values == ToSet(menus.values[tree[BlockOf(i)].sym])
                IN  \/ tree[i].sym \in values
                    \/ \E j \in FinalAbove(i) : tree[j].sym \in values
=============================================================================

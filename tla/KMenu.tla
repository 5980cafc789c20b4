------------------------------- MODULE KMenu -------------------------------
(***************************************************************************)
(* The menu tree of kconfig and menu_finalize (support/kconfig/menu.c):    *)
(* dependencies go down the tree and into the properties of the symbols,   *)
(* entries that depend on the one above them move under it, entries        *)
(* without a prompt hand their children to their parent.                   *)
(*                                                                         *)
(* A parsed Kconfig is a sequence of entries in the order of the file,     *)
(* each with its place in the tree.  Place 0 is the root menu.             *)
(***************************************************************************)
EXTENDS KExpr, SequencesExt

CONSTANTS
    Symbols,    \* the symbols that are configured, choices included
    NoSymbol    \* the symbol of an entry that has none

NoKids == <<>>

\* An entry as the parser leaves it has a kind (config, choice, menu, comment or
\* if), a symbol, a parent, dependencies and, when it has a prompt, the
\* condition "if" of the prompt; defaults, ranges and selects with a condition
\* each; a menu has a "visibility".
Entries(t) == DOMAIN t
HasPrompt(t, i) == i # 0 /\ t[i].prompt
IsChoice(t, i) == i # 0 /\ t[i].kind = "choice"
ChoiceSymbols(t) == {t[i].sym : i \in {j \in Entries(t) : IsChoice(t, j)}}

RECURSIVE Above(_, _)
Above(t, i) == IF i = 0 THEN {} ELSE {t[i].parent} \cup Above(t, t[i].parent)

\* The children of a place as they were parsed
ParsedKids(t) ==
    [i \in 0..Len(t) |-> SelectSeq([j \in 1..Len(t) |-> j], LAMBDA j : t[j].parent = i)]

\* menu_add_prop: a prompt of a symbol is also subject to the visibility of
\* all menus above.
ParsedPrompt(t, i) ==
    LET menus == {j \in Above(t, i) \ {0} : t[j].visibility # Null}
    IN  IF t[i].sym = NoSymbol THEN t[i].if
        ELSE FoldLeft(LAMBDA e, j : IF j \in menus THEN AllocAnd(e, t[j].visibility) ELSE e,
                      t[i].if, [j \in 1..Len(t) |-> Len(t) + 1 - j])

\* What menu_finalize works on: the tree, and the expressions it replaces
Parsed(t) ==
    [kids |-> ParsedKids(t),
     dep |-> [i \in Entries(t) |-> t[i].dep],
     prompt |-> [i \in Entries(t) |-> IF t[i].prompt THEN ParsedPrompt(t, i) ELSE Null],
     defaults |-> [i \in Entries(t) |-> t[i].defaults],
     ranges |-> [i \in Entries(t) |-> t[i].ranges],
     rev |-> [s \in Symbols |-> Null],
     dir |-> [s \in Symbols |-> Null],
     values |-> [s \in ChoiceSymbols(t) |-> <<>>]]

-----------------------------------------------------------------------------
\* What the children of place p depend on through it
ParentDep(t, f, p) ==
    IF p = 0 THEN Null
    ELSE IF IsChoice(t, p) THEN Symbol(t[p].sym)
    ELSE IF HasPrompt(t, p) THEN f.prompt[p] ELSE f.dep[p]

\* The condition of a property of entry i, with the entry's dependencies
PropDep(t, i, dep, if) ==
    LET e == EliminateDups(AllocAnd(dep, Transform(if)))
    IN  IF t[i].sym # NoSymbol /\ t[i].sym \notin Tristate THEN TransBool(e) ELSE e

\* rev_dep of the symbols entry i selects
SelectAll(t, f, i, dep) ==
    FoldLeft(LAMBDA rev, x :
                [rev EXCEPT ![x.target] =
                    AllocOr(@, AllocAnd(Symbol(t[i].sym), PropDep(t, i, dep, x.if)))],
             f.rev, t[i].selects)

Conditioned(t, i, dep, props) ==
    [k \in DOMAIN props |-> [props[k] EXCEPT !.if = PropDep(t, i, dep, @)]]

PropagateTo(t, parentdep, f, i) ==
    LET dep == EliminateDups(AllocAnd(parentdep, Transform(f.dep[i])))
    IN  [f EXCEPT !.dep[i] = dep,
                  !.prompt[i] = IF HasPrompt(t, i) THEN PropDep(t, i, dep, @) ELSE @,
                  !.defaults[i] = Conditioned(t, i, dep, @),
                  !.ranges[i] = Conditioned(t, i, dep, @),
                  !.rev = IF t[i].sym = NoSymbol THEN @ ELSE SelectAll(t, f, i, dep)]

Propagate(t, f, p) ==
    LET parentdep == ParentDep(t, f, p)
    IN  FoldLeft(LAMBDA g, i : PropagateTo(t, parentdep, g, i), f, f.kids[p])

Compared(e) == EliminateDups(Transform(TransCompare(e, "unequal", "n")))

\* Mutant: that it contains the symbol is enough
GoesUnderAny(t, f, p, m) ==
    ContainsSymbol(IF HasPrompt(t, m) THEN f.prompt[m] ELSE f.dep[m], t[p].sym)

\* Entry m, which follows entry p, goes under it.
GoesUnder(t, f, p, m) ==
    LET s == t[p].sym
        dep == IF HasPrompt(t, m) THEN f.prompt[m] ELSE f.dep[m]
        base == IF HasPrompt(t, p) THEN f.prompt[p] ELSE Null
    IN  /\ ContainsSymbol(dep, s)
        /\ \/ DependsSymbol(dep, s)
           \/ IsYes(EliminateEq(Compared(dep), Compared(base))[2])

\* A choice gets its values; an entry without a prompt hands on its children.
RECURSIVE Settle(_, _, _, _)

Settle(t, f, p, i) ==
    IF i > Len(f.kids[p]) THEN f
    ELSE LET m == f.kids[p][i]
             isValue == /\ IsChoice(t, p) /\ t[m].sym # NoSymbol
                        /\ \A c \in ChoiceSymbols(t) : ~Contains(f.values[c], t[m].sym)
             g == IF isValue
                  THEN [f EXCEPT !.values[t[p].sym] = Append(@, t[m].sym)] ELSE f
             h == IF HasPrompt(t, m) THEN g
                  ELSE [g EXCEPT !.kids[p] = SubSeq(@, 1, i) \o f.kids[m]
                                             \o SubSeq(@, i + 1, Len(@)),
                                 !.kids[m] = NoKids]
         IN  Settle(t, h, p, i + 1)

\* A choice that is not optional is on when its prompt is visible.
SelectChoice(t, f, p) ==
    IF IsChoice(t, p) /\ ~t[p].optional /\ HasPrompt(t, p)
    THEN [f EXCEPT !.rev[t[p].sym] = AllocOr(@, AllocAnd(f.prompt[p], Symbol("m")))]
    ELSE f

RECURSIVE FinalizeKids(_, _, _, _), Absorb(_, _, _, _, _), FinalizeEntry(_, _, _, _)

\* menu_finalize of place p
Finalize(t, f, p) ==
    SelectChoice(t, Settle(t, FinalizeKids(t, Propagate(t, f, p), p, 1), p, 1), p)

FinalizeKids(t, f, p, i) ==
    IF i > Len(f.kids[p]) THEN f
    ELSE FinalizeKids(t, FinalizeEntry(t, f, p, i), p, i + 1)

\* Entry i of place q takes the entries after it; n are its own already.
Absorb(t, f, q, i, n) ==
    LET p == f.kids[q][i]
    IN  IF i + n < Len(f.kids[q]) /\ GoesUnder(t, f, p, f.kids[q][i + n + 1])
        THEN Absorb(t, FinalizeEntry(t, f, q, i + n + 1), q, i, n + 1)
        ELSE [f EXCEPT !.kids[p] = SubSeq(f.kids[q], i + 1, i + n),
                       !.kids[q] = SubSeq(@, 1, i) \o SubSeq(@, i + n + 1, Len(@))]

\* Mutant: the dependencies as they were parsed
FinalizeEntryOwnDir(t, f, q, i) ==
    LET p == f.kids[q][i]
    IN  IF f.kids[p] # NoKids \/ t[p].sym = NoSymbol THEN Finalize(t, f, p)
        ELSE LET g == Absorb(t, f, q, i, 0)
                 h == [g EXCEPT !.dir[t[p].sym] = AllocOr(@, t[p].dep)]
             IN  SelectChoice(t, Settle(t, h, p, 1), p)

FinalizeEntry(t, f, q, i) ==
    LET p == f.kids[q][i]
    IN  IF f.kids[p] # NoKids \/ t[p].sym = NoSymbol THEN Finalize(t, f, p)
        ELSE LET g == Absorb(t, f, q, i, 0)
                 h == [g EXCEPT !.dir[t[p].sym] = AllocOr(@, g.dep[p])]
             IN  SelectChoice(t, Settle(t, h, p, 1), p)

Finalized(t) == Finalize(t, Parsed(t), 0)

-----------------------------------------------------------------------------
\* menu_is_visible, the symbols having the values v
RECURSIVE IsVisible(_, _, _, _)
IsVisible(t, f, i, v) ==
    /\ HasPrompt(t, i)
    /\ t[i].visibility = Null \/ Value(t[i].visibility, v) # No
    /\ \/ Value(f.prompt[i], v) # No
       \/ /\ t[i].sym # NoSymbol
          /\ v[t[i].sym] # No
          /\ \E j \in ToSet(f.kids[i]) : IsVisible(t, f, j, v)

\* The places in the order menus are walked through
RECURSIVE Walk(_, _)
Walk(f, i) ==
    FoldLeft(LAMBDA w, j : w \o Walk(f, j), IF i = 0 THEN <<>> ELSE <<i>>, f.kids[i])
=============================================================================

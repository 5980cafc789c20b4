------------------------------ MODULE KSymbol ------------------------------
(***************************************************************************)
(* The values of the symbols (support/kconfig/symbol.c): calculated from   *)
(* what the user has set, the visibility of the prompts, the defaults, the *)
(* selections and the choices; kept until some value is set; recalculated  *)
(* on demand, one symbol at a time, in any order.                          *)
(*                                                                         *)
(* A configuration k is what menu_finalize leaves of a tree.  The state of *)
(* the symbols is a record st:                                             *)
(*   curr, chosen        curr.tri or curr.val; the value a choice is at    *)
(*   vis, rev, dir       visible, rev_dep.tri, dir_dep.tri                 *)
(*   valid, write, user, need   the symbols with the flag SYMBOL_VALID,    *)
(*                       _WRITE, _DEF_USER, _NEED_SET_CHOICE_VALUES        *)
(*   def, pick           def[S_DEF_USER]: tri or val; the value of a choice*)
(*   changed             sym_change_count # 0                              *)
(* There are no modules: modules_sym is symbol_no, as in Buildroot.        *)
(***************************************************************************)
EXTENDS KMenu, Integers

CONSTANTS Number    \* symbols that have a number or a text for a value

\* The empty string, which is 0 where a number is needed
Empty == -1
AsNumber(x) == IF x = Empty THEN 0 ELSE x
NumberConst(x) == <<"number", x>>

OfSymbolIn(t, props, s) ==
    FlattenSeq([i \in Entries(t) |-> IF t[i].sym = s THEN props[i] ELSE <<>>])

\* The symbols with their properties, after conf_parse
Table(t) ==
    LET f == Finalized(t)
        choices == ChoiceSymbols(t)
        one(i) == IF HasPrompt(t, i) THEN <<f.prompt[i]>> ELSE <<>>
    IN  [tree |-> t, menus |-> f, order |-> SelectSeq([i \in 1..Len(t) |-> t[i].sym], LAMBDA s : s # NoSymbol),
         prompts |-> [s \in Symbols |-> OfSymbolIn(t, [i \in Entries(t) |-> one(i)], s)],
         defaults |-> [s \in Symbols |-> OfSymbolIn(t, f.defaults, s)],
         ranges |-> [s \in Symbols |-> OfSymbolIn(t, f.ranges, s)],
         rev |-> f.rev, dir |-> f.dir, choices |-> choices, values |-> f.values,
         choiceOf |-> [s \in Symbols |->
            IF \E c \in choices : Contains(f.values[c], s)
            THEN CHOOSE c \in choices : Contains(f.values[c], s) ELSE NoSymbol],
         optional |-> {t[i].sym : i \in {j \in Entries(t) : t[j].optional}}]

IsValue(k, s) == k.choiceOf[s] # NoSymbol

Zero(s) == IF s \in Number THEN Empty ELSE No

\* A program that has just parsed the Kconfig files
Started ==
    [curr |-> [s \in Symbols |-> Zero(s)], chosen |-> [s \in Symbols |-> NoSymbol],
     vis |-> [s \in Symbols |-> No], rev |-> [s \in Symbols |-> No],
     dir |-> [s \in Symbols |-> No],
     valid |-> {}, write |-> {}, user |-> {}, need |-> {},
     def |-> [s \in Symbols |-> Zero(s)], pick |-> [s \in Symbols |-> NoSymbol],
     changed |-> FALSE]

ClearAllValid(st) == [st EXCEPT !.valid = {}, !.changed = TRUE]

\* The symbols of an expression, left to right
RECURSIVE SymbolsOf(_)
SymbolsOf(e) ==
    CASE Binary(e) -> SymbolsOf(Left(e)) \o SymbolsOf(Right(e))
      [] Op(e) = "not" -> SymbolsOf(Left(e))
      [] Op(e) = "symbol" -> IF Left(e) \in Const THEN <<>> ELSE <<Left(e)>>
      [] Op(e) \in {"equal", "unequal"} ->
            SelectSeq(<<Left(e), Right(e)>>, LAMBDA s : s \notin Const)
      [] OTHER -> <<>>

-----------------------------------------------------------------------------
RECURSIVE Calc(_, _, _), CalcAll(_, _, _)

CalcAll(k, st, seq) ==
    IF seq = <<>> THEN st ELSE CalcAll(k, Calc(k, st, Head(seq)), Tail(seq))
CalcExpr(k, st, e) == CalcAll(k, st, SymbolsOf(e))

\* sym_get_default_prop, sym_get_range_prop: the first property that holds
RECURSIVE FirstHolding(_, _, _), IfHolds(_, _, _)
FirstHolding(k, st, props) ==
    IF props = <<>> THEN [st |-> st, prop |-> <<>>]
    ELSE IfHolds(k, CalcExpr(k, st, Head(props).if), props)

IfHolds(k, x, props) ==     \* x: with the condition of the first calculated
    IF Value(Head(props).if, x.curr) # No THEN [st |-> x, prop |-> <<Head(props)>>]
    ELSE FirstHolding(k, x, Tail(props))

BoolOf(tri) == IF tri = Mod THEN Yes ELSE tri

\* The state y once the symbols of e are calculated, with what e is worth
WithValue(y, e) == [st |-> y, val |-> Value(e, y.curr)]
Worth(k, st, e) == WithValue(CalcExpr(k, st, e), e)

\* sym_calc_visibility; a choice value is neither selected nor warned about.
RECURSIVE Prompts(_, _, _)
Prompts(k, x, prompts) ==
    IF prompts = <<>> THEN x
    ELSE Prompts(k, [Worth(k, x.st, Head(prompts)) EXCEPT !.val = MaxOf(@, x.val)], Tail(prompts))
SetVisible(x, s) == [x.st EXCEPT !.vis[s] = BoolOf(x.val)]
SetDir(x, s) == [x.st EXCEPT !.dir[s] = BoolOf(x.val)]
SetRev(k, x, s) == [x.st EXCEPT !.rev[s] = IF k.rev[s] = Null THEN No ELSE BoolOf(x.val)]
Selected(k, st, s) ==
    IF IsValue(k, s) THEN st
    ELSE SetRev(k, Worth(k, SetDir(Worth(k, st, k.dir[s]), s), k.rev[s]), s)
CalcVisibility(k, st, s) == Selected(k, SetVisible(Prompts(k, [st |-> st, val |-> No], k.prompts[s]), s), s)

\* sym_choice_default: a default that is visible, or the first visible value
RECURSIVE DefaultOf(_, _, _, _)
FirstVisible(st, values) ==
    LET visible == SelectSeq(values, LAMBDA v : st.vis[v] # No)
    IN  IF visible = <<>> THEN NoSymbol ELSE Head(visible)
AfterProp(props, p) ==
    LET n == CHOOSE n \in DOMAIN props : props[n] = p IN SubSeq(props, n + 1, Len(props))
VisibleDefault(k, x, c, defaults) ==
    IF x.prop = <<>> THEN [st |-> x.st, sym |-> FirstVisible(x.st, k.values[c])]
    ELSE IF x.st.vis[Left(x.prop[1].value)] # No
    THEN [st |-> x.st, sym |-> Left(x.prop[1].value)]
    ELSE DefaultOf(k, x.st, c, AfterProp(defaults, x.prop[1]))
DefaultOf(k, st, c, defaults) == VisibleDefault(k, FirstHolding(k, st, defaults), c, defaults)

ChoiceDefault(k, st, c) == DefaultOf(k, st, c, k.defaults[c])

\* The user's value if it is visible, or a default
Chosen(d, c) == [d.st EXCEPT !.chosen[c] = d.sym,
                             !.curr[c] = IF d.sym = NoSymbol THEN No ELSE @]
\* Mutant: the user's value counts whether it is visible or not
PickValueHidden(k, st, c) ==
    IF st.pick[c] # NoSymbol THEN [st EXCEPT !.chosen[c] = st.pick[c]]
    ELSE Chosen(ChoiceDefault(k, st, c), c)
PickValue(k, st, c) ==
    IF st.pick[c] # NoSymbol /\ st.vis[st.pick[c]] # No THEN [st EXCEPT !.chosen[c] = st.pick[c]]
    ELSE Chosen(ChoiceDefault(k, st, c), c)

\* The choice is new again when one of its visible values is.
NewAgain(k, st, c) ==
    IF \E v \in ToSet(k.values[c]) : st.vis[v] # No /\ v \notin st.user
    THEN [st EXCEPT !.user = @ \ {c}] ELSE st

\* sym_calc_choice
CalcChoice(k, st, c) ==
    PickValue(k, NewAgain(k, FoldLeft(LAMBDA x, v : CalcVisibility(k, x, v), st, k.values[c]), c), c)

-----------------------------------------------------------------------------
\* What a symbol that is visible to no one, or not set, is by default
WrittenIf(c, st, s) == IF c THEN [st EXCEPT !.write = @ \cup {s}] ELSE st
Result(st, x) == [st |-> st, val |-> x]

\* The default p of the state x: its value, unless its condition is worth less
DefaultWorth(x, p) == [x EXCEPT !.val = MinOf(@, Value(p.if, x.st.curr))]
FromDefault(k, x, s) ==
    IF x.prop = <<>> THEN Result(x.st, No)
    ELSE DefaultWorth(Worth(k, WrittenIf(TRUE, x.st, s), x.prop[1].value), x.prop[1])
DefaultBool(k, st, s) ==
    IF s \in k.choices THEN Result(st, No) ELSE FromDefault(k, FirstHolding(k, st, k.defaults[s]), s)

AtLeastRev(x, s) == [x EXCEPT !.val = BoolOf(MaxOf(@, x.st.rev[s]))]
NewBool(k, st, s) ==
    IF IsValue(k, s) /\ st.vis[s] = Yes
    THEN Result(st, IF st.chosen[k.choiceOf[s]] = s THEN Yes ELSE No)
    ELSE AtLeastRev(IF st.vis[s] # No /\ s \in st.user
                    THEN Result(WrittenIf(TRUE, st, s), MinOf(st.def[s], st.vis[s]))
                    ELSE DefaultBool(k, WrittenIf(st.vis[s] # No \/ st.rev[s] # No, st, s), s), s)

\* What a number refers to
ValueIn(x, s) == Result(x, x.curr[s])
NumberOf(k, st, e) ==
    IF Op(e) = "number" THEN Result(st, e[2]) ELSE ValueIn(Calc(k, st, Left(e)), Left(e))

NumberFrom(k, x, s) ==
    IF x.prop = <<>> THEN Result(x.st, Empty)
    ELSE NumberOf(k, WrittenIf(TRUE, x.st, s), x.prop[1].value)
NewNumber(k, st, s) ==
    IF st.vis[s] # No /\ s \in st.user THEN Result(WrittenIf(TRUE, st, s), st.def[s])
    ELSE NumberFrom(k, FirstHolding(k, WrittenIf(st.vis[s] # No, st, s), k.defaults[s]), s)

\* A range x, its lower bound calculated, then both: sym_validate_range and
\* sym_string_within_range compare a value with them.
WithHigh(k, x, low) == [low |-> low, high |-> NumberOf(k, low.st, x.prop[1].high)]
Bounds(k, x) == WithHigh(k, x, NumberOf(k, x.st, x.prop[1].low))

\* sym_validate_range
Clamp(b, s, val) ==
    IF val < AsNumber(b.low.val) THEN [b.low.st EXCEPT !.curr[s] = AsNumber(b.low.val)]
    ELSE IF val > AsNumber(b.high.val) THEN [b.high.st EXCEPT !.curr[s] = AsNumber(b.high.val)]
    ELSE b.high.st
ClampIn(k, x, s) ==
    IF x.prop = <<>> THEN x.st ELSE Clamp(Bounds(k, x), s, AsNumber(x.st.curr[s]))
ValidateRange(k, st, s) == ClampIn(k, FirstHolding(k, st, k.ranges[s]), s)

\* The visible values of a choice that is written are written.
WriteValues(k, st, c) ==
    [st EXCEPT !.write = @ \cup {v \in ToSet(k.values[c]) : c \in st.write /\ st.vis[v] # No}]

\* set_all_choice_values: all values that are not assigned are "n".
SetAllChoiceValues(k, st, c) ==
    [st EXCEPT !.def = [s \in Symbols |->
                    IF s \in ToSet(k.values[c]) \ st.user THEN No ELSE @[s]],
               !.user = @ \cup {c}, !.valid = @ \ {c}, !.need = @ \ {c}]

\* sym_calc_value: its choice first, if that is needed; the visibility; the
\* value; and what follows from the value.
Prepared(k, st, s) ==
    IF IsValue(k, s) /\ s \in st.need
    THEN Calc(k, [st EXCEPT !.need = @ \ {s}], k.choiceOf[s]) ELSE st
Begun(k, st, s) ==
    [st EXCEPT !.valid = @ \cup {s}, !.write = IF IsValue(k, s) THEN @ ELSE @ \ {s}]
Cleared(st, s) == [st EXCEPT !.curr[s] = Zero(s), !.chosen[s] = NoSymbol]
NewValue(k, st, s) == IF s \in Number THEN NewNumber(k, st, s) ELSE NewBool(k, st, s)
Given(x, s) == [x.st EXCEPT !.curr[s] = x.val]
SetAllIfNeeded(k, st, c) == IF c \in st.need THEN SetAllChoiceValues(k, st, c) ELSE st
FollowUp(k, st, s) ==
    IF s \in Number THEN ValidateRange(k, st, s)
    ELSE IF s \in k.choices
    THEN SetAllIfNeeded(k, WriteValues(k, IF st.curr[s] = Yes THEN CalcChoice(k, st, s) ELSE st, s), s)
    ELSE st

Calc(k, st, s) ==
    IF s \in st.valid THEN st
    ELSE FollowUp(k, Given(NewValue(k,
            Cleared(CalcVisibility(k, Begun(k, Prepared(k, st, s), s), s), s), s), s), s)

-----------------------------------------------------------------------------
\* menu_is_visible of entry i, with what it leaves in the symbols: a symbol
\* that is shown only for its children counts as set by the user.
RECURSIVE LookAt(_, _, _), LookFor(_, _, _)
LookFor(k, y, kids) ==      \* up to the first of the children that is visible
    IF y.visible \/ kids = <<>> THEN y ELSE LookFor(k, LookAt(k, y.st, Head(kids)), Tail(kids))

ForChildren(kid, s) == [kid EXCEPT !.st.user = IF kid.visible THEN @ \cup {s} ELSE @]
LookAtPrompt(k, x, i) ==    \* the symbol, or the prompt, has been calculated
    LET s == k.tree[i].sym
    IN  IF Value(k.menus.prompt[i], x.curr) # No THEN [st |-> x, visible |-> TRUE]
        ELSE IF s = NoSymbol \/ x.curr[s] = No THEN [st |-> x, visible |-> FALSE]
        ELSE ForChildren(LookFor(k, [st |-> x, visible |-> FALSE], k.menus.kids[i]), s)
LookInside(k, x, i) ==      \* the visibility of the menu has been calculated
    LET s == k.tree[i].sym
    IN  IF Value(k.tree[i].visibility, x.curr) = No THEN [st |-> x, visible |-> FALSE]
        ELSE LookAtPrompt(k, IF s = NoSymbol THEN CalcExpr(k, x, k.menus.prompt[i])
                             ELSE Calc(k, x, s), i)

LookAt(k, x, i) ==
    IF ~k.tree[i].prompt THEN [st |-> x, visible |-> FALSE]
    ELSE LookInside(k, CalcExpr(k, x, k.tree[i].visibility), i)

-----------------------------------------------------------------------------
\* sym_tristate_within_range; the visibility is what was last calculated.
Within(k, st, s, val) ==
    /\ st.vis[s] # No /\ val # Mod
    /\ st.vis[s] > st.rev[s]
    /\ IF IsValue(k, s) /\ st.vis[s] = Yes THEN val = Yes
       ELSE st.rev[s] <= val /\ val <= st.vis[s]

CanSet(k, st, s, val) == st.curr[s] = val \/ Within(k, st, s, val)

\* Mutant: a choice value is set like any other symbol
SetTriAlone(k, st, s, val) ==
    LET new == [st EXCEPT !.user = @ \cup {s}, !.def[s] = val]
    IN  IF st.curr[s] = val THEN new ELSE ClearAllValid(new)

\* Mutant: only the symbol itself is calculated again
SetTriOne(k, st, s, val) ==
    LET c == k.choiceOf[s]
        visible == {v \in ToSet(k.values[c]) : st.vis[v] # No}
        set == IF IsValue(k, s) /\ val = Yes
               THEN [st EXCEPT !.pick[c] = s, !.user = @ \cup {s, c} \cup visible]
               ELSE [st EXCEPT !.user = @ \cup {s}]
    IN  [set EXCEPT !.def[s] = val, !.valid = @ \ {s}, !.changed = TRUE]

\* sym_set_tristate_value, where it returns true
SetTri(k, st, s, val) ==
    LET c == k.choiceOf[s]
        visible == {v \in ToSet(k.values[c]) : st.vis[v] # No}
        set == IF IsValue(k, s) /\ val = Yes
               THEN [st EXCEPT !.pick[c] = s, !.user = @ \cup {s, c} \cup visible]
               ELSE [st EXCEPT !.user = @ \cup {s}]
        new == [set EXCEPT !.def[s] = val]
    IN  IF st.curr[s] = val THEN new ELSE ClearAllValid(new)

\* sym_string_within_range
CompareTo(b, val) ==
    [st |-> IF val < AsNumber(b.low.val) THEN b.low.st ELSE b.high.st,
     ok |-> AsNumber(b.low.val) <= val /\ val <= AsNumber(b.high.val)]
WithinRange(k, x, val) ==
    IF x.prop = <<>> THEN [st |-> x.st, ok |-> TRUE] ELSE CompareTo(Bounds(k, x), val)
InRange(k, st, s, val) == WithinRange(k, FirstHolding(k, st, k.ranges[s]), val)

\* sym_set_string_value of a number, where it is in range.  The text that was
\* set before is not set again.
SetString(k, st, s, val) ==
    LET set == [st EXCEPT !.user = @ \cup {s}, !.def[s] = val]
    IN  IF st.def[s] = val THEN set ELSE ClearAllValid(set)

\* sym_toggle_tristate_value: the next value that can be set, "n" after "y"
Toggle(k, st, s) ==
    LET next == IF st.curr[s] = Yes THEN <<No, Mod, Yes>> ELSE <<Mod, Yes, No>>
        able == SelectSeq(next, LAMBDA x : CanSet(k, st, s, x))
    IN  SetTri(k, st, s, Head(able))
=============================================================================

------------------------------- MODULE KCheck -------------------------------
(***************************************************************************)
(* The search for recursive dependencies when the Kconfig files have been  *)
(* parsed (sym_check_deps in support/kconfig/symbol.c, conf_parse in       *)
(* zconf.y).  Every symbol is searched from, in the order of a hash table; *)
(* SYMBOL_CHECK marks those on the way, SYMBOL_CHECKED those that need not *)
(* be searched from again.                                                 *)
(***************************************************************************)
EXTENDS Naturals, SequencesExt

CONSTANTS
    Symbols,
    Choice,         \* a symbol that is a choice, or NoSymbol
    Values,         \* its values, as a sequence
    NoSymbol,
    Dependencies    \* what the symbols may depend on: functions to sequences

ChoiceAssumption ==
    /\ Choice \in Symbols \cup {NoSymbol}
    /\ ToSet(Values) \subseteq Symbols \ {Choice}
    /\ Choice = NoSymbol => Values = <<>>

VARIABLES
    deps,       \* the symbols in rev_dep and in the properties of each symbol
    left,       \* the symbols conf_parse has not come to
    flags,      \* SYMBOL_CHECK and SYMBOL_CHECKED, as two sets
    reported,   \* "recursive dependency detected!"
    errors      \* zconfnerrs # 0

vars == <<deps, left, flags, reported, errors>>

Init ==
    /\ deps \in Dependencies
    /\ left = Symbols
    /\ flags = [check |-> {}, checked |-> {}]
    /\ reported = FALSE
    /\ errors = FALSE

Found(f, s, r) == [flags |-> f, sym |-> s, reported |-> r]
AlsoReported(x, y) == [x EXCEPT !.reported = @ \/ y.reported]

RECURSIVE CheckDeps(_, _)

\* sym_check_sym_deps: until one of them is found to be recursive
CheckAll(f, seq) ==
    FoldLeft(LAMBDA x, s :
                IF x.sym # NoSymbol THEN x ELSE AlsoReported(CheckDeps(x.flags, s), x),
             Found(f, NoSymbol, FALSE), seq)

Marked(f, S) == [check |-> f.check \cup S, checked |-> f.checked \cup S]
Unmarked(x, S) == [x EXCEPT !.flags.check = @ \ S]
CheckMarked(f, S, seq) == Unmarked(CheckAll(Marked(f, S), seq), S)

\* sym_check_choice_deps: the choice, then its values, all of them marked
CheckValues(x) ==
    IF x.sym # NoSymbol THEN x
    ELSE AlsoReported(CheckAll(x.flags, FlattenSeq([n \in DOMAIN Values |-> deps[Values[n]]])), x)
ForChoice(x) == [x EXCEPT !.sym = IF @ \in ToSet(Values) THEN Choice ELSE @]
CheckChoice(f) ==
    ForChoice(Unmarked(CheckValues(CheckMarked(Marked(f, ToSet(Values)), {Choice}, deps[Choice])),
                       ToSet(Values)))

\* The search from a value is that from its choice; a recursion that comes
\* back to s ends there.
Search(f, s) == IF s \in ToSet(Values) THEN CheckDeps(f, Choice)
                ELSE IF s = Choice THEN CheckChoice(f) ELSE CheckMarked(f, {s}, deps[s])
EndsAt(s, x) == IF x.sym = s THEN [x EXCEPT !.sym = NoSymbol] ELSE x

\* Mutant: what has been searched from is not looked at, even on the way
CheckDepsOnce(f, s) ==
    IF s \in f.checked THEN Found(f, NoSymbol, FALSE) ELSE EndsAt(s, Search(f, s))

\* sym_check_deps
CheckDeps(f, s) ==
    IF s \in f.check THEN Found(f, s, TRUE)
    ELSE IF s \in f.checked THEN Found(f, NoSymbol, FALSE)
    ELSE EndsAt(s, Search(f, s))

\* conf_parse
Parse(s) ==
    /\ s \in left
    /\ \E x \in {CheckDeps(flags, s)} :
          /\ flags' = x.flags
          /\ reported' = (reported \/ x.reported)
          /\ errors' = (errors \/ x.sym # NoSymbol)
    /\ left' = left \ {s}
    /\ UNCHANGED deps

Finished == left = {} /\ UNCHANGED vars

Next == (\E s \in Symbols : Parse(s)) \/ Finished

Spec == Init /\ [][Next]_vars

-----------------------------------------------------------------------------
\* A choice and its values depend on one another and count as one; that the
\* values depend on the choice is no recursion.
Same(s) == IF s \in ToSet(Values) THEN Choice ELSE s
Edges == {<<Same(e[1]), Same(e[2])>> :
            e \in {f \in Symbols \X Symbols :
                     f[2] \in ToSet(deps[f[1]]) /\ ~(f[1] \in ToSet(Values) /\ f[2] = Choice)}}
RECURSIVE ReachedIn(_, _)
ReachedIn(n, S) == IF n = 0 THEN S
                   ELSE ReachedIn(n - 1, S \cup {e[2] : e \in {f \in Edges : f[1] \in S}})
Recursive == \E e \in Edges : e[1] \in ReachedIn(Cardinality(Symbols), {e[2]})

\* Whatever order the symbols come in, a recursion is reported if and only if
\* there is one; no mark is left on the way.
RecursionIsReported ==
    /\ left = {} => (reported <=> Recursive)
    /\ flags.check = {}
=============================================================================

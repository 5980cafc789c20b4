------------------------------ MODULE MCKFiles ------------------------------
(***************************************************************************)
(* What kconfig does with the Kconfig files it has read, before any symbol *)
(* is set: dependencies rewritten (KDeps), menu trees finalized (KTree),   *)
(* recursive dependencies searched for (KCheck).  Each behaviour is about  *)
(* one of them, chosen at the start with what the files contain.           *)
(***************************************************************************)
EXTENDS Naturals, SequencesExt

VARIABLES what,
    was, base, dep, above, stage,
    tree, menus, finalized, value,
    deps, left, flags, reported, errors

expressions == <<was, base, dep, above, stage>>
entries == <<tree, menus, finalized, value>>
search == <<deps, left, flags, reported, errors>>
vars == <<what, expressions, entries, search>>

ABCD == {"A", "B", "C", "D"}

\* To write the expressions below
INSTANCE KExpr WITH Boolean <- ABCD, Tristate <- {"T"}

-----------------------------------------------------------------------------
(***************************************************************************)
(* Dependencies of a few operators over two or three symbols: every        *)
(* combination of two of the listed ones by an operator, and negations.    *)
(***************************************************************************)
Combined(S, T) == {And(e, f) : e \in S, f \in T} \cup {Or(e, f) : e \in S, f \in T}
Negated(S) == {Not(e) : e \in S}

\* Boolean symbols only
BoolAtoms == {Symbol("A"), Symbol("B"), Symbol("y"), Equal("A", "n"), Unequal("B", "y"),
              Equal("A", "m"), Equal("A", "B")}
BoolLiterals == {Symbol("A"), Symbol("B"), Symbol("C"), Not(Symbol("A"))}
BoolTwo == Combined(BoolLiterals, BoolLiterals)
BoolParsed ==
    Negated(Combined(BoolAtoms, BoolAtoms)) \cup Combined(BoolTwo, BoolTwo)
BoolParents ==
    {Symbol("A"), Not(Symbol("A")), And(Symbol("A"), Symbol("B")),
     Or(Not(Symbol("A")), Symbol("B"))}

\* A tristate symbol with a boolean one
TriAtoms == {Symbol("T"), Not(Symbol("T")), Symbol("A"), Symbol("m")}
            \cup {Equal("T", c) : c \in Const} \cup {Unequal("T", c) : c \in Const}
TriTwo == Combined(TriAtoms, TriAtoms) \cup Negated(Combined(TriAtoms, TriAtoms))
TriParsed == TriTwo \cup Combined(Combined(TriAtoms, TriAtoms), {Symbol("T"), Not(Symbol("T")), Symbol("A")})
TriParents == {Symbol("T"), Unequal("T", "n"), And(Symbol("T"), Symbol("A"))}

Bools == INSTANCE KDeps WITH
    Boolean <- {"A", "B", "C"}, Tristate <- {}, Parsed <- BoolParsed, Parents <- BoolParents
Tris == INSTANCE KDeps WITH
    Boolean <- {"A"}, Tristate <- {"T"}, Parsed <- TriParsed, Parents <- TriParents

-----------------------------------------------------------------------------
(***************************************************************************)
(* Trees of three or four entries: a list of options, a menu, an "if", a   *)
(* choice with an "if" in it, selections; the dependencies are any of a    *)
(* few expressions over two symbols.                                       *)
(***************************************************************************)
NoSymbol == "none"
Entry(kind, s, prompt, if, d, parent) ==
    [kind |-> kind, sym |-> s, prompt |-> prompt, if |-> if, dep |-> d,
     visibility |-> Null, defaults |-> <<>>, ranges |-> <<>>, selects |-> <<>>,
     optional |-> kind # "choice", parent |-> parent]
Config(s, prompt, d, parent) == Entry("config", s, prompt, Null, d, parent)

\* As a list of three
Few == {Null, Symbol("A"), Not(Symbol("A"))}
EntryDeps == Few \cup {Symbol("B"), And(Symbol("A"), Symbol("B")), Or(Symbol("A"), Symbol("B")),
                  And(Not(Symbol("A")), Symbol("B")), Equal("A", "y")}
Lists ==
    {<<Config("A", p, d, 0), Config("B", q, e, 0), Config("D", TRUE, g, 0)>> :
        p \in BOOLEAN, q \in BOOLEAN, d \in {Null, Symbol("D"), Not(Symbol("D"))},
        e \in Few \cup {And(Symbol("A"), Symbol("D"))}, g \in EntryDeps}

\* In a menu that may be hidden, and after it
Menus ==
    {<<[Entry("menu", NoSymbol, TRUE, Null, d, 0) EXCEPT !.visibility = h],
       Entry("config", "A", TRUE, c, Null, 1),
       Config("B", p, e, 1), Config("D", TRUE, g, 0)>> :
        p \in BOOLEAN, d \in {Null, Symbol("D")}, h \in {Null, Symbol("D"), Not(Symbol("D"))},
        c \in {Null, Symbol("B")}, e \in Few, g \in EntryDeps}

\* A choice of A, and of B if something; D follows in the choice or after it
ChoiceBlocks ==
    {<<[Entry("choice", "C", TRUE, Null, d, 0) EXCEPT !.optional = o],
       Config("A", TRUE, Null, 1), Entry("if", NoSymbol, FALSE, Null, e, 1),
       Config("B", TRUE, g, 3), Config("D", p, h, q)>> :
        o \in BOOLEAN, p \in BOOLEAN, q \in {0, 1}, d \in {Null, Symbol("D")},
        e \in {Symbol("A"), Symbol("D")}, g \in Few, h \in {Null, Symbol("A"), Symbol("B")}}

\* A and B both may select D; A stands in an "if" or is a second entry of B.
Selects ==
    {<<Entry("if", NoSymbol, FALSE, Null, d, 0),
       [Config(s, TRUE, Null, 1) EXCEPT !.selects = <<[target |-> "D", if |-> c]>>],
       [Config("B", p, e, 0) EXCEPT !.selects = <<[target |-> "D", if |-> g]>>],
       Config("D", p, h, 0)>> :
        p \in BOOLEAN, s \in {"A", "B"}, d \in {Symbol("C"), Not(Symbol("C"))},
        c \in {Null, Symbol("C")}, e \in Few, g \in {Null, Symbol("A"), Symbol("C")},
        h \in {Null, Symbol("A"), Symbol("B")}}

AllTrees == Lists \cup Menus \cup ChoiceBlocks \cup Selects

Menu == INSTANCE KTree WITH
    Boolean <- ABCD, Tristate <- {}, Symbols <- ABCD, NoSymbol <- NoSymbol, Trees <- AllTrees

-----------------------------------------------------------------------------
(***************************************************************************)
(* All the ways four symbols may depend on one another: A, B and D with a  *)
(* choice of A and B, or four plain symbols of which D is last in a row.   *)
(***************************************************************************)
SequencesOf(S) == {SetToSeq(T) : T \in SUBSET S}

\* A value depends on its choice, as the menu tree has it.  Nothing else does:
\* a choice without a name cannot be depended on.  (With a named one, D on C
\* and B on D, a search that comes to the choice first reports nothing, as the
\* choice is unmarked before its values are searched.)
ChoiceDependencies ==
    {[s \in ABCD |-> IF s = "A" THEN <<"C">> \o a ELSE IF s = "B" THEN b \o <<"C">>
                        ELSE IF s = "C" THEN c ELSE d] :
        a \in SequencesOf({"B", "D"}), b \in SequencesOf({"A", "D"}), c \in SequencesOf({"A", "D"}),
        d \in SequencesOf({"A", "B", "D"})}
PlainDependencies ==
    {[s \in ABCD |-> IF s = "A" THEN a ELSE IF s = "B" THEN b
                        ELSE IF s = "C" THEN c ELSE d] :
        a \in SequencesOf({"B", "C"}), b \in SequencesOf({"A", "C", "D"}),
        c \in SequencesOf({"B", "D"}), d \in SequencesOf({"A", "B", "D"})}

WithChoice == INSTANCE KCheck WITH
    Symbols <- ABCD, Choice <- "C", Values <- <<"A", "B">>, NoSymbol <- NoSymbol,
    Dependencies <- ChoiceDependencies
Plain == INSTANCE KCheck WITH
    Symbols <- ABCD, Choice <- NoSymbol, Values <- <<>>, NoSymbol <- NoSymbol,
    Dependencies <- PlainDependencies

ASSUME WithChoice!ChoiceAssumption /\ Plain!ChoiceAssumption

-----------------------------------------------------------------------------
NoExpressions == was = 0 /\ base = 0 /\ dep = 0 /\ above = 0 /\ stage = 0
NoEntries == tree = 0 /\ menus = 0 /\ finalized = 0 /\ value = 0
NoSearch == deps = 0 /\ left = 0 /\ flags = 0 /\ reported = 0 /\ errors = 0

Init ==
    \/ what = "booleans" /\ Bools!Init /\ NoEntries /\ NoSearch
    \/ what = "tristates" /\ Tris!Init /\ NoEntries /\ NoSearch
    \/ what = "tree" /\ Menu!Init /\ NoExpressions /\ NoSearch
    \/ what = "choice" /\ WithChoice!Init /\ NoExpressions /\ NoEntries
    \/ what = "plain" /\ Plain!Init /\ NoExpressions /\ NoEntries

Next ==
    \/ what = "booleans" /\ Bools!Next /\ UNCHANGED <<what, entries, search>>
    \/ what = "tristates" /\ Tris!Next /\ UNCHANGED <<what, entries, search>>
    \/ what = "tree" /\ Menu!Next /\ UNCHANGED <<what, expressions, search>>
    \/ what = "choice" /\ WithChoice!Next /\ UNCHANGED <<what, expressions, entries>>
    \/ what = "plain" /\ Plain!Next /\ UNCHANGED <<what, expressions, entries>>

Spec == Init /\ [][Next]_vars

-----------------------------------------------------------------------------
\* Rewriting leads to the normal form and keeps the value; with tristates an
\* "m" may be lost, and no dependency changes between met and not met.
RewritingIsSound ==
    /\ what = "booleans" => Bools!NormalForm /\ Bools!SameValue
    /\ what = "tristates" => Tris!OnlyModLost /\ Tris!SameTruth

\* Conditions are compared rightly: what is found equal is worth the same, an
\* entry put under another depends on it, and a selection against the
\* dependencies has somebody to blame.
ConditionsCompare == what = "booleans" => Bools!EqIsSame /\ Bools!UnderDepends /\ Bools!UnmetIsNamed

\* No entry is lost, doubled, moved past another, put where it cannot be
\* reached while it is shown, or into a choice it does not belong to.
TreeIsWhole == what = "tree" => Menu!TreeInOrder /\ Menu!CanBeReached /\ Menu!ChoiceIsWhole

\* A prompt is shown, a symbol is selected and its direct dependencies are met
\* when the files say so.
ConditionsAsWritten ==
    what = "tree" => Menu!PromptIsEffective /\ Menu!SelectedBySome /\ Menu!DirectDependencies

\* A recursive dependency is reported, and nothing else.
RecursionIsReported ==
    /\ what = "choice" => WithChoice!RecursionIsReported
    /\ what = "plain" => Plain!RecursionIsReported
=============================================================================

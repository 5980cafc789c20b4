------------------------------- MODULE MCKDisk ------------------------------
(***************************************************************************)
(* Menus of up to five entries in boxes of two or four rows, texts of up   *)
(* to seven lines, fields of three cells; two symbols and two file names   *)
(* for the front ends; for make, a boolean symbol on which another, and a  *)
(* text, depend.                                                           *)
(***************************************************************************)
EXTENDS KDisk

Entries == {"a", "b", "c", "d", "e", "s"}
EntryOrder == <<"d", "a", "b", "c", "e", "s">>
SubmenuOfE == [e \in Entries |-> IF e = "s" THEN "e" ELSE "root"]
Tags == [e \in Entries |-> CASE e = "e" -> "m" [] e \in {"a", "d"} -> "t" [] OTHER -> ":"]
NeedsOne == [e \in Entries |-> CASE e \in {"b", "c"} -> "a" [] e = "a" -> "d" [] OTHER -> "none"]
Hotkeys == [e \in Entries |-> IF e \in {"a", "d"} THEN "i" ELSE "j"]

TextOf(n, newline, jumps) == [lines |-> n, newline |-> newline, jumps |-> jumps]
SomeResults == {TextOf(1, TRUE, <<>>), TextOf(5, TRUE, <<1, 3>>), TextOf(7, TRUE, <<0, 1, 2, 5, 6>>)}
SomeTexts == {TextOf(1, FALSE, <<>>), TextOf(2, FALSE, <<>>), TextOf(2, TRUE, <<>>), TextOf(6, TRUE, <<>>)}

ChoiceItems == <<"a", "c", "b", "s", "t", "d">>
ChoiceLetters ==
    [e \in {"a", "b", "c", "d", "s", "t"} |->
        CASE e \in {"c", "t"} -> "*" [] e \in {"a", "s"} -> "S" [] OTHER -> e]

TwoSymbols == <<"A", "B">>
Session(fronts, loading, saving, as) == [all |-> fronts, loading |-> loading, saving |-> saving, as |-> as]
Killed == Session({"mconf", "gconf", "qconf"}, {"mconf", "gconf", "qconf"}, {"mconf", "gconf", "qconf"},
                  {"mconf", "gconf"})
Signalled == Session({"mconf", "qconf"}, {"mconf", "qconf"}, {"mconf"}, {"qconf"})
Renamed == Session({"mconf", "gconf"}, {"mconf"}, {}, {})

OnA == [s \in {"A", "B", "T"} |-> "A"]
=============================================================================

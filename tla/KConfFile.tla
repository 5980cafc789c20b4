----------------------------- MODULE KConfFile -----------------------------
(***************************************************************************)
(* Configuration files (support/kconfig/confdata.c): how .config and a     *)
(* defconfig file are read into the symbols and written from them, and the *)
(* values that new symbols get.  A file is a sequence of lines, one symbol *)
(* and its value each; "is not set" is No.  NoSymbol stands for a name the *)
(* Kconfig files do not know.                                              *)
(***************************************************************************)
EXTENDS KSymbol

CONSTANT NoFile     \* there is no .config

Line(s, x) == [sym |-> s, val |-> x]
LinesOf(file) == {l.sym : l \in ToSet(file)}

\* One line.  No number is invalid.  Of several choice values that are set the last is the choice.
ReadLine(k, x, l) ==
    LET s == l.sym
        c == k.choiceOf[s]
        set == [x.st EXCEPT !.user = @ \cup {s}, !.def[s] = l.val]
        pick == [set EXCEPT !.pick[c] = IF l.val = Yes THEN s ELSE @,
                            !.def[c] = MaxOf(@, l.val)]
    IN  IF s = NoSymbol THEN [x EXCEPT !.st.changed = TRUE]
        ELSE IF s \in Number /\ l.val = Empty THEN [x EXCEPT !.warned = TRUE]
        ELSE [st |-> IF IsValue(k, s) THEN pick ELSE set,
              warned |-> \/ x.warned
                         \/ s \in x.st.user
                         \/ IsValue(k, s) /\ l.val = Yes /\ x.st.def[c] # No]

\* conf_read_simple(file, S_DEF_USER)
ReadSimple(k, st, file) ==
    FoldLeft(LAMBDA x, l : ReadLine(k, x, l),
             [st |-> [st EXCEPT !.valid = {}, !.user = k.choices, !.def = Started.def,
                                !.pick = Started.pick],
              warned |-> FALSE],
             file)

\* Whether the calculated value is the one in the file
Agrees(k, st, s) ==
    IF s \in st.user /\ s \in st.write THEN st.def[s] = st.curr[s]
    ELSE s \notin st.user /\ s \notin st.write

\* The user's value of a symbol that is not visible is forgotten if the file
\* agrees with the Kconfig files, that of a number if it is out of range.
Forget(x, s) ==
    IF x.st.vis[s] = No /\ ~x.unsaved THEN [x EXCEPT !.st.user = @ \ {s}] ELSE x
ReviewRange(x, s, range) ==
    IF range.ok THEN [x EXCEPT !.st = range.st]
    ELSE [st |-> [range.st EXCEPT !.valid = @ \ {s}, !.user = @ \ {s}], unsaved |-> TRUE]
ReviewNumber(k, x, s) ==
    IF s \in Number THEN ReviewRange(x, s, InRange(k, x.st, s, x.st.def[s])) ELSE x
Review(k, x, s) ==
    IF s \notin x.st.user \/ IsValue(k, s) THEN x ELSE ReviewNumber(k, Forget(x, s), s)

\* conf_read; the symbols are visited in the order of a hash table
WithUnsaved(k, st, order) ==
    [st |-> st, unsaved |-> \E s \in ToSet(order) \ k.choices : ~Agrees(k, st, s)]
ReviewAll(k, x, order) == FoldLeft(LAMBDA y, s : Review(k, y, s), x, order)
NeedsSave(x, warned) == [x.st EXCEPT !.changed = @ \/ warned \/ x.unsaved]
ReadOn(k, r, order) ==
    NeedsSave(ReviewAll(k, WithUnsaved(k, CalcAll(k, r.st, order), order), order), r.warned)
ReadFile(k, st, file, order) ==
    ReadOn(k, ReadSimple(k, [st EXCEPT !.changed = FALSE], file), order)

\* conf_read of a file that is named and not there
ReadFails(st) == [st EXCEPT !.changed = FALSE]

\* conf_read(NULL): that there is no .config is a change, and no symbol has a
\* value.  (Buildroot has no symbol with option defconfig_list.)
Read(k, st, file, order) ==
    IF file = NoFile THEN [st EXCEPT !.changed = TRUE] ELSE ReadFile(k, st, file, order)

-----------------------------------------------------------------------------
\* The symbols of the menus, in the order they are written in
MenuOrder(k) ==
    LET syms == [n \in Entries(k.tree) |-> k.tree[Walk(k.menus, 0)[n]].sym]
    IN  SelectSeq(syms, LAMBDA s : s # NoSymbol /\ s \notin k.choices)

\* Mutant: a symbol is written if it has been set
PutLineSet(file, st, s) ==
    IF s \notin st.write THEN [st |-> st, file |-> file]
    ELSE [st |-> [st EXCEPT !.write = @ \ {s}],
          file |-> IF s \in st.user THEN Append(file, Line(s, st.curr[s])) ELSE file]

\* A symbol that is to be written is written, once.
PutLine(file, st, s) ==
    IF s \notin st.write THEN [st |-> st, file |-> file]
    ELSE [st |-> [st EXCEPT !.write = @ \ {s}], file |-> Append(file, Line(s, st.curr[s]))]
WriteSymbol(k, x, s) == PutLine(x.file, Calc(k, x.st, s), s)

\* conf_write up to the renaming: symbols that are valid are not calculated
\* again if something has changed since the file was last written.
WriteOut(k, st) ==
    FoldLeft(LAMBDA x, s : WriteSymbol(k, x, s),
             [st |-> IF st.changed THEN st ELSE ClearAllValid(st), file |-> <<>>], MenuOrder(k))

\* conf_write where nothing fails
Write(k, st) == [WriteOut(k, st) EXCEPT !.st.changed = FALSE]

-----------------------------------------------------------------------------
\* Mutant: the default is "n" or nothing
DefaultFromZero(k, x, s) == Result(x.st, Zero(s))

\* sym_get_string_default, of a symbol whose value has been calculated; x: its
\* default, the visibility calculated again
DefaultFrom(k, x, s) ==
    IF s \in Number
    THEN IF x.prop = <<>> THEN Result(x.st, Empty) ELSE NumberOf(k, x.st, x.prop[1].value)
    ELSE AtLeastRev(IF x.prop = <<>> THEN Result(x.st, No)
                    ELSE DefaultWorth(Worth(k, x.st, x.prop[1].value), x.prop[1]), s)
StringDefault(k, st, s) ==
    DefaultFrom(k, FirstHolding(k, CalcVisibility(k, st, s), k.defaults[s]), s)

IsChangable(st, s) == st.vis[s] > st.rev[s]

\* A symbol of a minimal file: one that can be changed, and is not the default
IsChoiceDefault(k, choice, s, val) ==
    IsValue(k, s) /\ k.choiceOf[s] \notin k.optional /\ choice.sym = s /\ val = Yes
UnlessChoiceDefault(k, file, x, choice, s, val) ==
    IF IsChoiceDefault(k, choice, s, val) THEN [st |-> choice.st, file |-> file]
    ELSE [st |-> x.st, file |-> Append(file, Line(s, val))]
UnlessDefault(k, file, x, s, val) ==
    IF x.val = val THEN [st |-> x.st, file |-> file]
    ELSE UnlessChoiceDefault(k, file, x, ChoiceDefault(k, x.st, k.choiceOf[s]), s, val)
UnlessFixed(k, file, st, s) ==
    IF s \notin st.write THEN [st |-> st, file |-> file]
    ELSE IF ~IsChangable(st, s) THEN [st |-> [st EXCEPT !.write = @ \ {s}], file |-> file]
    ELSE UnlessDefault(k, file, StringDefault(k, [st EXCEPT !.write = @ \ {s}], s), s, st.curr[s])
WriteMinimal(k, x, s) == UnlessFixed(k, x.file, Calc(k, x.st, s), s)

\* conf_write_defconfig
WriteDefconfig(k, st) ==
    FoldLeft(LAMBDA x, s : WriteMinimal(k, x, s),
             [st |-> ClearAllValid(st), file |-> <<>>], MenuOrder(k))

-----------------------------------------------------------------------------
\* conf_set_all_new_symbols(mode), for the modes "y", "n" and "default"
SetAllNew(k, st, mode, order) ==
    LET new == {s \in Symbols \ Number :
                    /\ s \notin st.user /\ s \notin st.valid /\ mode # "default"}
        a == ClearAllValid([st EXCEPT !.user = @ \cup new,
                !.def = [s \in Symbols |-> IF s \in new THEN ConstVal[mode] ELSE @[s]]])
        b == [a EXCEPT !.need = @ \cup {s \in Symbols : IsValue(k, s)}
                                  \cup (k.choices \ a.user)]
    IN  FoldLeft(LAMBDA x, c :
                    IF c \in k.choices /\ c \notin x.user
                    THEN SetAllChoiceValues(k, Calc(k, x, c), c) ELSE x,
                 b, order)

\* conf --savedefconfig of a file
SaveDefconfig(k, file, order) == WriteDefconfig(k, Read(k, Started, file, order)).file
=============================================================================

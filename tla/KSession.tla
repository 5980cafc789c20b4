------------------------------ MODULE KSession ------------------------------
(***************************************************************************)
(* A configuration program at work: it reads .config, shows the menus,     *)
(* calculates symbols when they are looked at, sets what the user asks     *)
(* for, saves and loads.  All the front ends (conf, mconf, nconf, gconf,   *)
(* qconf) do these things, in an order that is the user's.                 *)
(***************************************************************************)
EXTENDS KConfFile

CONSTANTS
    Kconfig,    \* what conf_parse makes of the Kconfig files of a name
    Trees,      \* the names
    Files(_),   \* the .config files a user may have with the files of that name
    Texts,      \* numbers that are entered
    Searched,   \* the symbols looked at by themselves
    Nobody      \* no symbol has just been set

VARIABLES
    name,       \* of the Kconfig files
    st,         \* the state of the symbols
    file,       \* .config
    written,    \* the values when .config was written, if it was
    asked       \* what the user has set last, with success

vars == <<name, st, file, written, asked>>

\* The symbols, once the Kconfig files are parsed
Tables == [n \in Trees |-> Kconfig[n]]
k == Tables[name]

Orders == {k.order, Reverse(k.order)}

\* What a program that has only just started would calculate from what the
\* user has set
Afresh(x) ==
    CalcAll(k, [Started EXCEPT !.user = x.user, !.def = x.def, !.pick = x.pick], k.order)
Settled(x) == CalcAll(k, x, k.order)

Init ==
    /\ name \in Trees
    /\ file \in {NoFile} \cup Files(name)
    /\ \E order \in Orders : st = Read(k, Started, file, order)
    /\ written = Nobody
    /\ asked = Nobody

-----------------------------------------------------------------------------
\* A front end draws the menu of entry i.
Show(i) ==
    /\ st' = FoldLeft(LAMBDA x, j : LookAt(k, x, j).st, st, k.menus.kids[i])
    /\ UNCHANGED <<name, file, written, asked>>

\* A front end, or a search, looks at one symbol.
Look(s) ==
    /\ s \notin st.valid
    /\ st' = Calc(k, st, s)
    /\ UNCHANGED <<name, file, written, asked>>

Shown(s) == s \in st.valid /\ st.vis[s] # No

\* A boolean symbol, or a choice that is optional, is toggled.
ToggleSymbol(s) ==
    /\ Shown(s) /\ s \notin Number /\ ~IsValue(k, s)
    /\ st' = Toggle(k, st, s)
    /\ asked' = Line(s, st'.def[s])
    /\ UNCHANGED <<name, file, written>>

\* sym_set_choice_value
Choose(s) ==
    /\ Shown(s) /\ IsValue(k, s)
    /\ CanSet(k, st, s, Yes)
    /\ st' = SetTri(k, st, s, Yes)
    /\ asked' = Line(s, Yes)
    /\ UNCHANGED <<name, file, written>>

\* A number is entered.
Enter(s, x) ==
    /\ Shown(s) /\ s \in Number
    /\ \E r \in {InRange(k, st, s, x)} :
          IF r.ok THEN st' = SetString(k, r.st, s, x) /\ asked' = Line(s, x)
          ELSE st' = r.st /\ UNCHANGED asked
    /\ UNCHANGED <<name, file, written>>

Save ==
    /\ \E w \in {Write(k, st)} : st' = w.st /\ file' = w.file
    /\ written' = Settled(st).curr
    /\ UNCHANGED <<name, asked>>

\* Another file is loaded: it does not become .config until it is saved.
Load(f) ==
    /\ \E order \in Orders : st' = ReadFile(k, st, f, order)
    /\ asked' = Nobody
    /\ UNCHANGED <<name, file, written>>

\* A file that is not there: the symbols stay as they are.
LoadFails ==
    /\ st' = ReadFails(st)
    /\ UNCHANGED <<name, file, written, asked>>

Next ==
    \/ \E i \in {0} \cup Entries(k.tree) : Show(i)
    \/ \E s \in Searched : Look(s)
    \/ \E s \in Symbols : ToggleSymbol(s) \/ Choose(s)
    \/ \E s \in Number, x \in Texts : Enter(s, x)
    \/ Save
    \/ \E f \in Files(name) : Load(f)
    \/ LoadFails

Spec == Init /\ [][Next]_vars

-----------------------------------------------------------------------------
\* A value that is kept is the one that would be calculated now: whatever is
\* set makes all values that depend on it be calculated again, and the order
\* in which symbols are looked at does not matter.
KeptIsCurrent ==
    \A x \in {Afresh(st)}, s \in st.valid : st.curr[s] = x.curr[s]

\* One visible value of a choice that is on is on, and none if it is off.
OneOfChoice ==
    \A x \in {Settled(st)}, c \in k.choices :
        {v \in ToSet(k.values[c]) : x.vis[v] # No /\ x.curr[v] = Yes} =
            IF x.curr[c] = Yes THEN {x.chosen[c]} ELSE {}

\* What the user has set, and was told is set, has the value it was set to.
SetTakesEffect ==
    asked # Nobody => Settled(st).curr[asked.sym] = asked.val

\* A number that is shown is in its range, as the bounds are now.
NumbersInRange ==
    \A x \in {Settled(st)}, s \in Number :
        x.vis[s] # No => InRange(k, x, s, AsNumber(x.curr[s])).ok

\* What has been saved is there when .config is read again, by a program that
\* visits the symbols in any order.
SavedIsRestored ==
    written # Nobody =>
        \A order \in Orders : Settled(Read(k, Started, file, order)).curr = written

\* The minimal file of a configuration is all that is needed to have it back:
\* conf --savedefconfig of .config, then conf --defconfig of that.
MinimalIsEnough ==
    written # Nobody =>
        \A order \in Orders :
            Settled(SetAllNew(k, Read(k, Started, SaveDefconfig(k, file, order), order),
                              "default", order)).curr = written

\* What sym_calc_value leaves is legal, whatever was set, shown and hidden.
ValuesAreAllowed == OneOfChoice /\ NumbersInRange

\* Both kinds of files bring back what was saved.
FilesRestore == SavedIsRestored /\ MinimalIsEnough

=============================================================================

------------------------------- MODULE KConf -------------------------------
(***************************************************************************)
(* The line-oriented configuration program (support/kconfig/conf.c): it    *)
(* walks the menus, asks for what has no value, and starts again until     *)
(* nothing is new; or it gives all new symbols a value without asking.     *)
(* What is left to do is a stack, in the place of the recursion of         *)
(* check_conf and conf.                                                    *)
(***************************************************************************)
EXTENDS KConfFile

CONSTANTS
    Kconfig, Trees, Files(_),       \* as in KSession
    Texts,      \* numbers that are entered
    Modes,      \* of "oldaskconfig", "oldconfig", "silentoldconfig",
                \* "olddefconfig", "listnewconfig", "randconfig",
                \* "allyesconfig", "allnoconfig" and "alldefconfig"
    Ends,       \* the modes that are run with nothing to read, as with < /dev/null
    Sessions    \* how many times conf is run

VARIABLES
    name,       \* of the Kconfig files
    order,      \* of the symbols in the hash table
    file,       \* .config
    given,      \* the lines of .config when conf was started
    mode,
    st,         \* the state of the symbols
    tasks,      \* what is left to do
    again,      \* conf_cnt # 0
    count,      \* the rounds in which something was new
    root,       \* rootEntry
    told,       \* symbols asked for, or listed
    pc,         \* "off", "walk" or "random"
    left,       \* sessions left
    done        \* how the last session ended

vars == <<name, order, file, given, mode, st, tasks, again, count, root, told, pc, left, done>>
\* What an action that works on a task leaves alone
fixed == <<name, order, file, given, pc, left, done>>

Tables == [n \in Trees |-> Kconfig[n]]
k == Tables[name]
Orders == {k.order, Reverse(k.order)}

Task(do, i) == <<[do |-> do, at |-> i, new |-> FALSE]>>
TasksOf(do, seq) == [n \in DOMAIN seq |-> Task(do, seq[n])[1]]
Kids(i) == k.menus.kids[i]
SymbolAt(i) == IF i = 0 THEN NoSymbol ELSE k.tree[i].sym

Init ==
    /\ name \in Trees /\ order \in Orders
    /\ file \in {NoFile} \cup Files(name)
    /\ given = <<>> /\ mode = "none"
    /\ st = Started /\ tasks = <<>> /\ again = FALSE /\ count = 0 /\ root = 0 /\ told = {}
    /\ pc = "off" /\ left = Sessions /\ done = "not run"

-----------------------------------------------------------------------------
Asking == {"oldaskconfig", "oldconfig", "silentoldconfig"}
AllNew == {"allyesconfig", "allnoconfig", "alldefconfig"}

\* The value of new symbols in a mode, as SetAllNew has it
NewIn(m) == CASE m = "allyesconfig" -> "y" [] m = "allnoconfig" -> "n" [] OTHER -> "default"

\* main, up to the walk through the menus; silentoldconfig wants a .config;
\* allyesconfig and its like do not read it and are done at once, but for
\* writing it.
Start ==
    /\ pc = "off" /\ left > 0
    /\ mode' \in Modes
    /\ left' = left - 1
    /\ given' = (IF file = NoFile THEN <<>> ELSE file) /\ told' = {} /\ again' = FALSE /\ count' = 0 /\ root' = 0
    /\ CASE mode' = "silentoldconfig" /\ file = NoFile ->
                /\ st' = Started
                /\ tasks' = <<>> /\ pc' = "off" /\ done' = "not found"
                /\ UNCHANGED file
         [] mode' \in Asking \cup {"olddefconfig", "listnewconfig"} ->
                /\ st' = Read(k, Started, file, order)
                /\ tasks' = Task(IF mode' = "oldaskconfig" THEN "conf" ELSE "check", 0)
                /\ pc' = "walk" /\ done' = "running"
                /\ UNCHANGED file
         [] mode' = "randconfig" ->
                /\ st' = [Started EXCEPT !.changed = TRUE]
                /\ tasks' = <<>> /\ pc' = "random" /\ done' = "running"
                /\ UNCHANGED file
         [] OTHER ->
                \E w \in {Write(k, SetAllNew(k, Started, NewIn(mode'), order))} :
                    /\ st' = w.st /\ file' = w.file
                    /\ tasks' = <<>> /\ pc' = "off" /\ done' = "written"
    /\ UNCHANGED <<name, order>>

\* oldaskconfig goes on as silentoldconfig once it has been through the menus.
Asked == "oldaskconfig, asked"
Quiet == {"silentoldconfig", Asked}

Doing(do) == pc = "walk" /\ tasks # <<>> /\ Head(tasks).do = do
Here == Head(tasks).at
Rest == Tail(tasks)

Looked(x, i) == IF i = 0 THEN [st |-> x, visible |-> TRUE] ELSE LookAt(k, x, i)

\* The menu an entry is in (menu_get_parent_menu)
RECURSIVE Parent(_)
Parent(i) ==
    IF i = 0 \/ k.tree[i].kind = "menu" THEN i
    ELSE Parent(CHOOSE j \in {0} \cup Entries(k.tree) : i \in ToSet(Kids(j)))

\* What check_conf takes for new
IsNew(x, s) ==
    /\ s # NoSymbol /\ s \notin x.user
    /\ IsChangable(x, s) \/ (s \in k.choices /\ x.curr[s] = Yes)

\* check_conf of an entry; a menu with something new is walked through whole.
Check ==
    /\ Doing("check")
    /\ \E i \in {Here} : \E s \in {SymbolAt(i)}, look \in {Looked(st, i)} :
          LET new == look.visible /\ IsNew(look.st, s)
              ask == new /\ mode \notin {"listnewconfig", "olddefconfig"}
          IN  /\ st' = look.st
              /\ told' = IF new /\ mode = "listnewconfig" /\ s \notin k.choices /\ ~IsValue(k, s)
                         THEN told \cup {s} ELSE told
              /\ again' = (again \/ ask)
              /\ root' = IF ask THEN Parent(i) ELSE root
              /\ tasks' = (IF ask THEN Task("conf", Parent(i)) ELSE <<>>)
                          \o (IF look.visible THEN TasksOf("check", Kids(i)) ELSE <<>>) \o Rest
    /\ UNCHANGED <<fixed, mode, count>>

\* conf of an entry
Conf ==
    /\ Doing("conf")
    /\ \E i \in {Here} : \E s \in {SymbolAt(i)}, look \in {Looked(st, i)} :
          LET menu == i # 0 /\ k.tree[i].kind = "menu"
              kids == TasksOf("conf", Kids(i))
          IN  /\ st' = look.st
              /\ tasks' =
                   CASE ~look.visible -> Rest
                     [] menu /\ mode \in Quiet /\ root # i -> Task("check", i) \o Rest
                     [] s = NoSymbol -> kids \o Rest
                     [] s \in k.choices ->
                           <<[do |-> "choice", at |-> i, new |-> s \notin look.st.user]>> \o Rest
                     [] s \in Number -> Task("string", i) \o kids \o Rest
                     [] OTHER -> Task("sym", i) \o kids \o Rest
    /\ UNCHANGED <<fixed, mode, again, count, root, told>>

\* conf_askvalue: whether there is a question.  Here the end of the input the
\* line is empty, and stands for what is shown.
Asks(s) == IsChangable(st, s) /\ (mode = "oldaskconfig" \/ s \notin st.user)

\* conf_sym
AskSym ==
    /\ Doing("sym")
    /\ LET s == SymbolAt(Here)
       IN  IF Asks(s)
           THEN /\ \E x \in {No, Yes} :
                      /\ CanSet(k, st, s, x)
                      /\ mode \in Ends => x = st.curr[s]
                      /\ st' = SetTri(k, st, s, x)
                /\ told' = told \cup {s}
           ELSE UNCHANGED <<st, told>>
    /\ tasks' = Rest
    /\ UNCHANGED <<fixed, mode, again, count, root>>

\* conf_string, of a number: an empty line stands for the value, which cannot
\* be set if there is none.
AskString ==
    /\ Doing("string")
    /\ LET s == SymbolAt(Here)
       IN  IF Asks(s)
           THEN \E x \in IF mode \in Ends THEN {st.curr[s]} ELSE Texts : \E r \in {InRange(k, st, s, x)} :
                   LET ok == x # Empty /\ r.ok
                   IN  /\ st' = IF ok THEN SetString(k, r.st, s, x) ELSE r.st
                       /\ tasks' = IF ok THEN Rest ELSE tasks
                       /\ told' = told \cup {s}
           ELSE tasks' = Rest /\ UNCHANGED <<st, told>>
    /\ UNCHANGED <<fixed, mode, again, count, root>>

\* conf_choice: an optional choice is asked for like a symbol; then one of
\* its values.
AskChoice ==
    /\ Doing("choice")
    /\ tasks' = (IF IsChangable(st, SymbolAt(Here)) THEN Task("sym", Here) ELSE <<>>)
                \o <<[Head(tasks) EXCEPT !.do = "pick"]>> \o Rest
    /\ UNCHANGED <<fixed, mode, st, again, count, root, told>>

\* The entries of a choice that are visible, and the state after a look at all
SeenWith(seen, look, j) ==
    [st |-> look.st,
     seen |-> IF look.visible /\ SymbolAt(j) # NoSymbol THEN Append(seen, j) ELSE seen]
LookAtValues(x, i) ==
    FoldLeft(LAMBDA y, j : SeenWith(y.seen, LookAt(k, y.st, j), j), [st |-> x, seen |-> <<>>], Kids(i))

Pick ==
    /\ Doing("pick")
    /\ \E i \in {Here} : \E c \in {SymbolAt(i)} : \E x \in {Calc(k, st, c)} :
          IF x.curr[c] = No THEN st' = x /\ tasks' = Rest /\ UNCHANGED told
          ELSE \E y \in {LookAtValues(x, i)} :
               LET default == {n \in DOMAIN y.seen : SymbolAt(y.seen[n]) = x.chosen[c]}
                   asks == Len(y.seen) # 1 /\ (mode = "oldaskconfig" \/ Head(tasks).new)
                   picked == IF Len(y.seen) = 1 THEN {1}
                             ELSE IF asks /\ mode \notin Ends THEN DOMAIN y.seen ELSE default
               IN  \E n \in picked : \E j \in {y.seen[n]} :
                       /\ st' = SetTri(k, y.st, SymbolAt(j), Yes)
                       /\ tasks' = TasksOf("conf", Kids(j)) \o Rest
                       /\ told' = IF asks THEN told \cup {c} \cup ToSet(k.values[c]) ELSE told
    /\ UNCHANGED <<fixed, mode, again, count, root>>

\* Mutant: what an earlier round has found counts
AgainCounting ==
    /\ pc = "walk" /\ tasks = <<>> /\ (again \/ mode = "oldaskconfig")
    /\ tasks' = Task("check", 0)
    /\ count' = count + (IF again THEN 1 ELSE 0)
    /\ mode' = IF mode = "oldaskconfig" THEN Asked ELSE mode
    /\ UNCHANGED <<fixed, st, again, root, told>>

\* "Update until a loop caused no more changes"
Again ==
    /\ pc = "walk" /\ tasks = <<>> /\ (again \/ mode = "oldaskconfig")
    /\ tasks' = Task("check", 0)
    /\ again' = FALSE
    /\ count' = count + (IF again THEN 1 ELSE 0)
    /\ mode' = IF mode = "oldaskconfig" THEN Asked ELSE mode
    /\ UNCHANGED <<fixed, st, root, told>>

\* Mutant: .config is written after the first round
FinishOnce ==
    /\ pc = "walk" /\ tasks = <<>> /\ mode # "oldaskconfig"
    /\ IF mode = "listnewconfig" \/ (mode = "silentoldconfig" /\ ~st.changed)
       THEN UNCHANGED <<st, file>> /\ done' = "unwritten"
       ELSE \E w \in {Write(k, st)} : st' = w.st /\ file' = w.file /\ done' = "written"
    /\ pc' = "off"
    /\ UNCHANGED <<name, order, given, mode, tasks, again, count, root, told, left>>

\* The end of main: .config is written, by silentoldconfig if that changes it.
Finish ==
    /\ pc = "walk" /\ tasks = <<>> /\ ~again /\ mode # "oldaskconfig"
    /\ IF mode = "listnewconfig" \/ (mode = "silentoldconfig" /\ ~st.changed)
       THEN UNCHANGED <<st, file>> /\ done' = "unwritten"
       ELSE \E w \in {Write(k, st)} : st' = w.st /\ file' = w.file /\ done' = "written"
    /\ pc' = "off"
    /\ UNCHANGED <<name, order, given, mode, tasks, again, count, root, told, left>>

-----------------------------------------------------------------------------
\* conf_set_all_new_symbols(def_random): booleans that have no value get one,
\* choices one that counts when one of their values is picked: that of each
\* choice that is on and has none, in the order of the table.  That something
\* has changed is what the last of these choices says.
NewBools == {s \in Symbols \ (Number \cup k.choices) : s \notin st.user /\ s \notin st.valid}
NewChoices == {s \in k.choices : s \notin st.user /\ s \notin st.valid}

RandomizeChoice(x, c, v) ==
    LET values == ToSet(k.values[c])
    IN  [x EXCEPT !.def = [s \in Symbols |->
                        IF s \in values THEN IF s = v THEN Yes ELSE No ELSE @[s]],
                  !.pick[c] = v, !.user = @ \cup values \cup {c},
                  !.valid = @ \ (values \cup {c})]

\* One choice, with the value the random numbers say
RandomizeIfOn(x, c, v) ==
    IF x.curr[c] = Yes THEN [st |-> RandomizeChoice(x, c, v), changed |-> TRUE]
    ELSE [st |-> x, changed |-> FALSE]
Randomize(x, c, pick) ==
    IF c \notin k.choices \/ c \in x.st.user THEN x
    ELSE RandomizeIfOn(Calc(k, x.st, c), c, pick[c])

RandomPass ==
    /\ pc = "random"
    /\ \E value \in [NewBools \cup NewChoices -> {No, Yes}],
          pick \in {p \in [k.choices -> Symbols] : \A c \in k.choices : p[c] \in ToSet(k.values[c])} :
       \E a \in {[st EXCEPT !.def = [s \in Symbols |-> IF s \in DOMAIN value THEN value[s] ELSE @[s]],
                             !.user = @ \cup NewBools]} :
       \E b \in {FoldLeft(LAMBDA x, c : Randomize(x, c, pick),
                          [st |-> ClearAllValid(a), changed |-> NewBools # {} \/ NewChoices # {}],
                          order)} :
          IF b.changed THEN st' = b.st /\ UNCHANGED <<file, pc, done>>
          ELSE \E w \in {Write(k, b.st)} :
                   st' = w.st /\ file' = w.file /\ pc' = "off" /\ done' = "written"
    /\ UNCHANGED <<name, order, given, mode, tasks, again, count, root, told, left>>

Next ==
    \/ Start
    \/ Check \/ Conf \/ AskSym \/ AskString \/ AskChoice \/ Pick
    \/ Again \/ Finish \/ RandomPass

Spec == Init /\ [][Next]_vars

-----------------------------------------------------------------------------
\* Whether check_conf would find anything new under entry i
RECURSIVE News(_, _)
NewsUnder(look, i) ==
    FoldLeft(LAMBDA y, j : IF y.found THEN y ELSE News(y.st, j),
             [st |-> look.st, found |-> look.visible /\ IsNew(look.st, SymbolAt(i))],
             IF look.visible THEN Kids(i) ELSE <<>>)
News(x, i) == NewsUnder(Looked(x, i), i)

\* After a session that has written .config the next one has nothing to ask,
\* in whatever order it visits the symbols (the loop of main, and what
\* conf_write leaves out).  randconfig may leave something: it stops when the
\* last choice of a pass had nothing to be given.
NothingNew ==
    pc = "off" /\ done = "written" /\ mode # "randconfig" =>
        \A o \in Orders : ~News(Read(k, Started, file, o), 0).found

\* A value that .config had is not touched unless it was asked for: symbols
\* that can still be set have it when .config has been written.
KeepsGiven ==
    pc = "off" /\ done = "written" /\ mode \in Asking \cup {Asked, "olddefconfig"} =>
        \A l \in ToSet(given), x \in {CalcAll(k, st, order)} :
            /\ l.sym \notin {NoSymbol} \cup told
            /\ ~IsValue(k, l.sym) /\ IsChangable(x, l.sym)
            => x.curr[l.sym] = l.val

\* The loop of main: of what .config sets, and the user can, nothing was
\* decided for the user.  (A choice with one visible value is.)
NoneDecided ==
    pc = "off" /\ done = "written" /\ mode \in Asking \cup {Asked} =>
        \A l \in ToSet(file) :
            IsChangable(CalcAll(k, st, order), l.sym) /\ ~IsValue(k, l.sym)
            => l.sym \in told \cup LinesOf(given)

\* A choice that is on has one value that is on, also where all options are
\* answered with yes, with no or at random.
OneOfChoice ==
    pc = "off" /\ done = "written" =>
        \A x \in {CalcAll(k, st, order)}, c \in k.choices :
            {v \in ToSet(k.values[c]) : x.vis[v] # No /\ x.curr[v] = Yes} =
                IF x.curr[c] = Yes THEN {x.chosen[c]} ELSE {}

\* conf comes to an end: each time it starts again something has got a value,
\* so there are no more rounds than symbols.
RoundsAreFew == count <= Cardinality(Symbols)
\* What the user has given stays, what the user can decide is asked for.
UserDecides == KeepsGiven /\ NoneDecided

\* Nothing is left to do after a session: for the next one, or in a choice.
NothingLeft == NothingNew /\ OneOfChoice

=============================================================================

----------------------------- MODULE KAutoconf -----------------------------
(***************************************************************************)
(* make and the files it has conf --silentoldconfig derive from .config:   *)
(* conf_split_config and conf_write_autoconf (support/kconfig/confdata.c), *)
(* the rule of auto.conf and the inclusion of .config (Makefile).          *)
(*                                                                         *)
(* The values of a configuration are a function; a symbol whose parent is  *)
(* not on is not written (KSymbol has the rest of how values come about).  *)
(* What a build made before is compiled again only for symbols whose       *)
(* header has been touched since.                                          *)
(***************************************************************************)
EXTENDS Naturals, FiniteSets

CONSTANTS
    Bool, Text,     \* the symbols of each type
    Word,           \* the values of a text
    Parent,         \* what a symbol depends on, itself if on nothing
    New,            \* symbols that some .config may not know yet
    Faults          \* what may happen: "kill", "open"

Symbol == Bool \cup Text
ParentAssumption ==
    /\ Parent \in [Symbol -> Bool] /\ Bool \cap Text = {}
    /\ \A s \in Symbol : Parent[Parent[s]] = Parent[s]
NewAssumption == New \subseteq Symbol
WordAssumption == Word # {}
FaultsAssumption == Faults \subseteq {"kill", "open"}

None == "none"      \* no line for the symbol
ValuesOf(s) == IF s \in Bool THEN {"n", "y"} ELSE Word

\* SYMBOL_WRITE: what a symbol depends on is on.
Written(v) == {s \in Symbol : Parent[s] = s \/ v[Parent[s]] = "y"}

\* What a file says of the values v; auto.conf has no lines for "n".
Config(v) == [s \in Symbol |-> IF s \in Written(v) THEN v[s] ELSE None]
AutoLines(v) == [s \in Symbol |-> IF s \in Written(v) /\ v[s] # "n" THEN v[s] ELSE None]
Nothing == [s \in Symbol |-> None]

Values == {v \in [Symbol -> {"n", "y"} \cup Word] : \A s \in Symbol : v[s] \in ValuesOf(s)}

VARIABLES
    config,     \* .config, Nothing if there is none
    auto,       \* auto.conf
    header,     \* autoconf.h
    fresh,      \* auto.conf is there and newer than .config
    touched,    \* symbols whose header is newer than what was compiled
    compiled,   \* autoconf.h when it was compiled
    pc,         \* make and conf: "off", "made", "ask", "split", "header", "auto"
    parsed,     \* .config as make has included it
    mem,        \* the values conf has
    asked,      \* symbols that have none yet
    todo,       \* symbols conf_split_config has not come to
    tmp,        \* .tmpconfig.h and .tmpconfig
    built,      \* what the last complete build was made with, and auto.conf then
    terminal    \* make runs on one, so that conf can ask

vars == <<config, auto, header, fresh, touched, compiled, pc, parsed, mem, asked, todo, tmp, built, terminal>>

Init ==
    /\ config \in {Config(v) : v \in Values}
    /\ auto = Nothing /\ header = Nothing /\ fresh = FALSE
    /\ touched = {} /\ compiled = Nothing
    /\ pc = "off" /\ parsed = Nothing
    /\ mem = Nothing /\ asked = {} /\ todo = {} /\ tmp = Nothing
    /\ built = [by |-> Nothing, auto |-> Nothing, asked |-> FALSE]
    /\ terminal = FALSE

-----------------------------------------------------------------------------
\* A front end saves a configuration.
Configure ==
    /\ pc = "off"
    /\ config' \in {Config(v) : v \in Values} \ {config}
    /\ fresh' = FALSE
    /\ UNCHANGED <<auto, header, touched, compiled, pc, parsed, mem, asked, todo, tmp, built, terminal>>

\* The user takes a .config that does not know some symbols.
TakeOld ==
    /\ pc = "off"
    /\ \E v \in Values, s \in New : config' = [Config(v) EXCEPT ![s] = None]
    /\ config' # config
    /\ fresh' = FALSE
    /\ UNCHANGED <<auto, header, touched, compiled, pc, parsed, mem, asked, todo, tmp, built, terminal>>

\* make includes .config; auto.conf is made again if .config is newer.
Make ==
    /\ pc = "off"
    /\ parsed' = config /\ terminal' \in BOOLEAN
    /\ pc' = "made"
    /\ UNCHANGED <<config, auto, header, fresh, touched, compiled, mem, asked, todo, tmp, built>>

Default(s) == IF s \in Bool THEN "n" ELSE CHOOSE w \in Word : TRUE

\* conf --silentoldconfig reads .config.
ReadConfig ==
    /\ pc = "made" /\ ~fresh
    /\ mem' = [s \in Symbol |-> IF config[s] = None THEN Default(s) ELSE config[s]]
    /\ asked' = {s \in Symbol : config[s] = None}
    /\ pc' = "ask"
    /\ UNCHANGED <<config, auto, header, fresh, touched, compiled, parsed, todo, tmp, built, terminal>>

Visible(s) == s \in Written(mem)

\* A new symbol is asked for; without a terminal conf gives up.
Ask ==
    /\ pc = "ask" /\ terminal
    /\ \E s \in asked :
          /\ Visible(s)
          /\ \E x \in ValuesOf(s) : mem' = [mem EXCEPT ![s] = x]
          /\ asked' = asked \ {s}
    /\ UNCHANGED <<config, auto, header, fresh, touched, compiled, pc, parsed, todo, tmp, built, terminal>>

Stop ==
    /\ pc' = "off"
    /\ asked' = {} /\ todo' = {} /\ tmp' = Nothing /\ mem' = Nothing /\ parsed' = Nothing
    /\ terminal' = FALSE

Abort ==
    /\ pc = "ask" /\ ~terminal
    /\ \E s \in asked : Visible(s)
    /\ Stop
    /\ UNCHANGED <<config, auto, header, fresh, touched, compiled, built>>

\* All have a value: .config is written if that changes it.
WriteConfig ==
    /\ pc = "ask" /\ \A s \in asked : ~Visible(s)
    /\ config' = Config(mem)
    /\ todo' = Symbol
    /\ pc' = "split"
    /\ UNCHANGED <<auto, header, fresh, touched, compiled, parsed, mem, asked, tmp, built, terminal>>

\* A header is touched when its symbol has another value than in auto.conf,
\* a boolean without a line there being off.
Differs(s) ==
    IF s \in Written(mem)
    THEN IF auto[s] = None THEN s \in Text \/ mem[s] # "n" ELSE mem[s] # auto[s]
    ELSE auto[s] # None

\* Mutant: a symbol that is no longer written is passed over
SplitWritten(s) ==
    /\ pc = "split" /\ s \in todo
    /\ todo' = todo \ {s}
    /\ touched' = IF s \in Written(mem) /\ Differs(s) THEN touched \cup {s} ELSE touched
    /\ UNCHANGED <<config, auto, header, fresh, compiled, pc, parsed, mem, asked, tmp, built, terminal>>

\* conf_split_config, one symbol
Split(s) ==
    /\ pc = "split" /\ s \in todo
    /\ todo' = todo \ {s}
    /\ touched' = IF Differs(s) THEN touched \cup {s} ELSE touched
    /\ UNCHANGED <<config, auto, header, fresh, compiled, pc, parsed, mem, asked, tmp, built, terminal>>

\* A header cannot be created: conf_write_autoconf returns 1.
SplitFails ==
    /\ pc = "split" /\ "open" \in Faults
    /\ \E s \in todo : Differs(s)
    /\ Stop
    /\ UNCHANGED <<config, auto, header, fresh, touched, compiled, built>>

\* The temporary files; that fclose is not checked is the matter of KFront.
WriteTmp ==
    /\ pc = "split" /\ todo = {}
    /\ tmp' = AutoLines(mem)
    /\ pc' = "header"
    /\ UNCHANGED <<config, auto, header, fresh, touched, compiled, parsed, mem, asked, todo, built, terminal>>

RenameHeader ==
    /\ pc = "header"
    /\ header' = tmp
    /\ pc' = "auto"
    /\ UNCHANGED <<config, auto, fresh, touched, compiled, parsed, mem, asked, todo, tmp, built, terminal>>

\* "This must be the last step".
RenameAuto ==
    /\ pc = "auto"
    /\ auto' = tmp /\ fresh' = TRUE
    /\ pc' = "made"
    /\ mem' = Nothing /\ asked' = {} /\ tmp' = Nothing
    /\ UNCHANGED <<config, header, touched, compiled, parsed, todo, built, terminal>>

\* The packages, by the variables of .config that make has; what includes
\* autoconf.h is compiled if a header it depends on is newer.
Build ==
    /\ pc = "made" /\ fresh
    /\ built' = [by |-> parsed, auto |-> auto, asked |-> terminal]
    /\ compiled' = [s \in Symbol |-> IF s \in touched THEN header[s] ELSE compiled[s]]
    /\ touched' = {}
    /\ Stop
    /\ UNCHANGED <<config, auto, header, fresh>>

Kill ==
    /\ pc # "off" /\ "kill" \in Faults
    /\ Stop
    /\ UNCHANGED <<config, auto, header, fresh, touched, compiled, built>>

Next ==
    \/ Configure \/ TakeOld \/ Make
    \/ ReadConfig \/ Ask \/ Abort \/ WriteConfig
    \/ \E s \in Symbol : Split(s)
    \/ SplitFails \/ WriteTmp \/ RenameHeader \/ RenameAuto
    \/ Build \/ Kill

Spec == Init /\ [][Next]_vars

-----------------------------------------------------------------------------
\* auto.conf marks the successful completion of the steps before: when make
\* takes it for up to date, it and autoconf.h say what .config does, wherever
\* an earlier conf was killed (the order of the renames in
\* conf_write_autoconf).
FreshIsWhole ==
    fresh /\ pc = "off" =>
        /\ header = auto
        /\ \A s \in Symbol : auto[s] = IF config[s] = "n" THEN None ELSE config[s]

\* A header is touched whenever the value of its symbol is not the one that
\* was compiled in, also when conf was killed, or failed, after it had touched
\* some or had renamed autoconf.h (conf_split_config compares with auto.conf,
\* which is renamed last).
TouchedIfChanged ==
    fresh => \A s \in Symbol : header[s] # compiled[s] => s \in touched

\* What is built is the configuration conf has derived auto.conf from, though
\* make has included .config before conf ran: conf gives up rather than decide
\* on new symbols.  Where it can ask, the build goes on without the answers.
BuiltAsDerived ==
    ~built.asked =>
        \A s \in Symbol : built.auto[s] = IF built.by[s] = "n" THEN None ELSE built.by[s]

DerivedIsCurrent == FreshIsWhole /\ TouchedIfChanged /\ BuiltAsDerived
=============================================================================

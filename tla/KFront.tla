------------------------------- MODULE KFront -------------------------------
(***************************************************************************)
(* A session of a kconfig front end and the files it leaves: loading,      *)
(* saving (conf_write of support/kconfig/confdata.c, one step per call     *)
(* that changes a file), quitting, SIGINT and kills.  The change count is  *)
(* all the front ends mconf.c, nconf.c, gconf.c and qconf.cc go by when    *)
(* they let the user quit.  Values are those of symbols that depend on     *)
(* nothing; KSymbol has the rest.                                          *)
(***************************************************************************)
EXTENDS Naturals, Sequences, Functions

CONSTANTS
    Order,      \* the symbols, as the menus have them
    Name,       \* the files a user may name
    Config,     \* the one conf_get_configname returns
    FrontEnd,   \* those of "mconf", "nconf", "gconf", "qconf" to consider
    Loading,    \* the front ends in which a file is loaded
    Saving,     \* those in which the user saves before quitting
    SavingAs,   \* those in which a file name is given to save under
    Faults      \* what may happen: "open", "rename", "full", "absent",
                \* "signal" and "kill"

Symbol == Range(Order)
Value == {"n", "y"}

OrderAssumption ==
    /\ Order \in Seq(Symbol)
    /\ \A i, j \in DOMAIN Order : Order[i] = Order[j] => i = j
ConfigAssumption == Config \in Name
FrontEndAssumption ==
    Loading \cup Saving \cup SavingAs \subseteq FrontEnd /\ FrontEnd \subseteq {"mconf", "nconf", "gconf", "qconf"}
FaultsAssumption == Faults \subseteq {"open", "rename", "full", "absent", "signal", "kill"}

VARIABLES
    files,      \* the files, and "their" .old files
    old,
    tmp,        \* .tmpconfig.<pid>
    mem,        \* the values the user sees
    valid,      \* symbols with SYMBOL_VALID
    write,      \* symbols with SYMBOL_WRITE
    changed,    \* sym_change_count # 0
    forgotten,  \* nothing was edited, loaded or saved since a load that failed
                \* has reset it over a change
    filename,   \* what an exit saves under
    front,      \* the front end that runs
    pc,         \* "off", "main", "asked" (about saving) or "write"
    frames,     \* conf_write, and above it that of the signal handler
    handler,    \* in the signal handler
    saved,      \* what the user was told was written, and under which name
    ended,      \* how the last session ended
    whole       \* the files that have been whole

disk == <<files, old, tmp>>
symbols == <<mem, valid, write, changed, forgotten>>
vars == <<disk, symbols, filename, front, pc, frames, handler, saved, ended, whole>>

NoFile == [there |-> FALSE, lines |-> <<>>]
File(lines) == [there |-> TRUE, lines |-> lines]
Lines(m) == [i \in DOMAIN Order |-> <<Order[i], m[Order[i]]>>]
Nothing == <<>>

Files == {NoFile} \cup {File(Lines(m)) : m \in [Symbol -> Value]}

Init ==
    /\ files \in {f \in [Name -> Files] : \A n \in Name \ {Config} : f[n] = NoFile}
    /\ old = [n \in Name |-> NoFile]
    /\ tmp = NoFile
    /\ mem = [s \in Symbol |-> "n"]
    /\ valid = {} /\ write = {} /\ changed = FALSE /\ forgotten = FALSE
    /\ filename = Config /\ front \in FrontEnd
    /\ pc = "off" /\ frames = <<>> /\ handler = FALSE
    /\ saved = Nothing /\ ended = "new"
    /\ whole = {n \in Name : files[n].there}

-----------------------------------------------------------------------------
ValueIn(lines, s) ==
    IF \E l \in Range(lines) : l[1] = s
    THEN (CHOOSE l \in Range(lines) : l[1] = s)[2] ELSE "n"

\* conf_read of a file that is there: what it has no value for is a change.
ReadFile(f) ==
    /\ mem' = [s \in Symbol |-> ValueIn(f.lines, s)]
    /\ valid' = Symbol
    /\ write' = Symbol
    /\ changed' = \E s \in Symbol : \A l \in Range(f.lines) : l[1] # s

\* main: conf_read(NULL); without .config the symbols have their defaults.
Start ==
    /\ pc = "off"
    /\ front' \in FrontEnd
    /\ IF files[Config].there THEN ReadFile(files[Config])
       ELSE /\ mem' = [s \in Symbol |-> "n"]
            /\ valid' = {} /\ write' = {} /\ changed' = TRUE
    /\ forgotten' = FALSE
    /\ filename' = Config
    /\ pc' = "main"
    /\ saved' = Nothing /\ ended' = "new"
    /\ UNCHANGED <<disk, frames, handler, whole>>

\* A menu is drawn: the values of its symbols are calculated.
Draw ==
    /\ pc = "main"
    /\ \E s \in Symbol \ valid :
          /\ valid' = valid \cup {s}
          /\ write' = write \cup {s}
    /\ UNCHANGED <<disk, mem, changed, forgotten, filename, front, pc, frames, handler, saved, ended, whole>>

Edit ==
    /\ pc = "main"
    /\ \E s \in valid, x \in Value : x # mem[s] /\ mem' = [mem EXCEPT ![s] = x]
    /\ valid' = {} /\ changed' = TRUE /\ forgotten' = FALSE
    /\ UNCHANGED <<disk, write, filename, front, pc, frames, handler, saved, ended, whole>>

Terminal == front \in {"mconf", "nconf"}

\* The terminal front ends go on with the file they have loaded, as changed.
Load(n) ==
    /\ pc = "main" /\ front \in Loading
    /\ files[n].there
    /\ mem' = [s \in Symbol |-> ValueIn(files[n].lines, s)]
    /\ valid' = Symbol /\ write' = Symbol
    /\ changed' = (Terminal \/ \E s \in Symbol : \A l \in Range(files[n].lines) : l[1] # s)
    /\ forgotten' = FALSE
    /\ filename' = IF Terminal THEN n ELSE filename
    /\ UNCHANGED <<disk, front, pc, frames, handler, saved, ended, whole>>

\* conf_read has reset the change count when it finds no file.
LoadFails(n) ==
    /\ pc = "main" /\ front \in Loading
    /\ "absent" \in Faults /\ ~files[n].there
    /\ changed' = FALSE /\ forgotten' = (forgotten \/ changed)
    /\ UNCHANGED <<disk, mem, valid, write, filename, front, pc, frames, handler, saved, ended, whole>>

-----------------------------------------------------------------------------
Top == Head(frames)

\* How the program goes on once conf_write has returned
Return(ok) ==
    /\ frames' = <<>>
    /\ handler' = FALSE
    /\ IF Top.why = "exit" /\ (ok \/ front # "qconf")
       THEN pc' = "off" /\ ended' = IF ok THEN "saved" ELSE "failed"
       ELSE pc' = "main" /\ ended' = ended

Frame(n, asked, why) == [to |-> n, asked |-> asked, why |-> why, stage |-> "write", left |-> Order, out |-> <<>>]

\* Mutant: the file itself is opened
BeginWriteInPlace(n, asked, why) ==
    /\ files' = [files EXCEPT ![n] = File(<<>>)]
    /\ tmp' = File(<<>>)
    /\ frames' = <<Frame(n, asked, why)>> \o frames
    /\ pc' = "write"
    /\ saved' = Nothing
    /\ IF changed THEN UNCHANGED <<valid, changed>> ELSE valid' = {} /\ changed' = TRUE
    /\ UNCHANGED <<old, mem, write, forgotten, front, ended, whole>>

\* Mutant: the symbols stay valid
BeginWriteValid(n, asked, why) ==
    /\ tmp' = File(<<>>)
    /\ frames' = <<Frame(n, asked, why)>> \o frames
    /\ pc' = "write"
    /\ saved' = Nothing
    /\ UNCHANGED <<files, old, symbols, front, ended, whole>>

\* conf_write: the temporary file; the symbols are calculated again unless
\* something has changed since the last time.
BeginWrite(n, asked, why) ==
    /\ tmp' = File(<<>>)
    /\ frames' = <<Frame(n, asked, why)>> \o frames
    /\ pc' = "write"
    /\ saved' = Nothing
    /\ IF changed THEN UNCHANGED <<valid, changed>> ELSE valid' = {} /\ changed' = TRUE
    /\ UNCHANGED <<files, old, mem, write, forgotten, front, ended, whole>>

Save ==
    /\ pc = "main" /\ front \in Saving
    /\ front \in {"gconf", "qconf"} => changed
    /\ BeginWrite(IF Terminal THEN filename ELSE Config, IF Terminal THEN filename ELSE Config, "save")
    /\ UNCHANGED <<filename, handler>>

\* qconf writes .config whatever name it was given.
SaveAs(n) ==
    /\ pc = "main" /\ front \in SavingAs
    /\ BeginWrite(IF front = "qconf" THEN Config ELSE n, n, "save")
    /\ UNCHANGED <<filename, handler>>

\* The file cannot be created: the user is told and goes on.
OpenFails ==
    /\ pc = "main" /\ "open" \in Faults
    /\ UNCHANGED vars

WriteNext ==
    /\ pc = "write" /\ Top.stage = "write" /\ Top.left # <<>>
    /\ LET s == Head(Top.left)
           w == IF s \in valid THEN write ELSE write \cup {s}
           line == IF s \in w THEN <<<<s, mem[s]>>>> ELSE <<>>
       IN  /\ valid' = valid \cup {s}
           /\ write' = w \ {s}
           /\ frames' = [frames EXCEPT ![1].left = Tail(@), ![1].out = @ \o line]
    /\ UNCHANGED <<disk, mem, changed, forgotten, filename, front, pc, handler, saved, ended, whole>>

\* Mutant: what is written is saved
CloseDone ==
    /\ pc = "write" /\ Top.stage = "write" /\ Top.left = <<>>
    /\ tmp' = File(Top.out)
    /\ changed' = FALSE
    /\ frames' = [frames EXCEPT ![1].stage = "old"]
    /\ UNCHANGED <<files, old, mem, valid, write, forgotten, filename, front, pc, handler, saved, ended, whole>>

\* fclose, whose status is not looked at
Close ==
    /\ pc = "write" /\ Top.stage = "write" /\ Top.left = <<>>
    /\ \E k \in 0..Len(Top.out) :
          /\ k = Len(Top.out) \/ "full" \in Faults
          /\ tmp' = File(SubSeq(Top.out, 1, k))
    /\ frames' = [frames EXCEPT ![1].stage = "old"]
    /\ UNCHANGED <<files, old, symbols, filename, front, pc, handler, saved, ended, whole>>

RenameOld ==
    /\ pc = "write" /\ Top.stage = "old"
    /\ LET n == Top.to
       IN  IF files[n].there
           THEN \/ /\ old' = [old EXCEPT ![n] = files[n]]
                   /\ files' = [files EXCEPT ![n] = NoFile]
                \/ /\ "rename" \in Faults
                   /\ UNCHANGED <<old, files>>
           ELSE UNCHANGED <<old, files>>
    /\ frames' = [frames EXCEPT ![1].stage = "new"]
    /\ UNCHANGED <<tmp, symbols, filename, front, pc, handler, saved, ended, whole>>

\* What a conf_write that was interrupted has in its buffer goes to the same
\* file when the program exits.
Flushed(f) ==
    IF Len(frames) = 2 /\ frames[2].stage = "write"
    THEN {f, File(frames[2].out \o SubSeq(f.lines, Len(frames[2].out) + 1, Len(f.lines)))}
    ELSE {f}

RenameNew ==
    /\ pc = "write" /\ Top.stage = "new"
    /\ \E f \in Flushed(tmp) : files' = [files EXCEPT ![Top.to] = f]
    /\ tmp' = NoFile
    /\ changed' = FALSE /\ forgotten' = FALSE
    /\ saved' = [name |-> Top.asked, lines |-> Lines(mem)]
    /\ filename' = IF Top.why = "save" /\ Terminal THEN Top.to ELSE filename
    /\ whole' = whole \cup {Top.to}
    /\ Return(TRUE)
    /\ UNCHANGED <<old, mem, valid, write, front>>

RenameFails ==
    /\ pc = "write" /\ Top.stage = "new" /\ "rename" \in Faults
    /\ Return(FALSE)
    /\ UNCHANGED <<disk, symbols, filename, front, saved, whole>>

-----------------------------------------------------------------------------
\* The user quits: the front ends ask only if something has changed.
Quit ==
    /\ pc = "main"
    /\ IF changed THEN pc' = "asked" /\ ended' = ended
       ELSE pc' = "off" /\ ended' = "unasked"
    /\ UNCHANGED <<disk, symbols, filename, front, frames, handler, saved, whole>>

AnswerYes ==
    /\ pc = "asked"
    /\ BeginWrite(filename, filename, "exit")
    /\ UNCHANGED <<filename, handler>>

\* The user does not want to save, or cannot and is told so.
AnswerNo ==
    /\ pc = "asked"
    /\ pc' = "off" /\ ended' = "discarded"
    /\ handler' = FALSE /\ frames' = <<>>
    /\ UNCHANGED <<disk, symbols, filename, front, saved, whole>>

\* Not to quit after all.  The signal handler exits all the same.
Escape ==
    /\ pc = "asked"
    /\ pc' = IF handler THEN "off" ELSE "main"
    /\ ended' = IF handler THEN "escaped" ELSE ended
    /\ handler' = FALSE /\ frames' = <<>>
    /\ UNCHANGED <<disk, symbols, filename, front, saved, whole>>

\* SIGINT in mconf: the handler asks and exits, whatever it interrupts.
Signal ==
    /\ front = "mconf" /\ "signal" \in Faults
    /\ pc \in {"main", "write"} /\ ~handler
    /\ handler' = changed
    /\ IF changed THEN pc' = "asked" /\ ended' = ended /\ frames' = frames
       ELSE pc' = "off" /\ ended' = "unasked" /\ frames' = <<>>
    /\ UNCHANGED <<disk, symbols, filename, front, saved, whole>>

Kill ==
    /\ pc # "off" /\ "kill" \in Faults
    /\ pc' = "off" /\ ended' = "killed"
    /\ tmp' = NoFile /\ frames' = <<>> /\ handler' = FALSE
    /\ mem' = [s \in Symbol |-> "n"] /\ valid' = {} /\ write' = {} /\ changed' = FALSE
    /\ forgotten' = FALSE
    /\ saved' = Nothing
    /\ UNCHANGED <<files, old, filename, front, whole>>

Next ==
    \/ Start \/ Draw \/ Edit \/ Save \/ OpenFails
    \/ \E n \in Name : Load(n) \/ LoadFails(n) \/ SaveAs(n)
    \/ WriteNext \/ Close \/ RenameOld \/ RenameNew \/ RenameFails
    \/ Quit \/ AnswerYes \/ AnswerNo \/ Escape \/ Signal \/ Kill

Spec == Init /\ [][Next]_vars

-----------------------------------------------------------------------------
\* What the user was told was written is in the file it was to go to, with
\* all the values the user saw (conf_write, conf_save and its like).
SavedIsWhole ==
    saved # Nothing => files[saved.name] = File(saved.lines)

Kept == \E n \in Name : files[n] = File(Lines(mem))

\* A front end that ends without having asked whether to save had nothing to
\* save: the change count is right, whatever was edited, loaded and saved,
\* unless what came last is a load that failed (conf_read resets the count
\* before it looks for the file).
AskedFirst == pc = "off" /\ ended = "unasked" => Kept \/ forgotten

\* The user who has said to save, or not to quit, has the values in a file
\* when the program ends, unless it has said that they are lost.
NothingLost == pc = "off" /\ ended \in {"saved", "escaped"} => Kept

\* Wherever a save is killed, a file that was whole is there as it was, or as
\* it is to be, under its own name or as .old.
KillLeavesOne ==
    \A n \in whole :
        \/ Len(files[n].lines) = Len(Order)
        \/ Len(old[n].lines) = Len(Order)
=============================================================================

------------------------------- MODULE KDisk --------------------------------
(***************************************************************************)
(* The programs a user has on a configuration: the boxes of menuconfig and *)
(* nconfig in which it is shown and edited, a front end that loads and     *)
(* saves .config (KFront), conf and make that derive auto.conf and its     *)
(* headers from it (KAutoconf).  A behaviour is about one of these:        *)
(*   "menu"     menus, in a terminal whose size changes (KMenuBox)         *)
(*   "text"     texts, and the results of searches (KTextBox)              *)
(*   "pick"     the values of a choice (KCheckBox)                         *)
(*   "input"    a field of menuconfig (KInputBox)                          *)
(*   "form"     a field of nconfig (KFormBox)                              *)
(*   "kills"    front ends that are killed, or cannot open a file          *)
(*   "signals"  SIGINT in mconf; qconf, which saves what it loads          *)
(*   "renames"  renaming a file may fail                                   *)
(*   "make"     make, on a terminal, where conf asks for new symbols, or   *)
(*              without one                                                *)
(* A variable it does not have keeps its first value.                      *)
(***************************************************************************)
EXTENDS Integers, Sequences

CONSTANTS
    MenuOrder, Root, NoEntry, Menu, Tag, Needs, MenuLetter, MenuHeights, MaxFrames,
    Results, OtherTexts, TextHeights, JUMP_NB,
    Items, Comment, Letter, list_height,
    Alphabet, Digits, Space, MAX_LEN, box_width, MaxLength, prompt_width,
    Order, Name, DotConfig,
    Killing, Signalling, Renaming,   \* the front ends of the settings and what is done in them
    Bool, Text, Word, Parent, New

VARIABLES what, pc, mem, tmp,
    files, old, valid, write, changed, forgotten, filename, front, frames, handler, saved, ended, whole,
    config, auto, header, fresh, touched, compiled, parsed, asked, todo, built, terminal,
    on, all, items, height, first_item, scroll, choice, rows, resized, state,
    text, lines, page, begin_reached, end_reached, page_length, keys, vscroll,
    picked, active, list, open,
    value, instr, pos, show_x, input_x, cells, button,
    result, cursor_position, cursor_form_win

others == <<files, old, valid, write, changed, forgotten, filename, front, handler, saved, ended, whole>>
session == <<others, frames>>
derived == <<config, auto, header, fresh, touched, compiled, parsed, asked, todo, built, terminal>>
run == <<pc, mem, tmp>>
menus == <<on, all, items, height, first_item, resized>>
texts == <<text, lines, page, begin_reached, end_reached, page_length, keys, vscroll>>
fields == <<instr, pos, show_x, input_x, cells, button>>
forms == <<result, cursor_position, cursor_form_win>>
boxes == <<menus, texts, fields, forms, scroll, choice, rows, state, picked, active, list, open, value>>
vars == <<what, run, session, derived, boxes>>

Kills == INSTANCE KFront WITH
    Config <- DotConfig, FrontEnd <- Killing.all, Loading <- Killing.loading,
    Saving <- Killing.saving, SavingAs <- Killing.as,
    Faults <- {"open", "kill", "absent"}
Signals == INSTANCE KFront WITH
    Config <- DotConfig, FrontEnd <- Signalling.all, Loading <- Signalling.loading,
    Saving <- Signalling.saving, SavingAs <- Signalling.as,
    Faults <- {"signal"}
Renames == INSTANCE KFront WITH
    Config <- DotConfig, FrontEnd <- Renaming.all, Loading <- Renaming.loading,
    Saving <- Renaming.saving, SavingAs <- Renaming.as,
    Faults <- {"rename"}
Derives == INSTANCE KAutoconf WITH Faults <- {"kill", "open"}

Menus == INSTANCE KMenuBox WITH
    Order <- MenuOrder, Letter <- MenuLetter, Heights <- MenuHeights, None <- NoEntry
Texts == INSTANCE KTextBox WITH Heights <- TextHeights, Plain <- OtherTexts
Pick == INSTANCE KCheckBox WITH Order <- Items, None <- NoEntry
Input == INSTANCE KInputBox WITH Letters <- Alphabet, Blank <- Space
Form == INSTANCE KFormBox WITH Letters <- Alphabet

ASSUME FrontsAssumption ==
    /\ Kills!OrderAssumption /\ Kills!ConfigAssumption
    /\ Kills!FrontEndAssumption /\ Signals!FrontEndAssumption /\ Renames!FrontEndAssumption
\* qconf saves under another name than it says, and a save after one that
\* failed leaves symbols out.
ASSUME SavesAssumption ==
    /\ "qconf" \notin Killing.as
    /\ Renaming.saving = {} /\ Renaming.as = {} /\ "qconf" \notin Renaming.all
ASSUME MakeAssumption == Derives!ParentAssumption /\ Derives!NewAssumption /\ Derives!WordAssumption
ASSUME MenusAssumption == Menus!EntriesAssumption /\ Menus!HeightsAssumption
ASSUME TextsAssumption == Texts!TextsAssumption /\ Texts!HeightsAssumption /\ Texts!JumpAssumption
ASSUME PickAssumption == Pick!EntriesAssumption /\ Pick!HeightAssumption
ASSUME InputAssumption == Input!DigitsAssumption /\ Input!SizeAssumption
ASSUME FormAssumption == Form!DigitsAssumption /\ Form!SizeAssumption

-----------------------------------------------------------------------------
NoRun == pc = 0 /\ mem = 0 /\ tmp = 0
NoSession ==
    /\ files = 0 /\ old = 0 /\ valid = 0 /\ write = 0 /\ changed = 0 /\ forgotten = 0
    /\ filename = 0 /\ front = 0 /\ handler = 0 /\ saved = 0 /\ ended = 0 /\ whole = 0
NotDerived ==
    /\ config = 0 /\ auto = 0 /\ header = 0 /\ fresh = 0 /\ touched = 0 /\ compiled = 0
    /\ parsed = 0 /\ asked = 0 /\ todo = 0 /\ built = 0 /\ terminal = 0
NoFiles == NoRun /\ NoSession /\ NotDerived

NoMenus == on = 0 /\ all = 0 /\ items = 0 /\ height = 0 /\ first_item = 0 /\ resized = 0
NoTexts ==
    /\ text = 0 /\ lines = 0 /\ page = 0 /\ begin_reached = 0 /\ end_reached = 0
    /\ page_length = 0 /\ keys = 0 /\ vscroll = 0
NoFields == instr = 0 /\ pos = 0 /\ show_x = 0 /\ input_x = 0 /\ cells = 0 /\ button = 0
NoForms == result = 0 /\ cursor_position = 0 /\ cursor_form_win = 0
NoRows == scroll = 0 /\ choice = 0
NoPicks == picked = 0 /\ active = 0 /\ list = 0
NoValue == value = 0
NoBoxes ==
    /\ NoMenus /\ NoTexts /\ NoFields /\ NoForms /\ NoRows /\ NoPicks /\ NoValue
    /\ rows = 0 /\ state = 0 /\ open = 0

Init ==
    \/ what = "menu" /\ Menus!Init
          /\ NoFiles /\ NoTexts /\ NoFields /\ NoForms /\ NoPicks /\ NoValue /\ open = 0
    \/ what = "text" /\ Texts!Init
          /\ NoFiles /\ frames = 0 /\ NoMenus /\ NoFields /\ NoForms /\ NoRows /\ NoPicks
          /\ NoValue /\ open = 0
    \/ what = "pick" /\ Pick!Init
          /\ NoFiles /\ frames = 0 /\ NoMenus /\ NoTexts /\ NoFields /\ NoForms /\ NoValue
          /\ rows = 0 /\ state = 0
    \/ what = "input" /\ Input!Init
          /\ NoFiles /\ frames = 0 /\ NoMenus /\ NoTexts /\ NoForms /\ NoRows /\ NoPicks
          /\ rows = 0 /\ state = 0
    \/ what = "form" /\ Form!Init
          /\ NoFiles /\ frames = 0 /\ NoMenus /\ NoTexts /\ NoFields /\ NoRows /\ NoPicks
          /\ rows = 0 /\ state = 0
    \/ what = "kills" /\ Kills!Init /\ NotDerived /\ NoBoxes
    \/ what = "signals" /\ Signals!Init /\ NotDerived /\ NoBoxes
    \/ what = "renames" /\ Renames!Init /\ NotDerived /\ NoBoxes
    \/ what = "make" /\ Derives!Init /\ NoSession /\ frames = 0 /\ NoBoxes

NextMenu ==
    /\ what = "menu" /\ Menus!Next
    /\ UNCHANGED <<what, run, others, derived, texts, fields, forms, picked, active, list, open, value>>
NextText ==
    /\ what = "text" /\ Texts!Next
    /\ UNCHANGED <<what, run, session, derived, menus, fields, forms, scroll, choice, picked,
                   active, list, open, value>>
NextPick ==
    /\ what = "pick" /\ Pick!Next
    /\ UNCHANGED <<what, run, session, derived, menus, texts, fields, forms, rows, state, value>>
NextInput ==
    /\ what = "input" /\ Input!Next
    /\ UNCHANGED <<what, run, session, derived, menus, texts, forms, scroll, choice, rows, state,
                   picked, active, list>>
NextForm ==
    /\ what = "form" /\ Form!Next
    /\ UNCHANGED <<what, run, session, derived, menus, texts, fields, scroll, choice, rows,
                   state, picked, active, list>>
NextKills == what = "kills" /\ Kills!Next /\ UNCHANGED <<what, derived, boxes>>
NextSignals == what = "signals" /\ Signals!Next /\ UNCHANGED <<what, derived, boxes>>
NextRenames == what = "renames" /\ Renames!Next /\ UNCHANGED <<what, derived, boxes>>
NextMake == what = "make" /\ Derives!Next /\ UNCHANGED <<what, session, boxes>>

Next ==
    \/ NextMenu \/ NextText \/ NextPick \/ NextInput \/ NextForm
    \/ NextKills \/ NextSignals \/ NextRenames \/ NextMake

Spec == Init /\ [][Next]_vars

-----------------------------------------------------------------------------
\* What the user is told was saved is in the file.
SavedIsWhole == what = "kills" => Kills!SavedIsWhole

\* A front end that ends without asking had nothing to save, unless the last
\* thing done was to load a file that is not there: that resets the change
\* count (confdata.c:411), so that earlier edits are dropped without a word.
\* Saving, then quitting, loses nothing, nor does a failure that is not told;
\* but where SIGINT may come, in the middle of conf_write, or to a user who
\* then does not want to quit (mconf.c:997), it may.
EditsAreKept ==
    /\ what = "kills" => Kills!AskedFirst /\ Kills!NothingLost
    /\ what = "renames" => Renames!AskedFirst /\ Renames!NothingLost
    /\ what = "signals" => Signals!AskedFirst

\* There is always a whole .config or a whole .config.old.
KillLeavesOne ==
    /\ what = "kills" => Kills!KillLeavesOne
    /\ what = "renames" => Renames!KillLeavesOne

\* An auto.conf that make takes for up to date says what .config does, what has
\* changed is compiled again, and without a terminal, where conf cannot ask,
\* make builds what conf has derived.
DerivedIsCurrent == what = "make" => Derives!DerivedIsCurrent

\* What the screen shows is what the box is about: the items, lines or letters
\* around the highlight or the cursor, which is on the screen, and nothing
\* left over from before.
ScreenIsRight ==
    /\ what = "menu" => Menus!RowsShowItems
    /\ what = "text" => Texts!TextInView
    /\ what = "pick" => Pick!ListInView
    /\ what = "input" => Input!InputInView
    /\ what = "form" => Form!FormInView

\* A key does what the user expects from what he sees, and what is set is what
\* was shown; both fields are the one KEntry describes.
KeysDoAsSeen ==
    [][ /\ what = "menu" => Menus!HighlightStays
        /\ what = "text" => Texts!TextMoves
        /\ what = "pick" => Pick!PickIsHighlit
        /\ what = "input" => Input!Entry!Next \/ UNCHANGED Input!Entry!vars
        /\ what = "form" => Form!Entry!Next \/ UNCHANGED Form!Entry!vars ]_vars

\* Menus may change their size on the fly (lxdialog/menubox.c).
NeverCrashes == what = "menu" => Menus!NeverCrashes
=============================================================================

# A verification project for buildroot-s6

The repository is Buildroot 2016.05 with an init system built on s6
(`src/buildroot`) and a BR2_EXTERNAL tree that demonstrates it (`src/custom`).
Two things in it carry logic of their own. One is a build orchestrator:
makefiles and shell scripts that download, verify, patch, build and install
packages, finish a target directory and turn it into images, and that must come
out right after failures, interruptions, partial rebuilds and concurrent use of
a download directory. The other is kconfig, the language and the programs in
which all of it is configured. This directory models both in TLA+, checks the
models with TLC and proves the main properties of the orchestrator's core with
TLAPS.

## Inventory

| Component | State | Operations | Interacts with | Modules |
|---|---|---|---|---|
| check-hash (`support/download/check-hash`) | none that lasts; `nb_checks` while it runs | read a `.hash` file line by line, exit 0, 2, 3 or 4 | called twice by dl-wrapper | `HashFile`, `CheckHash` |
| dl-wrapper and DOWNLOAD (`support/download`, `package/pkg-download.mk`) | the file in BR2_DL_DIR, temporaries | test, check, evict, fetch, verify, copy, rename; the next location | other builds that share BR2_DL_DIR; the download and extract steps | `Download`, `DownloadStore` |
| generic package infrastructure (`package/pkg-generic.mk`) | stamp files; build, host, staging, target and images directories | download, extract, rsync, patch, configure, build, install; reinstall, rebuild, reconfigure, dirclean | GNU make, dl-wrapper, apply-patches.sh, other packages | `PkgBuild` |
| apply-patches.sh | `.applied_patches_list`, the build directory, rejects | scan, apply, look for rejects | the patch step | `ApplyPatches` |
| world (`Makefile`, `fs/common.mk`) | target directory, image files, fakeroot script, users and device tables | finalize hooks, overlays, post-build scripts, one image per format | all enabled packages; mkusers, makedevs | `PkgBuild`, `Rootfs`, `S6Services` |
| mkusers | passwd and group of the target | allocate gids and uids in passes over a table | image recipes | `MkUsers` |
| makedevs | a file system under fakeroot | one node, or several, per line of a table | image recipes | `Makedevs` |
| s6 image preparation (`package/s6-linux-init-*`, `src/custom/board`) | service directories, `contents` files, the compiled database | install, add to a bundle, render templates, compile | install steps, finalize hooks, overlays, post-build scripts | `S6Services` |
| toolchain wrapper | the argument array | add, check, refuse, execute | every compilation | `ToolchainWrapper` |
| kconfig: expressions (`expr.c`) | dependency expressions | transform, simplify, compare, evaluate | menus, symbols | `KExpr`, `KDeps` |
| kconfig: menu tree (`menu.c`) | entries, properties | finalize, visibility | parser, symbols, front ends | `KMenu`, `KTree` |
| kconfig: symbols (`symbol.c`) | values, flags, the change count | calculate, set, check for recursion | all of kconfig | `KSymbol`, `KCheck`, `KSession` |
| kconfig: files (`confdata.c`) | `.config`, defconfig, auto.conf and its headers | read, write, split, rename | front ends, make | `KConfFile`, `KAutoconf`, `KFront` |
| kconfig: conf (`conf.c`) | the walk over the menus | ask, default, randomise, go round again | files, symbols | `KConf` |
| kconfig: menuconfig, nconfig (`mconf.c`, `lxdialog`, `nconf*.c`) | the screen, positions, key tables | menus, texts, searches, lists, fields; load, save, quit, signals | symbols, files, the terminal | `KFront`, `KMenuBox`, `KTextBox`, `KCheckBox`, `KInputBox`, `KFormBox` (`KEntry`) |
| kconfig: gconfig, xconfig | widget trees | load, save, quit, edit | symbols, files | `KFront`, `KSession` |
| s6 boot and shutdown; graph-depends; legal-info; package type infrastructures; download backends; helper scripts; recipes | see *Not modelled* | | | |

What is hard about them:

- *Concurrency.* Several builds share BR2_DL_DIR without a lock; the only
  protection is that a file appears under its final name by a rename. A single
  build is sequential: the top Makefile is `.NOTPARALLEL`. menuconfig saves from
  a signal handler that may run while it is saving.
- *Crashes and restarts.* A build may be killed anywhere, also between two
  `rm -f` of a cleaning; the next `make` has only the disk to go by. The same is
  true of conf between two of its renames, mkusers between two of its edits and
  apply-patches.sh between two patches.
- *Ordering.* Stamps are compared by age; order-only prerequisites are not;
  each target is considered once per run of make. Tables are gone over in passes.
  kconfig calculates symbols on demand, in any order, and moves menu entries
  while it walks them.
- *Staleness.* Values are kept until something is set; positions on the screen
  are kept while the list below them changes; the compiled service database is
  older than what overlays bring.
- *Retries.* A download tries up to three locations, each running the whole
  wrapper on what the one before left. A patch step, mkusers and the image
  recipes run again on what they have already changed.

What makes them correct: only data that passes its hashes is extracted, a
published file is whole, a hard error destroys nothing, every build gets its
file in the end; stamps tell the truth, dependencies are installed first, a
rebuild reaches the image, nothing is redone needlessly, the image of a
successful make is complete; a patched tree has each listed patch
once and in order; ids are those of the table and unique; the database that
boots has every service that is enabled; an image holds what the tables say,
and what an earlier image was about does not leak into it. Of kconfig: rewriting
keeps values, no menu entry is lost, kept values are current, an edit takes
effect, files restore what was saved, nothing is decided for the user, conf ends,
nothing is lost without a question, and what is on the screen is what the keys
act on. PROJECT.json lists the hazards behind these, each at its line.

## The modules

### HashFile and CheckHash

`HashFile` says what a `.hash` file means: `HashExit` is the exit code for a
file's data, defined by the first line that rejects it. Digests are ideal (equal
exactly for equal data); all supported algorithms are the one type "known".
`CheckHash` is the script: `Bail` (no `-H` or no such file), `ReadLine` (one
turn of the while loop, with `check_one_hash`), `Conclude` (after the last line).
`next` stands for the shell's position in the file and `rc` for its exit code.
`CheckHash_proofs` proves the two agree.

### Download and DownloadStore

`Download` has one process per build. `pc[b]` is the command of dl-wrapper the
build is about to run, `loc[b]` the location DOWNLOAD_INNER is trying, `output`
the shared file. Each command that touches the file system is an action, in the
order of the script: `Test`, `CheckExisting`, `Evict`, `MkTmpd`, `Fetch`,
`Verify`, `MkTmpOutput`, `Chmod`, `Copy`, `Rename`. Every one that can fail has a
disjunct where it does, with the clean-up the script makes there, and the recipe
goes on to the next location (`GiveUp`, `NextLoc`). `Make` and
`MakeAgain` are the user's runs of make, `Stamp` the end of the download recipe,
`Extract` the later one that unpacks what is in BR2_DL_DIR *then*, `Kill` the end of a
build at any command, also between the wrapper and its stamp. The
verdict of check-hash is `HashExit` of HashFile, applied in one step. (The script
opens the file anew for every line of the `.hash` file. What another build puts
there between two lines has passed all of them, so no other exit code and file
come together than when the check is one step before or after.) A location may
serve anything; the backends are external.

`DownloadStore` is what a user of BR2_DL_DIR relies on: good files are put in,
replaced, and never go missing. Download implements it (`ImplementsStore`,
with file <- the content of `output` and taken <- `extracted`) when it
starts clean: nothing bad in BR2_DL_DIR, and no hash for what a version control
system fetched. Without that assumption it does not, see the findings.

### PkgBuild

GNU make running pkg-generic.mk. `stamp[p]` are the stamp files of a package,
`old[p]` those older than a normal prerequisite (this is all of the dates that
make looks at). `Normal`, `OrderOnly` and `Prereqs` are the rules as the makefile
writes them, with the two shapes of a package: downloaded, or from an
`_OVERRIDE_SRCDIR`. make itself is external: `stack` is its recursion, `done` the
targets it has considered, `goals` what is left of the command line; `NextGoal`,
`Descend`, `Skip`, `Close` and `Finish` are its steps. Where make has a choice
between prerequisites of one target, the model takes any: the order of
prerequisites is not something the rules promise. The recipes are actions of
their own; each ends with `Touch`, its last line. Contents are versions: `src` of
the source, `tree` in the build directory, `bin` compiled, `inst` installed per
installation step, `image` in the image; 0 means missing or not whole. `Stop` is
a failing recipe or an interruption, with `Spoil` for what the recipe leaves half
done; `Fail` is the case of it that is certain, a recipe without its input.
`Edit` is the developer changing sources.

A prerequisite that is being updated itself is circular: make drops it with a
warning and goes on, and so does the model (`Ready`, `Descend`). Where the
dependencies the packages state are acyclic (`AcyclicAssumption`), the rules never
make it do so (`NoneIsCircular`, a theorem).

A simplification to know of: the version
of what is compiled does not depend on the versions of the dependencies; the
makefile does not promise that either (the manual says packages are not rebuilt
when their dependencies change).

### The scripts on sources and on the target directory

`ApplyPatches`: `todo` are the entries the script has yet to look at, directories
and archives opened in their place (`EnterDir`, `Unpack`), `Skip` and `Missing`
what it passes over; `Feed` gives a patch to the program, which does one `Hunk`
after the other, and `tree[f]` is the sequence of the patches whose hunks are in
file `f`. A hunk may not fit; then the patch fails and leaves a reject. `Kill` may
come anywhere; the recipe runs again on the same tree, or after its removal
(`Reextract`), or after the patch was put right (`Correct`).

`MkUsers`: the passes over the table (`Pass`) as the steps of one program with a
position `line`; `AddGroup` and `AddUser` remove and add an entry, and a kill
between the two is a step of its own (`KilledInGroup`, `LoseUser`). The table comes
back for every image, on what the run before has left. The groups of the skeleton
are in `Skeleton`; its users are left out (no table of a package names one). A kill
can make a group of the skeleton lose its gid, which is then generated in the order
of the table like any other and may be one that another group had; the properties
on repeated runs are stated for when that has not happened (`SkeletonKept`).

`S6Services`: what the packages of the s6 init install in `etc/s6-rc/source`,
`Add` with the substring search of `grep` (`Within`), the template of the DHCP
client, the finalize hooks, overlays and post-build scripts, and the compiled
database `db` as the value of the sources when `s6-rc-compile` ran. make's stamps
decide which packages are installed again; a reinstalled skeleton wipes the
directories the others filled.

`Rootfs` with `Makedevs`: the recipe of one image format after the other, command
by command, over one target directory, users table, device table and fakeroot
script (`left` is what is left to do of the latter). mkusers puts a recursive chown of
each home into the script, for the users whose uid is given first and then for the
others, in the order of the table (`MkUsers`, `AddedBefore`); as homes may be below each
other (the skeleton's table has `/var/log` and three below it), the order decides who
owns what, and the reference says so of each path (`Owned`). `Makedevs` is the program
that runs inside, one turn of its loop a step (`ReadLine`): a file system is a function
from paths to nodes, and there is an action for each type of line, for those that are
skipped, those that are errors and go on, and those that end the program. The
reference, `AsTable`, says of each path what the table as a whole makes of it: which
lines are about it, and the last that gives it an owner, a mode or a device.

`ToolchainWrapper`: `main` in its order, with the array `args` and the size that
was allocated for it (`Slots`). What it prints is the set `warnings`. The
reference for the paths, `IsPath`, is a definition on the command line as a whole (an
odd number of bare `-I` and `-L` before an argument), where the loop looks at one or two
arguments at a time.

`TargetScripts` puts the five on a target side by side, and `MCTarget` gives their
constants values. Which one a behaviour is about
is the variable `what`, chosen at the start; a variable the chosen module does
not have keeps its first value. The same form is used by `KDisk` and `MCKFiles`:
the modules stay parameterised and apart, one run checks several.

### kconfig: what the files say

`KExpr` is `expr.c`: expressions as tuples, every rewriting pass an operator.
`KDeps` applies the passes in the order `menu_finalize` does and compares two
entries with them. `KMenu` is `menu_finalize` itself: the parsed entries go in, a
list of places with children, prompts, selections and direct dependencies comes
out; `KTree` is the program that does it once and then changes values. The
reference for each property is the text of the parsed file (`tree`), never what
finalize has made of it. `KCheck` is the depth-first search for recursive
dependencies with its two marks, from every symbol in any order.

### kconfig: values and .config

`KSymbol` holds the calculation of symbols as operators on a record of what the
program keeps (values, visibility, which are valid, which the user set, which are
to be written). Calculation is on demand: `Calc` recalculates one symbol and those
it asks for, as `sym_calc_value` does, and leaves the others as they were kept.
`KConfFile` reads and writes `.config` and defconfig line by line, and gives the
all-yes, all-no, all-default and random values. That there is no `.config` to begin
with is a case of its own (`NoFile`: `Read`, and `ReadFails` for a file that is named and
not there). `KSession` is any front end: look, set, save, load, in any order.
`KConf` is `conf`: `tasks` is its recursion
over the menus, with a round begun again until nothing is new. The Kconfig files
of these two are in `KSamples`; they are parsed and finalized by `KMenu` once,
through the constant `Kconfig`.

`KFront` is about files: `conf_write` step by step (open, one line per step,
close, two renames), the change count all front ends go by when they end, and
what may happen in between. `forgotten` remembers that a load that failed has reset
that count over a change. `KAutoconf` is `conf --silentoldconfig` below make:
headers touched one by one, two files written and renamed in order, and make's
view of them by date.

### kconfig: the boxes

The screen is part of the state where the code draws only what it takes to have
changed. `KMenuBox` is the menu box with `conf` and `build_conf` around it: `items`
the entries that are visible, `scroll` and `choice` the position, `rows` the
screen; what is done to the highlighted entry may hide or show others above it.
`KTextBox` is the pager: `page`, a pointer into the text, with the flags at both
ends, `BackLines` and `GetLine` as they move it, and the keys of a search's results.
`KCheckBox` is the list of a choice. `KInputBox` and `KFormBox` are the fields of
menuconfig and nconfig, two programs for one thing: `KEntry` says what a field to
enter a text in promises, and both are shown to implement it, with before and
after the cursor as the mapping.

`KDisk` puts the boxes, `KFront` and `KAutoconf` side by side, as `TargetScripts`
does with the scripts; `KFront` is there three times, for what may happen to a
front end: that it is killed or cannot open a file, that SIGINT comes, that a
rename fails. `MCKDisk` gives the constants their values.

## The runs

Each takes seconds to about two minutes; `target` (1.65 million distinct states) and
`k_disk` (1.33 million) are the largest.

| Run | Question | Instance |
|---|---|---|
| check_hash | exit code | all `.hash` files of up to 2 lines, 2 contents, 2 names |
| download | safety of sharing BR2_DL_DIR; everyone gets the file; any start | 2 builds, 3 contents (right, wrong, cut short), 5 `.hash` files, 2 settings, `FairSpec`, no symmetry |
| download_clean | refinement | 2 builds, 3 `.hash` files, 4 settings, clean start |
| download_race | finding | 2 builds, no other site |
| pkg_rebuild | rebuilding one or both packages | a library (staging, target) with an override directory and an application that needs it; 2 versions of a source |
| pkg_dirclean | order and completeness with dirclean | library, application and a host tool that every download waits for; one version |
| target | the five scripts on sources and target | see below |
| k_files | what the parsed files come to mean | see below |
| k_session | values, edits and files | trees with a choice, selections, a range; texts 1 and 3; with a `.config` or none |
| k_conf | conf, twice in any mode | five trees, nine modes, 2 sessions; with a `.config` or none |
| k_disk | what a user sees and what is on disk | see below |
| menubox_resize | finding | the menus of k_disk |

*download, download_clean.* A build's only influence on another is through the
one file, whose states of interest are missing, right, wrong, and whole or not;
two builds produce every pair of commands in every order, and the theorems cover
any number. The five `.hash` files give every exit code. `EveryBuildExtracts` is checked
in download, from every start: a bad file there at first is evicted, by both builds and
possibly with the good one that has replaced it. download_clean has the refinement to
`DownloadStore`, and from its start no build ever evicts.

*pkg_rebuild, pkg_dirclean.* Two packages give every relation between a package
and one that needs it, three all kinds of dependency, and two versions are enough
to be behind; interruptions are not bounded, so histories of any number of them
are covered. `MaxVersion` bounds `Edit` and nothing else. Rebuilding and
dirclean are runs of their own, as both together outgrow TLC.

*target.* Patches: a tarball with a series file and a package directory with
compressed patches, a directory in it and files that are no patches; two patches
touch two files each and may not fit; `MaxTries` 3 bounds the runs of the recipe. A
reject, a retry on the same tree and a correction all fit into three. Users:
tables of two lines, and some of three and four, over four users and four groups, ids 10
to 12 only, so that ranges run out. Services: the packages of the demo, with a DHCP
interface that may change, an overlay and post-build scripts. Images: two formats, five
configurations, with and without tables, three users of whom one has a home below
another's, added before it or after, `MaxNumber` 15 for the numbers of a
device series. Wrapper: every command of up to three of eight arguments, three ways to
compile it, one with `-msoft-float` among what it always adds; three are an option, its
path and one more.

*k_files.* Expressions of few operators over four booleans and one tristate, every
rewriting applied to every one; trees of three and four entries of each shape that
`menu_finalize` treats in its own way (lists, menus, `if`, choices, selections);
for recursions all dependencies among four symbols, with a choice and without.
menu_finalize looks from one entry at its siblings and parents only; three levels
and three siblings give every pair of its branches.

*k_session, k_conf.* The trees of `KSamples`: a choice and an optional one, a
chain of selections, numbers with ranges that depend on symbols, a menu that hides
what is in it. conf runs twice, for what the first leaves new must be none for the second;
`Files` are the `.config` files it may find. `RoundsAreFew` bounds its rounds by the number of
symbols; that is how termination is stated, as conf at a terminal has an
environment no fairness can be assumed of.

*k_disk.* Two symbols and two file names; `frames` (`MaxFrames`) bounds what the
user does between the steps of interest. Menus of five entries with a submenu, in
boxes of 2 and 4 rows; texts of up to 7 lines in boxes of 2, 3 and 5, so that
there are pages before, after, and short ones; fields of 3 cells with up to 5
letters; a list of 6 in 3 rows. A position depends on whether its entry is above,
in or below the box, and each of these has two entries or more.

Deadlock is off for CheckHash, which exits, Download, where all builds may have
extracted, and KConf, which ends. It is checked in all other runs:
what ends there is run again, or has a step that says it has ended.

Some properties are conjunctions: the runs that put several modules side by side
state one property per component and name the parts (`PatchesInOrder` is
`PatchedWhole`, `InSequence`, `AppliedIsListed` and `NoStaleReject` of
`ApplyPatches`); the parts are defined and commented in the component's module.
All assumptions of these modules are evaluated by the MC module.

Each property has a mutated definition beside the one it mutates (`VerifyLax`,
`TouchCreates`, ... under comments that say "Mutant"): the property fails when the
mistake it stands for is made. They are used by no specification.

### Fairness

`FairSpec` of Download is weak fairness of each build, a process that nothing keeps
from running, and that from some moment on no script is killed and no wrapper fails: a
location that refuses for ever gives nobody a file, so this is the weakest useful
assumption. It does not assume how builds interleave, nor anything about what is in
BR2_DL_DIR at first. The other modules state safety only; in most of them a program goes
through a finite list, which shows nothing when it ends.
What mkusers, apply-patches.sh, an image recipe and the wrapper must do in the end is
stated of their end: a success implies the complete result.

### Findings

- **download_race** (dl-wrapper:62). The help text says concurrent downloads
  do not conflict. A build that judged the file bad removes whatever has the
  name by then, possibly the right file another build has put there meanwhile.
- **menubox_resize** (menubox.c:255). The comment above says lxdialog is safe
  against menus that change their size. A menu that is drawn at a saved scroll
  position keeps it when the terminal grows, and items past the end are printed.
  What else is said of a menu's rows is proved where that does not happen (`Fits`: a
  box is resized only while its saved scroll position is 0).

### Further observations

Disagreements met while modelling, in the models as the code has them. The
properties are stated so that they hold, and say in a comment what they leave out.

| Where | What the code does |
|---|---|
| dl-wrapper:102, 117 | `mktemp` and `chmod` are not inside an `if`; under `set -e` the script ends there and leaves its temporaries, which the header (16-17) says are removed if anything goes wrong. |
| pkg-generic.mk:707 | `make app-rebuild lib-rebuild all` succeeds with the old library: it was done, as a dependency of app, before its stamps were removed. `lib-rebuild lib-reconfigure` does not configure again, for the same reason. The next make repairs both. |
| apply-patches.sh:102 | A patch is listed before it is applied; a run after a failure on the same tree lists it again. |
| apply-patches.sh:135 | The status of `tar`, and of all but the last command of a pipeline, is ignored: an archive that cannot be read counts as one without patches. |
| mkusers:108 | The checks of a user's group come after the group was removed and added again, and find what that wrote. |
| mkusers:221-222 | Killed between `sed` and `printf`, it leaves a file without the entry; the next run allocates another id. |
| mkusers:386 | Gids of lines for "-" are never checked, so two groups may be given one gid by the table. |
| s6-linux-init-services.mk:18 | A service is listed already if its name is part of a listed one. |
| s6-linux-init-services.mk:30 | Whether httpd is a service is looked up in busybox's `.config` when make parses; on the first build it is not there, and the image lacks the web server the README (50) shows. |
| common.mk:86-93 | The device lines packages give are used only if device tables are configured. |
| Makefile:208 | `.config` is included before conf may ask; what is asked at a terminal reaches the files, and not this run of make. auto.conf (486) does not depend on the Config.in files. |
| makedevs.c | "d" on an existing file succeeds; directories on the way have mode 0777; a new "d" of mode -1 gets 07777. |
| symbol.c:277 | An optional choice that was set on is off again unless each of its visible values was set too. |
| symbol.c:677 | `sym_set_string_value` with the text a symbol had before it was reset marks it as set and invalidates nothing. |
| symbol.c:1197 | Recursion is printed and is no error: the program goes on. A named choice is unmarked before its values are searched. |
| menu.c:370 | The direct dependencies of a symbol's entries are or-ed, and an entry with none, whose dependencies are always met, is left out. |
| menu.c:496 | Looking whether a menu is visible may mark its symbol as set by the user. |
| expr.c | Removing duplicates may lose the "m" of a tristate expression. |
| confdata.c:411 | Loading a file that is not there resets the change count: a front end then ends without asking, and edits are lost. |
| confdata.c:458 | Numbers out of range are dropped symbol by symbol; one that is a bound itself may be dropped after others were compared with it. |
| confdata.c:1264 | Whether randconfig goes round again is what the last choice says, so it may stop while symbols are new. |
| confdata.c:801 | After a rename that failed a retry writes an empty file; `fclose` is not checked (820). |
| mconf.c:997, 999 | SIGINT during `conf_write` may start another on the same temporary; an escape in its question exits without saving. |
| mconf.c:881-891 | Help, and an invalid entry, lose what was typed. |
| conf.c:158 | At the end of its input, conf asks again and again for a number that is not accepted. |
| textbox.c:244 | After a resize the text is four lines further back. |
| nconf.gui.c:446-451 | Deleting a letter moves one byte too many. |
| qconf.cc:1501 | Save As ignores the name it asked for. |

## The theorems

| Module | Theorem | Says |
|---|---|---|
| CheckHash_proofs | Typing, ExitCorrect | `Spec => []ExitIsHashExit` for `.hash` files of any length |
| Download_proofs | Typing, Verification, Wholeness | `[]ExtractsVerified` and `[]PublishedWhole` for any number of builds, any contents and `.hash` files |
| Download_proofs | HardErrors | `HardErrorKeepsFile`: a file that cannot be judged is never removed or replaced, by any number of builds |
| Download_proofs | Refinement | `CleanSpec => ImplementsStore` |
| PkgBuild_proofs | Typing, Honesty, Ordering | `[]StampsHonest` and `[]DepsBeforeConfigure` for any packages, dependencies and command lines |
| PkgBuild_proofs | NoneIsCircular | `[]NothingDropped`: make finds no circular prerequisite, for any acyclic dependencies, patch dependencies and host tools |
| PkgBuild_proofs | Completeness | `[]ImageComplete`, for the same |
| PkgBuild_proofs | Idleness, RebuildIsSeen | `[](CleansFirst(cmd) => SecondMakeIdle)` and `[](CleansFirst(cmd) => RebuildReachesImage)`, for the same |
| PkgBuild_proofs | NotRedone | `NeverRedone` where every command line cleans first and none has dirclean (`GentleCommands`) |
| PkgBuild_proofs | RejectsAreNew, PatchesAreListed | of `ApplyPatches`, `[]NoStaleReject` and `[]AppliedIsListed` for any directories, series, archives and patches |
| KFront_proofs | Saved, OneLeft, NotLost | `[]SavedIsWhole`, `[]KillLeavesOne` and `[]NothingLost` for any symbols, names and front ends, without signals on a disk with room |
| KFront_proofs | Asked | `[]AskedFirst`, with signals, kills, absent files and failing renames |
| KDisk_proofs | SavedIsThere, EditsKept, OneIsLeft | `[]SavedIsWhole`, `[]EditsAreKept` and `[]KillLeavesOne` of the run `k_disk`, from KFront_proofs |
| KDisk_proofs | DerivedCurrent | `[]DerivedIsCurrent`: `FreshIsWhole`, `TouchedIfChanged` and `BuiltAsDerived` of `KAutoconf`, for any symbols, values and kills, at a terminal or not |
| KDisk_proofs | ScreenRight | `[]ScreenIsRight`: what menus, texts, the list of a choice and both fields show, for any menus, texts, choices, letters and sizes |
| KDisk_proofs | KeysAsSeen | `KeysDoAsSeen`: what a key does to each of them, for the same |
| KDisk_proofs | MenuRowsShowItems, TextMovesAsTold, InputFieldInView, PickIsAsSeen, Touched | parts of the four above, each of the component alone |
| KDisk_proofs | InputIsEntry, FormIsEntry | `KInputBox` and `KFormBox` implement `KEntry`, for any letters, bounds and widths |
| MkUsers_proofs | Typing, Unique, AsTheTable | `[]GeneratedIsUnique` and `[]AsTable` for any table, range and skeleton, over any number of runs and kills |
| MkUsers_proofs | SameAgain, Refusal | `[][RepeatsLast]_vars` and `[]RefusedForReason`, where the skeleton's gids are outside the range |
| S6Services_proofs | Typing, NoneTwice, Current, Enabled, Dhcp, InDb | each part of `ServicesInDb`, and all of it, for any services, bundles, skeleton, overlay and scripts |
| TargetScripts_proofs | UsersByTable, UsersAgain, ServicesCompiled | `[]UsersAsTable`, `SameAgain` and `[]ServicesInDb` of the run `target`, from the two modules above |
| TargetScripts_proofs | ImagesByTables | `[]ImagesAsTables`: `ImageAsTables` and `ImagesAreWhole` of `Rootfs`, for any paths, target directory, users tables (homes below each other included), formats and device tables |
| TargetScripts_proofs | PassesOn | `[]WrapperPassesOn`: `ArrayHolds`, `ArgumentsAsGiven` and `PathsAreJudged` of `ToolchainWrapper`, for any command line and any build of the wrapper |

The theorems of TargetScripts_proofs are about the definitions the run `target` checks,
which are guarded by `what`; those on images and the wrapper are proved there, the others
carried over from the component's module (`MkUsersNext`, `S6Next`: the instance takes the
same steps). In the same way KDisk_proofs states all six properties of the run `k_disk`:
`KillsNext`, `SignalsNext` and `RenamesNext` carry KFront_proofs over, and
`MenusStep`, `TextsStep` and the like say that a step of `KDisk` is one of the
component it is about. What `target` checks of `ApplyPatches` it checks of an
instance; the theorems state the same definitions for the component itself.

- *CheckHash.* `LoopInv`: no line read so far rejects the data, and `nb_checks` is
  0 exactly when none was about the file. So when the loop exits early, its line
  is the first that rejects; when it does not, there is none.
- *Download.* `ExtractsVerified` alone is not inductive: one must know that
  a build which is about to rename holds verified data, whole and readable, and that what it
  found in BR2_DL_DIR is still good when it extracts, although others have
  worked on it since. `ScriptInv` says so for every command, and with `TypeOK` and
  `PublishedWhole` it is inductive.
- *HardErrors.* `Blocked`: no script gets past its check of a file that cannot be
  judged, and nothing that is put into BR2_DL_DIR is such a file; so an
  unjudgeable one was there from the start, and no step touches it.
- *Refinement.* From a clean start no build ever reaches `Evict`
  (`NoEviction`), so the file never goes missing; `Rename` is `Put`,
  `Extract` is `Take`, everything else stutters.
- *No circular rules (PkgBuild).* `Place` and `Before` order the targets: packages by the
  rank that `AcyclicAssumption` gives, the tools all downloads wait for before the rest,
  the steps of a package by the order of their stamps. Each prerequisite comes before its
  target, so the stack falls (`StackFalls`) and none is on it. The other proofs about
  PkgBuild use the theorem where a recipe runs once its prerequisites are done.
- *PkgBuild.* `StampsHonest` is inductive with `TypeOK`: recipes touch last, and
  what is cut short was missing or old before. `DoneInOrder` adds that what make
  is done with has its prerequisites done; the packages done as a
  whole are then closed under dependencies, which gives the dependencies at any
  distance without induction. For `Completeness`, `NotTwice` says that make turns to
  no target again that it is done with, so what was installed when the image was
  generated is not installed once more (`ImageIsInstalled`), and `LastGoalDone` that make
  ends only after the last goal.
- *Rebuilding (PkgBuild).* make looks at each target once, so a package that is
  cleaned after a goal has taken it along is not redone: `make app-rebuild lib-rebuild all`
  and `make all lib-rebuild` are command lines for which `SecondMakeIdle` and
  `RebuildReachesImage` fail. `CleansFirst` says which do not: no goal cleans a package
  that an earlier one takes along (`Reach`, the packages it needs at any distance). For
  those, `StackOfGoal` and `CleaningAhead` relate what make is doing to the goals that
  are left, so that what is still to be cleaned is not yet done; then whatever is done
  is up to date (`DoneIsUpToDate`), which is `Idleness`. `RebuildIsSeen` follows the
  version of the source on its way: `LineRemoved` and `CleanedIsMissing` say that a goal which
  cleans leaves none of the stamps behind it, `Sources` and `TreeIsExtracted` that a
  tree is from the source, and `RedoneSince` that what was cleaned by this run of
  make was done again from there. `NotRedone` needs `KeptInOrder`: stamps are removed
  from the last to the first, so one that is left has those before it. It excludes
  dirclean, whose `rm -rf` may be cut short after removing any of them.
- *KAutoconf.* `Steps` fixes what is on the disk by what conf has in memory, from
  one step of conf to the next, so that auto.conf, renamed last, comes after its header and
  after `.config`. `Touches` is what interruptions need: auto.conf says what was compiled,
  but for the symbols whose header was touched since then, and what conf is about to write
  differs only in those and in the ones it has still to look at. `Included` relates what make has
  read to what conf derives when it cannot ask.
- *KFront.* `Written` and `Under` say how far conf_write has come, and how far the one a
  signal handler interrupted has; each file is whole or part of a write that is still
  going on (`Full`, `Partial`). `Careful` are the conditions the code needs: the disk
  does not get full, as `fclose` is not checked, and where a rename may fail every save is
  the last thing a front end does, as a second `conf_write` finds no symbol marked to be
  written. Without `"signal"`, because a handler may write the same temporary again. The
  three instances in `KDisk` differ in just that: kills, and files that do not open or are
  absent, for `Saved` and `NotLost`; signals; and for `OneLeft` and `NotLost` renames that
  fail, each with front ends that are `Careful` (`SavesAssumption`). `Asked` is of all
  three. It leaves out a front end that ends when nothing was edited, loaded or saved
  since a load that failed (`forgotten`), as that is what the code does
  (confdata.c:411); `NotLost` is not stated with signals, where it is not true
  (mconf.c:997, 999).
- *The fields.* `Halves`, `TypedHalves` and `Erased` say what the text before and
  after the cursor is when a letter comes or goes; with them every key is the key
  of `KEntry` (resizing menuconfig's terminal is its `End`). The cells stay right because a key
  moves the first letter that is shown by at most one, so what is beyond the
  redrawn cells was blank before (`Redrawn`).
- *The list of a choice.* `Listed` gives each row as a function of the scroll
  position; scrolling takes a row from one end and draws two at the other, which are
  all that differ (`ListedUp`, `ListedDown`). The highlight is found again
  (`Placed`) because items are not listed twice.
- *Menus.* `AsListed`: the box lies within the list, and the screen is `RowsOf` the
  list, a function of the scroll position, the highlight and the height. The code
  draws as little as it can: two rows when the highlight moves (`RowsChosen`), one or
  more when the list scrolls (`RowsScrolled`), a whole page otherwise; a lemma
  for each key says that what was drawn and what was scrolled make the rows of the new
  position (`ListedKeyUp`, ..., `ListedLetter`). The rows, not the position, need `Fits`,
  which is the finding. That the list is a list of entries, however many
  `build_conf` goes through, is `BuildIsList`: if there were a number of entries from
  which no list can be made, there would be a least one (`ListTo`). `HighlightKept` then
  is about `Place`: wherever the entry is in the new list, the scroll position and the
  row chosen add up to it, with either way of placing it (`Placing`).
- *Texts.* `page` points behind what was read last, and at the end of the text that
  depends on how it came there: an empty line is read, and counted, after the last newline.
  `AsPrinted` says there is a line at which the page may begin (`Begins`), and that
  pointer, flags, length, rows and keys are what printing from there leaves (`OnPage`). From
  any such page `BackLines` comes to a line or to the beginning (`Backwards`), and
  printing from there is such a page again (`GoneBack`), so `TextMoves` is arithmetic on
  where pages begin (`ComesTo`). That a search's results have keys of their own, and no
  key is missing while there is a line for it, is arithmetic modulo `JUMP_NB`
  (`Remainders`, `KeysOnRows`).
- *MkUsers.* An id that is given out is the table's, or what the name had, or one
  nobody has (`WantedIsNew`): `Generate` takes the least free number of the range, which
  exists by well-foundedness (`LeastOf`). A removed and an added
  entry keep the rest apart. For `AsTheTable`, `Through` and `Served` are what the
  passes so far have done, and `Steady` that no later pass undoes it. For
  `SameAgain` a run is compared with the one that succeeded last: the generated ids are
  the lowest of the range, given to names in the order of the passes (`Tight`,
  `Generated`), whatever was there when the run began, so two runs number alike
  (`Numbering`, `SameOutcome`). The premise is `SkeletonOutside`: the gids of the skeleton are up to
  100, the range is 1000 to 1999. It also needs `SkeletonKept` in the property itself: a
  group of the skeleton that a kill removed takes a number of the range, and
  another may lose its own to it.
- *S6Services.* `NoneTwice` is by what `grep` finds: a name is added only if no listed one
  has it in it. `DbInv` says for each moment of finalizing whether the database is behind
  the sources; `CompilesLast`, that the last post-build script compiles it, is what the demo does
  and what a board must do. `EnabledInv` says what was enabled stays while the stamps
  say so; `WantsAlone` excludes that a service is taken for listed because its name is
  part of another's (see the observations).
- *ApplyPatches.* `RejectsInv`: a reject is of the patch at hand, which makes the run fail, and
  the next run begins without any. `ListedInv`: the name of a patch is in the list before any hunk of it
  is in a file. Neither needs to know what is in the directories, so both hold for any.
- *Rootfs and Makedevs.* Neither part of `ImagesAsTables` is inductive, and an invariant in three
  parts is. `ScriptInv`: at each command of the recipe the tables and the script are
  what the recipe has written so far, the script for some order of the users (`Planned`;
  `UsersAreListed`: it has each of them once), and while fakeroot runs it, what it shows is
  what the commands done so far make of the target directory (`SoFar`): each chown is of a
  user added after the ones before, so it takes what is in its home from them and they
  took nothing of its (`OneMoreOwns`), and after `read`
  lines without an error it is as the first `read` lines say (`InTable`). `FileInv`: all that is
  in the target directory belongs to root, whatever a script left there that was cut short,
  directories are directories, nothing is ever removed, and the warning is not there
  between `Clean` and `Restore`. `DoneInv`: the formats make is through with have
  their image. That one more line of the table keeps `AsTable` true is the lemma
  `OneMoreLine`, by the type of the line: each changes a path as `EffectAt` says and no
  other, which takes the 8 actions of `Makedevs` one at a time (`ReadLineOutcome`).
  No induction over the table is needed, as the loop is the induction.
- *ToolchainWrapper.* `Room` is what the array holds at most when each part of
  `main` begins; three options of the configuration come at most once each. `PassedOn`
  keeps what is in front of the arguments, with nothing that excludes one of them but
  what the build always adds. `PathAfter` relates the reference for paths to the one
  argument before (by the parity of the bare options before it), so that the loop, which never
  stands on a path, has searched exactly the paths before it (`Judged`).

Assumptions: those named in the modules (`ConfAssumption`, `DepsAssumption`,
`InstallsAssumption`, `RangeAssumption`, `CommandsAssumption`, `OrderAssumption`,
`TargetAssumption`, `CompilesLast`, `WantsAlone`, `SkeletonOutside`, and for `KDisk`
`FrontsAssumption` to `FormAssumption`, which are those of the modules it
instantiates), which TLC evaluates in the runs. `HostPrereqAssumption` is what the comments in ccache.mk and tar.mk
(`HOST_TAR_DEPENDENCIES =`) take care of. That every package installs somewhere
(`InstallsAssumption`) is the default of the makefile: `_INSTALL_TARGET ?= YES`.
`AcyclicAssumption` and `PkgAssumption` (a finite number of packages) are there for
`NoneIsCircular`. `RangeAssumption` is that mkusers' range
is not empty (its constants are 1000 and 1999). In KAutoconf
a symbol depends on one other at most, which depends on none (`ParentAssumption`). In the boxes
there is room for a row, a text has a line and a choice a value; a text without a newline at its
end is a message of two lines at most (`TextsAssumption`), as all of mconf.c's are. In
Rootfs no home is the warning's file (`UserAssumption`), a
device is given a mode (`LineAssumption`; with -1, `mknod` is passed all ones), and no table
names the warning's file.

Only model-checked: what holds under fairness (`EveryBuildExtracts`;
liveness is out of the prover's reach); the properties of PkgBuild on rebuilding for
command lines that do not clean first, some of which have them too; the order of `ApplyPatches`
(`PatchedWhole`, `InSequence`), which is by induction over directories; of `KFront` what signals
do beyond `AskedFirst`; and of kconfig what the runs k_files, k_session and k_conf check. The
modules of these (`KExpr`, `KDeps`, `KMenu`, `KTree`, `KCheck`, `KSymbol`, `KConfFile`,
`KSession`, `KConf`) have or reach RECURSIVE operators, as the code is recursive over
expressions and menus, and what such a definition computes for every input is
by induction over data, which is out of the prover's reach too.

## What the properties leave out

- `RebuildReachesImage`, `SecondMakeIdle` and `NeverRedone` are checked for the command
  lines of pkg_rebuild and proved for those that clean first. That a rebuild which is
  interrupted while it cleans is taken up by a plain `make` is not stated, and not
  true before its last `rm -f`.
- `ServicesInDb` holds of services whose name is not part of another's (`WantsAlone`) and
  leaves out what a reinstalled skeleton has removed (`behind`).
- `TreeIsWhole` has that the symbols in a choice's block are values of that choice or
  below one (`ChoiceIsWhole`), not the converse, that a choice has no other values.
- `RoundsAreFew` counts the rounds of conf. Within a round conf may ask again for a number that
  is refused (conf.c:158), as often as its user likes.
- `EditsAreKept` leaves out a session that ends after an attempt to load a file that is
  not there, and what SIGINT does to a session that ends by saving.
- `DerivedIsCurrent` says of a make at a terminal that its files are current, not that this
  very make has read them.
- The boxes: the buttons' drawing is not modelled. After a change of size the first
  button is lit again while `button` keeps its value, and a highlight may move to another row; that
  keys act on what is shown is stated of rows and cells. `Fits` excludes a menu box
  that is resized over a saved scroll position, which is the finding menubox_resize.

## Not modelled, and what could follow

- *s6 boot and shutdown* is a handful of execline scripts. What they do is
  decided by s6-svscan, s6-rc and the kernel, whose sources are not here; a model would be of these
  external programs.
- *graph-depends* (the removal of transitive dependencies from a drawing) and
  *legal-info* (files appended in the order make visits packages).
- *Package type infrastructures.* They fill in recipes of steps that PkgBuild
  treats as one. pkg-kconfig.mk adds steps of its own between patching and
  configuring, and would be next to PkgBuild; so would virtual packages.
- *The top level's other targets*: cleaning, sdk, locales, the removal of
  development files from the target.
- *kconfig's grammar and lexer* are generated; of the actions, those that build
  the tree are in `KMenu`. The help and search texts are formatting.
- *nconfig's menus and scrolling window* and the `single_menu` mode of
  menuconfig; *gconfig's and xconfig's widget trees*, which GTK and Qt keep. Of
  all of them loading, saving, quitting and edits are modelled.
- *Download backends* are one external command each. *Helper scripts* print
  reports. *Recipes, patches and board files* are data.

Worth proving next: of `KSession` and `KConf` what does not depend on the values a recursive
definition computes, once those are written as functions.

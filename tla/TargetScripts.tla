--------------------------- MODULE TargetScripts ---------------------------
(***************************************************************************)
(* The scripts that patch sources and fill the target directory, and the   *)
(* wrapper that compiles for it: apply-patches.sh, mkusers, the packages   *)
(* of the s6 services, fs/common.mk with makedevs, toolchain-wrapper.      *)
(* They share no state while they run, so a behaviour is about one of      *)
(* them, chosen at the start.  A variable it does not have keeps its first *)
(* value.                                                                  *)
(***************************************************************************)
EXTENDS Integers, Sequences, FiniteSets

CONSTANTS
    Patch, File, Touches, Dir, Content, Series, Calls, Fragile, MaxTries,
    User, Group, MinId, MaxId, SkeletonGroups, Tables,
    NoBundle, Bundle, SkeletonServices, Services, Httpd, DhcpChoices, Overlay, PostBuild, Within,
    Path, MaxNumber, Formats, Warning, Uid, InSkeleton, Target, Configs,
    Commands, Builds, Begins

VARIABLES what, pc, todo,
    tree, rej, applied, misfit, stamp, call, hunks, failed, ignored, tries,
    table, gid, member, uid, ugid, line, queue, rc, last,
    installed, bbconfig, dhcp, source, contents, db, image, script, list, behind,
    conf, target, accounts, utable, dtable, left, fake, before, read, ret,
    build, argv, environ, args, at, warnings, stage, executed

shared == <<what, pc, todo, image, script>>
patches == <<tree, rej, applied, misfit, stamp, call, hunks, failed, ignored, tries>>
users == <<table, gid, member, uid, ugid, line, queue, rc, last>>
services == <<installed, bbconfig, dhcp, source, contents, db, list, behind>>
images == <<conf, target, accounts, utable, dtable, left, fake, before, read, ret>>
wrapper == <<build, argv, environ, args, at, warnings, stage, executed>>
vars == <<shared, patches, users, services, images, wrapper>>

P == INSTANCE ApplyPatches
U == INSTANCE MkUsers WITH Skeleton <- SkeletonGroups
S == INSTANCE S6Services WITH Skeleton <- SkeletonServices
R == INSTANCE Rootfs
W == INSTANCE ToolchainWrapper

ASSUME PatchesAssumption ==
    /\ P!ContentAssumption /\ P!CallsAssumption /\ P!TouchesAssumption
    /\ P!FragileAssumption /\ P!MaxTriesAssumption
ASSUME UsersAssumption == U!RangeAssumption /\ U!SkeletonAssumption /\ U!TablesAssumption
ASSUME ServicesAssumption ==
    /\ S!WithinAssumption /\ S!SkeletonAssumption
    /\ S!ServicesAssumption /\ S!PostBuildAssumption /\ S!TargetAssumption
ASSUME ImagesAssumption == R!RootfsAssumption
ASSUME WrapperAssumption == W!BuildsAssumption /\ W!CommandsAssumption /\ W!BeginsAssumption

-----------------------------------------------------------------------------
NoPatches ==
    /\ tree = 0 /\ rej = 0 /\ applied = 0 /\ misfit = 0
    /\ stamp = 0 /\ call = 0 /\ hunks = 0 /\ failed = 0
    /\ ignored = 0 /\ tries = 0
NoUsers ==
    /\ table = 0 /\ gid = 0 /\ member = 0 /\ uid = 0
    /\ ugid = 0 /\ line = 0 /\ queue = 0 /\ rc = 0 - 2
    /\ last = <<>>
NoServices ==
    /\ installed = 0 /\ bbconfig = 0 /\ dhcp = 0 /\ source = 0
    /\ contents = 0 /\ db = 0 /\ list = 0 /\ behind = 0

NoImages ==
    /\ conf = 0 /\ target = 0 /\ accounts = 0 /\ utable = 0
    /\ dtable = 0 /\ left = 0 /\ fake = 0 /\ before = 0
    /\ read = 0 /\ ret = 0
NoWrapper ==
    /\ build = 0 /\ argv = 0 /\ environ = 0 /\ args = 0
    /\ at = 0 /\ warnings = 0 /\ stage = 0 /\ executed = 0
NoFiles == image = 0 /\ script = 0

Init ==
    \/ what = "patches" /\ P!Init /\ NoUsers /\ NoServices /\ NoImages /\ NoFiles /\ NoWrapper
    \/ what = "users" /\ todo = 0 /\ U!Init /\ NoPatches /\ NoServices /\ NoImages /\ NoFiles /\ NoWrapper
    \/ what = "services" /\ S!Init /\ NoPatches /\ NoUsers /\ NoImages /\ NoWrapper
    \/ what = "images" /\ R!Init /\ NoPatches /\ NoUsers /\ NoServices /\ NoWrapper
    \/ /\ what = "wrapper" /\ pc = 0 /\ todo = 0 /\ W!Init
       /\ NoPatches /\ NoUsers /\ NoServices /\ NoImages /\ NoFiles

PatchesNext == what = "patches" /\ P!Next /\ UNCHANGED <<what, image, script, users, services, images, wrapper>>
UsersNext ==
    what = "users" /\ U!Next /\ UNCHANGED <<what, todo, image, script, patches, services, images, wrapper>>
ServicesNext == what = "services" /\ S!Next /\ UNCHANGED <<what, patches, users, images, wrapper>>
ImagesNext == what = "images" /\ R!Next /\ UNCHANGED <<what, patches, users, services, wrapper>>
WrapperNext == what = "wrapper" /\ W!Next /\ UNCHANGED <<shared, patches, users, services, images>>

\* The wrapper has run the compiler.
Ended == what = "wrapper" /\ stage = "done" /\ UNCHANGED vars

Next == Ended \/ PatchesNext \/ UsersNext \/ ServicesNext \/ ImagesNext \/ WrapperNext

Spec == Init /\ [][Next]_vars

-----------------------------------------------------------------------------
\* What is in a build directory is what is listed, in order and without gaps;
\* with the stamp it is all of it, and no reject of an earlier run fails one.
PatchesInOrder ==
    what = "patches" => P!PatchedWhole /\ P!InSequence /\ P!AppliedIsListed /\ P!NoStaleReject

\* After a success of mkusers the two files are as the table says, with no id
\* given out that is taken; a table is refused only for one of four reasons.
UsersAsTable == what = "users" => U!AsTable /\ U!GeneratedIsUnique /\ U!RefusedForReason

\* mkusers run again, for the next image, gives the same ids.
SameAgain == [][what = "users" => U!RepeatsLast]_vars

\* The database of an image has all services that are there by then, those
\* that are enabled in their bundles, each once, and the DHCP client.
ServicesInDb == what = "services" => S!ServicesInDb

\* An image holds what the users and device tables that are configured say,
\* whatever earlier attempts left, and a successful make leaves all of them.
ImagesAsTables == what = "images" => R!ImageAsTables /\ R!ImagesAreWhole

\* The compiler gets what the wrapper was given, and options of the
\* configuration that go with it, in an array that holds them; each path to
\* search, in either form, is judged.
WrapperPassesOn == what = "wrapper" => W!ArgumentsAsGiven /\ W!ArrayHolds /\ W!PathsAreJudged
=============================================================================

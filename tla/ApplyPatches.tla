---------------------------- MODULE ApplyPatches ----------------------------
(***************************************************************************)
(* support/scripts/apply-patches.sh, as the recipe of .stamp_patched       *)
(* (package/pkg-generic.mk) calls it: once for each downloaded patch, then *)
(* once for each directory of patches.  A call lists a directory, goes     *)
(* down into directories and archives, and gives each patch to the         *)
(* program patch.  The recipe may be killed at any point; it is then run   *)
(* again on the same build directory, unless that is removed first.        *)
(*                                                                         *)
(* A patch has one hunk for each file it changes.  A file of the build     *)
(* directory is the sequence of the patches whose hunks are in it.         *)
(***************************************************************************)
EXTENDS Integers, Sequences, FiniteSets, SequencesExt

CONSTANTS
    Patch,      \* the patches
    File,       \* the source files
    Touches,    \* the files each patch has a hunk for
    Dir,        \* directories, and archives once they are unpacked
    Content,    \* of each directory: a set of entries
    Series,     \* of each directory: the names in its series file, or NoSeries
    Calls,      \* the sequence of <<directory, names that match the pattern>>
    Fragile,    \* the hunks <<patch, file>> that may not fit their file
    MaxTries    \* bound on the runs of the recipe on one build directory

NoSeries == <<"none">>

\* "name" orders as LC_COLLATE=C orders the file's name; "is" is what is there
Kind == {"patch", "compressed", "unsupported", "dir", "archive"}
IsPatch(e) == e.kind \in {"patch", "compressed"}

ContentAssumption ==
    \A d \in Dir : \A e \in Content[d] :
        /\ e.name \in Nat \ {0} /\ e.kind \in Kind
        /\ e.is \in IF e.kind \in {"dir", "archive"} THEN Dir ELSE Patch
        /\ \A f \in Content[d] : f.name = e.name => f = e
CallsAssumption == Calls \in Seq(Dir \X SUBSET Nat)
TouchesAssumption == Touches \in [Patch -> SUBSET File]
FragileAssumption == Fragile \subseteq Patch \X File
MaxTriesAssumption == MaxTries \in Nat

VARIABLES
    tree,       \* the patches in each file
    rej,        \* there are reject files
    applied,    \* .applied_patches_list
    misfit,     \* the hunks that do not fit
    stamp,      \* .stamp_patched
    pc,         \* what the script does next
    call,       \* which of Calls it is
    todo,       \* entries it has yet to look at
    hunks,      \* files that patch has yet to change
    failed,     \* a hunk of this patch was rejected
    ignored,    \* a command failed whose status the script does not look at
    tries       \* runs of the recipe on this build directory

disk == <<tree, rej, applied, stamp>>
vars == <<disk, misfit, pc, call, todo, hunks, failed, ignored, tries>>

Fresh ==
    /\ tree = [f \in File |-> <<>>]
    /\ applied = <<>>
    /\ stamp = FALSE
    /\ tries = 0

\* The archive of a package may well contain reject files.
Init ==
    /\ Fresh
    /\ rej \in BOOLEAN
    /\ misfit \in SUBSET Fragile
    /\ pc = "idle" /\ call = 0 /\ todo = <<>>
    /\ hunks = {} /\ failed = FALSE /\ ignored = FALSE

-----------------------------------------------------------------------------
ByName(S) == SetToSortSeq(S, LAMBDA e, f : e.name < f.name)

\* The entry of that name as the plain patch a series file takes it for; a
\* name that is not there has kind "missing".
InSeries(content, n) ==
    IF \E e \in content : e.name = n
    THEN [(CHOOSE e \in content : e.name = n) EXCEPT !.kind = "patch"]
    ELSE [name |-> n, kind |-> "missing", is |-> n]

\* scan_patchdir: the series file, else what ls lists for the pattern.
Listing(series, content, names) ==
    IF series # NoSeries
    THEN [i \in DOMAIN series |-> InSeries(content, series[i])]
    ELSE ByName({e \in content : e.name \in names})

\* A directory below: the pattern is *.
ListingAll(series, content) == Listing(series, content, {e.name : e \in content})

\* A new call: reject files go first.
Start(n) ==
    LET d == Calls[n][1]
    IN  /\ call' = n
        /\ rej' = FALSE
        /\ todo' = Listing(Series[d], Content[d], Calls[n][2])
        /\ pc' = "scan"
        /\ stamp' = stamp

Touch ==
    /\ stamp' = TRUE
    /\ pc' = "idle"
    /\ UNCHANGED <<rej, call, todo>>

NextCall(n) == IF n \in DOMAIN Calls THEN Start(n) ELSE Touch

Make ==
    /\ pc = "idle" /\ ~stamp
    /\ tries < MaxTries
    /\ tries' = tries + 1
    /\ hunks' = {} /\ failed' = FALSE
    /\ NextCall(1)
    /\ UNCHANGED <<tree, applied, misfit, ignored>>

Fail ==
    /\ pc' = "idle"
    /\ UNCHANGED <<tree, rej, stamp, call, todo, hunks, failed>>

-----------------------------------------------------------------------------
Scanning(kinds) == pc = "scan" /\ todo # <<>> /\ Head(todo).kind \in kinds

\* What is in the directory, archive or series file comes before what follows.
EnterDir ==
    /\ Scanning({"dir"})
    /\ LET d == Head(todo).is
       IN  todo' = ListingAll(Series[d], Content[d]) \o Tail(todo)
    /\ UNCHANGED <<disk, misfit, pc, call, hunks, failed, ignored, tries>>

\* The status of tar is lost: when it fails, what it has unpacked is used.
Unpack ==
    /\ Scanning({"archive"})
    /\ LET d == Head(todo).is
       IN  \E got \in SUBSET Content[d], series \in {Series[d], NoSeries} :
              /\ todo' = ListingAll(series, got) \o Tail(todo)
              /\ ignored' = (ignored \/ <<got, series>> # <<Content[d], Series[d]>>)
    /\ UNCHANGED <<disk, misfit, pc, call, hunks, failed, tries>>

Skip ==
    /\ Scanning({"unsupported"})
    /\ todo' = Tail(todo)
    /\ UNCHANGED <<disk, misfit, pc, call, hunks, failed, ignored, tries>>

\* A patch of the series is not there.
Missing ==
    /\ Scanning({"missing"})
    /\ Fail
    /\ UNCHANGED <<applied, misfit, ignored, tries>>

\* The name goes to .applied_patches_list first.  The decompressor's status is
\* lost in the pipeline; when it fails at once, patch has nothing to do.
Feed ==
    /\ Scanning({"patch", "compressed"})
    /\ LET e == Head(todo)
       IN  /\ applied' = Append(applied, e.is)
           /\ \/ hunks' = Touches[e.is] /\ ignored' = ignored
              \/ e.kind = "compressed" /\ hunks' = {} /\ ignored' = TRUE
    /\ failed' = FALSE
    /\ pc' = "patch"
    /\ UNCHANGED <<tree, rej, stamp, misfit, call, todo, tries>>

\* patch -N: a hunk that is already there is rejected like one that misfits.
Hunk ==
    \E f \in hunks :
        LET p == Head(todo).is
        IN  /\ pc = "patch"
            /\ hunks' = hunks \ {f}
            /\ IF p \in ToSet(tree[f]) \/ <<p, f>> \in misfit
               THEN failed' = TRUE /\ rej' = TRUE /\ tree' = tree
               ELSE /\ tree' = [tree EXCEPT ![f] = Append(@, p)]
                    /\ UNCHANGED <<failed, rej>>
            /\ UNCHANGED <<applied, stamp, misfit, pc, call, todo, ignored, tries>>

Patched ==
    /\ pc = "patch" /\ hunks = {} /\ ~failed
    /\ pc' = "scan"
    /\ todo' = Tail(todo)
    /\ UNCHANGED <<disk, misfit, call, hunks, failed, ignored, tries>>

\* Mutant: the script goes on with the next patch
PatchFailsGoesOn ==
    /\ pc = "patch" /\ hunks = {} /\ failed
    /\ pc' = "scan"
    /\ todo' = Tail(todo)
    /\ UNCHANGED <<disk, misfit, call, hunks, failed, ignored, tries>>

PatchFails ==
    /\ pc = "patch" /\ hunks = {} /\ failed
    /\ Fail
    /\ UNCHANGED <<applied, misfit, ignored, tries>>

\* The end of a call: reject files that are there now make it fail.
EndCall ==
    /\ pc = "scan" /\ todo = <<>>
    /\ IF rej
       THEN Fail
       ELSE /\ NextCall(call + 1)
            /\ UNCHANGED <<tree, hunks, failed>>
    /\ UNCHANGED <<applied, misfit, ignored, tries>>

-----------------------------------------------------------------------------
Kill ==
    /\ pc # "idle"
    /\ Fail
    /\ UNCHANGED <<applied, misfit, ignored, tries>>

\* The user corrects a patch, but does not remove the build directory.
Correct ==
    /\ pc = "idle"
    /\ \E h \in misfit : misfit' = misfit \ {h}
    /\ UNCHANGED <<disk, pc, call, todo, hunks, failed, ignored, tries>>

\* make <pkg>-dirclean, and the extraction of the sources.
Reextract ==
    /\ pc = "idle"
    /\ tree' = [f \in File |-> <<>>]
    /\ applied' = <<>>
    /\ stamp' = FALSE
    /\ tries' = 0
    /\ rej' \in BOOLEAN
    /\ ignored' = FALSE
    /\ UNCHANGED <<misfit, pc, call, todo, hunks, failed>>

Script ==
    \/ EnterDir \/ Unpack \/ Skip \/ Missing \/ Feed \/ Hunk
    \/ Patched \/ PatchFails \/ EndCall

Next == Make \/ Script \/ Kill \/ Correct \/ Reextract

Spec == Init /\ [][Next]_vars

-----------------------------------------------------------------------------
TypeOK ==
    /\ tree \in [File -> Seq(Patch)]
    /\ applied \in Seq(Patch)
    /\ misfit \subseteq Fragile
    /\ {rej, stamp, failed, ignored} \subseteq BOOLEAN
    /\ pc \in {"idle", "scan", "patch"}
    /\ call \in 0..Len(Calls)
    /\ hunks \subseteq File
    /\ pc = "patch" => todo # <<>> /\ IsPatch(Head(todo))
    /\ tries \in 0..MaxTries

(***************************************************************************)
(* The order the header of the script and the manual promise: patches in   *)
(* the order of their paths, or of a series file.  A path is the sequence  *)
(* of positions on the way from the call to the patch.                     *)
(***************************************************************************)
PathsBelow[d \in Dir] ==
    IF Series[d] # NoSeries
    THEN {[path |-> <<i>>, patch |-> InSeries(Content[d], Series[d][i]).is] :
             i \in DOMAIN Series[d]}
    ELSE UNION {
           IF e.kind \in {"dir", "archive"}
           THEN {[q EXCEPT !.path = <<e.name>> \o @] : q \in PathsBelow[e.is]}
           ELSE {[path |-> <<e.name>>, patch |-> e.is] : g \in {h \in {e} : IsPatch(h)}} :
           e \in Content[d]}

Lexico(s, t) ==
    \E i \in 1..Len(t) :
        /\ \A j \in 1..(i - 1) : j \in DOMAIN s /\ s[j] = t[j]
        /\ IF i \in DOMAIN s THEN s[i] < t[i] ELSE TRUE

OfCall(n) ==
    LET d == Calls[n][1]
        mine == IF Series[d] # NoSeries THEN PathsBelow[d]
                ELSE {q \in PathsBelow[d] : q.path[1] \in Calls[n][2]}
    IN  {[q EXCEPT !.path = <<n>> \o @] : q \in mine}

InOrder ==
    LET all == UNION {OfCall(n) : n \in DOMAIN Calls}
        sorted == SetToSortSeq(all, LAMBDA q, r : Lexico(q.path, r.path))
    IN  [i \in DOMAIN sorted |-> sorted[i].patch]

(***************************************************************************)
(* A build directory with the stamp has every patch, each once and in      *)
(* order, whatever failed or was killed before; unless a decompressor or   *)
(* tar failed, whose status is not looked at.                              *)
(***************************************************************************)
PatchedWhole ==
    stamp /\ ~ignored =>
        \A f \in File : tree[f] = SelectSeq(InOrder, LAMBDA p : f \in Touches[p])

(***************************************************************************)
(* Reject files the sources came with, or that an earlier run left, never  *)
(* make a run fail whose patches all apply: there are none at the end.     *)
(***************************************************************************)
NoStaleReject == pc = "scan" => ~rej

(***************************************************************************)
(* The patches in the build directory are at any time those before some    *)
(* point of that order, and some hunks of the one at that point: patches   *)
(* that follow one that failed are not applied, by this run or a later     *)
(* one, even after the user corrected it.                                  *)
(***************************************************************************)
InSequence ==
    ~ignored =>
        \A i, j \in DOMAIN InOrder :
            /\ i < j
            /\ \E f \in Touches[InOrder[j]] : InOrder[j] \in ToSet(tree[f])
            => \A f \in Touches[InOrder[i]] : InOrder[i] \in ToSet(tree[f])

(***************************************************************************)
(* Every patch of which a hunk is in the build directory is listed in      *)
(* .applied_patches_list, wherever the script was killed.                  *)
(***************************************************************************)
AppliedIsListed == \A f \in File : ToSet(tree[f]) \subseteq ToSet(applied)
=============================================================================

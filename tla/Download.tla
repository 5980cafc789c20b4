------------------------------ MODULE Download ------------------------------
(***************************************************************************)
(* Several builds download the same file into one shared BR2_DL_DIR.       *)
(*                                                                         *)
(* Each build runs the recipe DOWNLOAD of package/pkg-download.mk, which   *)
(* tries up to three locations, each with its own run of the script        *)
(* support/download/dl-wrapper, and then extracts what is in BR2_DL_DIR.   *)
(* Every command of dl-wrapper that touches the file system is an action,  *)
(* so two scripts interleave between any two of them, and a build may be   *)
(* killed at any of them.                                                  *)
(***************************************************************************)
EXTENDS HashFile

CONSTANTS
    Build,       \* the builds that share BR2_DL_DIR, each with its BUILD_DIR
    Base,        \* the name of the file in BR2_DL_DIR
    HashFiles,   \* the .hash files the package may have
    Conf,        \* the download settings a build may have
    Partial      \* the content of a file whose writing was cut short

ASSUME BaseAssumption == Base \in Name
ASSUME HashFilesAssumption ==
    \A h \in HashFiles : h = NoHashFile \/ h \in Seq(HashLine)
ASSUME PartialAssumption == Partial \in Data

(***************************************************************************)
(* BR2_PRIMARY_SITE and BR2_BACKUP_SITE are set or not, and                *)
(* BR2_PRIMARY_SITE_ONLY is on or off.                                     *)
(***************************************************************************)
AnyConf == [primary : BOOLEAN, only : BOOLEAN, backup : BOOLEAN]

ASSUME ConfAssumption == Conf \subseteq AnyConf

\* A file in BR2_DL_DIR: its content, and whether other users may read it
File == [data : Data, readable : BOOLEAN]

ASSUME NoFileIsNotAFile == NoFile \notin File

\* The places DOWNLOAD_INNER turns to, and where it stops
Loc == {"primary", "upstream", "backup", "end"}

PC == {"idle", "test", "check", "evict", "mktmpd", "fetch", "verify",
       "mktmpo", "chmod", "copy", "rename", "downloaded", "stamped",
       "extracted", "failed"}

VARIABLES
    hfile,       \* the package's .hash file, the same for all builds
    vcs,         \* SITE_METHOD is one of bzr, cvs, git, hg, svn
    conf,        \* the settings of each build
    output,      \* the file in BR2_DL_DIR, or NoFile
    pc,          \* the command each build is about to run
    loc,         \* the location each build is trying
    tmpf,        \* what the backend wrote under tmpd, or NoFile
    tmp_output,  \* the temporary in BR2_DL_DIR, or NoFile
    cruft,       \* the temporaries that scripts left behind when they exited
    extracted    \* what each build extracted, or NoFile

vars == <<hfile, vcs, conf, output, pc, loc, tmpf, tmp_output, cruft,
          extracted>>

given == <<hfile, vcs, conf>>

Init ==
    /\ hfile \in HashFiles
    /\ vcs \in BOOLEAN
    /\ conf \in [Build -> Conf]
    /\ output \in {NoFile} \cup [data : Data \ {Partial}, readable : {TRUE}]
    /\ pc = [b \in Build |-> "idle"]
    /\ loc = [b \in Build |-> "end"]
    /\ tmpf = [b \in Build |-> NoFile]
    /\ tmp_output = [b \in Build |-> NoFile]
    /\ cruft = {}
    /\ extracted = [b \in Build |-> NoFile]

(***************************************************************************)
(* The exit code of check-hash for data, called for the location l.  The   *)
(* helpers of version control systems get no -H; the file such a package   *)
(* downloads is named in BR_NO_CHECK_HASH_FOR.                             *)
(***************************************************************************)
CheckHash(l, data) ==
    HashExit(IF vcs /\ l = "upstream" THEN NoHashFile ELSE hfile,
             Base, data, vcs)

\* The location after l when the wrapper failed for l
NextLoc(b, l) ==
    CASE l = "primary"  -> IF conf[b].only THEN "end" ELSE "upstream"
      [] l = "upstream" -> IF conf[b].backup THEN "backup" ELSE "end"
      [] OTHER          -> "end"

FirstLoc(b) ==
    IF conf[b].primary THEN "primary" ELSE NextLoc(b, "primary")

GoTo(b, label) == pc' = [pc EXCEPT ![b] = label]

\* dl-wrapper is called for the location l, or the recipe gives up.
Turn(b, l) ==
    /\ loc' = [loc EXCEPT ![b] = l]
    /\ GoTo(b, IF l = "end" THEN "failed" ELSE "test")

\* The wrapper exits 1, leaving the temporaries in rest.
GiveUp(b, rest) ==
    /\ Turn(b, NextLoc(b, loc[b]))
    /\ tmpf' = [tmpf EXCEPT ![b] = NoFile]
    /\ tmp_output' = [tmp_output EXCEPT ![b] = NoFile]
    /\ cruft' = cruft \cup rest

-----------------------------------------------------------------------------
\* "make" reaches the download step of the package.
Make(b) ==
    /\ pc[b] = "idle"
    /\ Turn(b, FirstLoc(b))
    /\ UNCHANGED <<given, output, tmpf, tmp_output, cruft, extracted>>

\* [ -e "${output}" ]
Test(b) ==
    /\ pc[b] = "test"
    /\ GoTo(b, IF output = NoFile THEN "mktmpd" ELSE "check")
    /\ UNCHANGED <<given, output, loc, tmpf, tmp_output, cruft, extracted>>

\* Mutant: whatever check-hash has against the file, it is evicted
CheckExistingEvicts(b) ==
    /\ pc[b] = "check"
    /\ IF output # NoFile /\ CheckHash(loc[b], output.data) = 0
       THEN GoTo(b, "downloaded")
       ELSE GoTo(b, "evict")
    /\ UNCHANGED <<given, output, loc, tmpf, tmp_output, cruft, extracted>>

\* check-hash of the file in BR2_DL_DIR, which another build may have
\* removed or replaced since the test.
CheckExisting(b) ==
    /\ pc[b] = "check"
    /\ LET code == CheckHash(loc[b], IF output = NoFile THEN NoFile
                                                        ELSE output.data)
       IN  CASE code = 0 -> /\ GoTo(b, "downloaded")
                            /\ UNCHANGED <<loc, tmpf, tmp_output, cruft>>
             [] code = 2 -> /\ GoTo(b, "evict")
                            /\ UNCHANGED <<loc, tmpf, tmp_output, cruft>>
             [] OTHER    -> GiveUp(b, {})
    /\ UNCHANGED <<given, output, extracted>>

\* Mutant: once the bad file is removed, the wrapper exits 0
EvictAndExit(b) ==
    /\ pc[b] = "evict"
    /\ output' = NoFile
    /\ GoTo(b, "downloaded")
    /\ UNCHANGED <<given, loc, tmpf, tmp_output, cruft, extracted>>

\* rm -f "${output}", under "set -e"
Evict(b) ==
    /\ pc[b] = "evict"
    /\ \/ /\ output' = NoFile
          /\ GoTo(b, "mktmpd")
          /\ UNCHANGED <<loc, tmpf, tmp_output, cruft>>
       \/ GiveUp(b, {}) /\ UNCHANGED output
    /\ UNCHANGED <<given, extracted>>

\* tmpd="$(mktemp -d ...)", in BUILD_DIR
MkTmpd(b) ==
    /\ pc[b] = "mktmpd"
    /\ \/ GoTo(b, "fetch") /\ UNCHANGED <<loc, tmpf, tmp_output, cruft>>
       \/ GiveUp(b, {})
    /\ UNCHANGED <<given, output, extracted>>

\* The backend writes tmpf, with whatever the location serves, or fails, and
\* then the wrapper removes tmpd.
Fetch(b) ==
    /\ pc[b] = "fetch"
    /\ \/ /\ \E d \in Data \ {Partial} : tmpf' = [tmpf EXCEPT ![b] = d]
          /\ GoTo(b, "verify")
          /\ UNCHANGED <<loc, tmp_output, cruft>>
       \/ GiveUp(b, {})
    /\ UNCHANGED <<given, output, extracted>>

\* Mutant: a file without any hash for it passes
VerifyLax(b) ==
    /\ pc[b] = "verify"
    /\ IF CheckHash(loc[b], tmpf[b]) \in {0, 3}
       THEN GoTo(b, "mktmpo") /\ UNCHANGED <<loc, tmpf, tmp_output, cruft>>
       ELSE GiveUp(b, {})
    /\ UNCHANGED <<given, output, extracted>>

\* check-hash of tmpf; the wrapper removes tmpd when it is rejected.
Verify(b) ==
    /\ pc[b] = "verify"
    /\ IF CheckHash(loc[b], tmpf[b]) = 0
       THEN GoTo(b, "mktmpo") /\ UNCHANGED <<loc, tmpf, tmp_output, cruft>>
       ELSE GiveUp(b, {})
    /\ UNCHANGED <<given, output, extracted>>

\* Mutant: "mktemp -u", which makes up a name and no file
MkTmpOutputName(b) ==
    /\ pc[b] = "mktmpo"
    /\ tmp_output' = [tmp_output EXCEPT
                          ![b] = [data |-> NoFile, readable |-> FALSE]]
    /\ GoTo(b, "chmod")
    /\ UNCHANGED <<given, output, loc, tmpf, cruft, extracted>>

\* tmp_output="$(mktemp "${output}.XXXXXX")", under "set -e"
MkTmpOutput(b) ==
    /\ pc[b] = "mktmpo"
    /\ \/ /\ tmp_output' = [tmp_output EXCEPT
                                ![b] = [data |-> Partial, readable |-> FALSE]]
          /\ GoTo(b, "chmod")
          /\ UNCHANGED <<loc, tmpf, cruft>>
       \/ GiveUp(b, {"tmpd"})
    /\ UNCHANGED <<given, output, extracted>>

\* chmod ${new_mode} "${tmp_output}", under "set -e"
Chmod(b) ==
    /\ pc[b] = "chmod"
    /\ \/ /\ tmp_output' = [tmp_output EXCEPT ![b].readable = TRUE]
          /\ GoTo(b, "copy")
          /\ UNCHANGED <<loc, tmpf, cruft>>
       \/ GiveUp(b, {"tmpd", "tmp_output"})
    /\ UNCHANGED <<given, output, extracted>>

\* Mutant: the exit code of cat is not looked at
CopyUnchecked(b) ==
    /\ pc[b] = "copy"
    /\ \E d \in {tmpf[b], Partial} :
          tmp_output' = [tmp_output EXCEPT ![b].data = d]
    /\ tmpf' = [tmpf EXCEPT ![b] = NoFile]
    /\ GoTo(b, "rename")
    /\ UNCHANGED <<given, output, loc, cruft, extracted>>

\* cat "${tmpf}" >>"${tmp_output}"; either way tmpd is removed.
Copy(b) ==
    /\ pc[b] = "copy"
    /\ \/ /\ tmp_output' = [tmp_output EXCEPT ![b].data = tmpf[b]]
          /\ tmpf' = [tmpf EXCEPT ![b] = NoFile]
          /\ GoTo(b, "rename")
          /\ UNCHANGED <<loc, cruft>>
       \/ GiveUp(b, {})
    /\ UNCHANGED <<given, output, extracted>>

\* mv -f "${tmp_output}" "${output}"
Rename(b) ==
    /\ pc[b] = "rename"
    /\ \/ /\ output' = tmp_output[b]
          /\ tmp_output' = [tmp_output EXCEPT ![b] = NoFile]
          /\ GoTo(b, "downloaded")
          /\ UNCHANGED <<loc, tmpf, cruft>>
       \/ GiveUp(b, {}) /\ UNCHANGED output
    /\ UNCHANGED <<given, extracted>>

-----------------------------------------------------------------------------
\* DOWNLOAD is through: mkdir -p and touch of .stamp_downloaded, which may
\* fail.  Without the stamp the next "make" downloads again.
Stamp(b) ==
    /\ pc[b] = "downloaded"
    /\ \/ GoTo(b, "stamped") /\ UNCHANGED loc
       \/ Turn(b, "end")
    /\ UNCHANGED <<given, output, tmpf, tmp_output, cruft, extracted>>

\* The stamp .stamp_downloaded is there: the package is extracted from
\* BR2_DL_DIR.  Without the file that step fails, however often it is run.
Extract(b) ==
    /\ pc[b] = "stamped"
    /\ output # NoFile
    /\ extracted' = [extracted EXCEPT ![b] = output.data]
    /\ GoTo(b, "extracted")
    /\ UNCHANGED <<given, output, loc, tmpf, tmp_output, cruft>>

\* No location worked, "make" stopped, and is run again.
MakeAgain(b) ==
    /\ pc[b] = "failed"
    /\ Turn(b, FirstLoc(b))
    /\ UNCHANGED <<given, output, tmpf, tmp_output, cruft, extracted>>

\* The build is killed before its stamp is there.  dl-wrapper traps no
\* signal: whatever temporaries it has stay.
Kill(b) ==
    /\ pc[b] \notin {"idle", "stamped", "extracted", "failed"}
    /\ GoTo(b, "failed")
    /\ loc' = [loc EXCEPT ![b] = "end"]
    /\ cruft' = cruft
          \cup (IF pc[b] \in {"fetch", "verify", "mktmpo", "chmod", "copy"}
                THEN {"tmpd"} ELSE {})
          \cup (IF tmp_output[b] # NoFile THEN {"tmp_output"} ELSE {})
    /\ tmpf' = [tmpf EXCEPT ![b] = NoFile]
    /\ tmp_output' = [tmp_output EXCEPT ![b] = NoFile]
    /\ UNCHANGED <<given, output, extracted>>

Wrapper(b) ==
    \/ Test(b) \/ CheckExisting(b) \/ Evict(b)
    \/ MkTmpd(b) \/ Fetch(b) \/ Verify(b)
    \/ MkTmpOutput(b) \/ Chmod(b) \/ Copy(b) \/ Rename(b)

Step(b) ==
    Make(b) \/ Wrapper(b) \/ Stamp(b) \/ Extract(b) \/ MakeAgain(b)

Next == \E b \in Build : Step(b) \/ Kill(b)

Spec == Init /\ [][Next]_vars

(***************************************************************************)
(* The same system started clean: what is in BR2_DL_DIR passes its hashes, *)
(* and a package fetched by a version control system has no hash for its   *)
(* file, as the manual asks.                                               *)
(***************************************************************************)
Accepted(data) == CheckHash("primary", data) = 0

Clean ==
    /\ output # NoFile => Accepted(output.data)
    /\ vcs => \A d \in Data : Accepted(d)

CleanInit == Init /\ Clean

CleanSpec == CleanInit /\ [][Next]_vars

\* Scripts that are never killed
UnkilledSpec == Init /\ [][\E b \in Build : Step(b)]_vars

(***************************************************************************)
(* Whatever is in BR2_DL_DIR at first: nothing keeps a script from         *)
(* running, and from some moment on nothing goes wrong any more: no script *)
(* is killed and none gives a location up.                                 *)
(***************************************************************************)
Fault(b) == Kill(b) \/ ((Wrapper(b) \/ Stamp(b)) /\ loc'[b] # loc[b])

FairSpec ==
    /\ Spec
    /\ \A b \in Build : WF_vars(Step(b))
    /\ <>[][\A b \in Build : ~Fault(b)]_vars

-----------------------------------------------------------------------------
TypeOK ==
    /\ hfile \in HashFiles
    /\ vcs \in BOOLEAN
    /\ conf \in [Build -> Conf]
    /\ output \in {NoFile} \cup File
    /\ pc \in [Build -> PC]
    /\ loc \in [Build -> Loc]
    /\ tmpf \in [Build -> {NoFile} \cup Data]
    /\ tmp_output \in [Build -> {NoFile} \cup File]
    /\ cruft \subseteq {"tmpd", "tmp_output"}
    /\ extracted \in [Build -> {NoFile} \cup Data]

(***************************************************************************)
(* A build that uses the .hash file never extracts data the file rejects,  *)
(* whatever other builds do to BR2_DL_DIR between its check and its tar.   *)
(***************************************************************************)
ExtractsVerified ==
    ~vcs => \A b \in Build : extracted[b] # NoFile => Accepted(extracted[b])

(***************************************************************************)
(* Under its final name a file is complete and readable to other users:    *)
(* what a fetch, a copy or a kill cut short is only ever a temporary.      *)
(***************************************************************************)
PublishedWhole == output # NoFile => output.data # Partial /\ output.readable

(***************************************************************************)
(* A file that cannot be judged (no hash for it, unknown hash type) is a   *)
(* hard error: neither this location nor a later one, of this or another   *)
(* build, removes or replaces it.                                          *)
(***************************************************************************)
Unjudged == output # NoFile /\ CheckHash("primary", output.data) \in {3, 4}

HardErrorKeepsFile == [][~vcs /\ Unjudged => UNCHANGED output]_vars

\* Why: no script gets past its check of such a file, and none that began
\* before the file was there has anything to put in its place.
Blocked ==
    ~vcs /\ Unjudged =>
        \A b \in Build : pc[b] \in {"idle", "test", "check", "downloaded",
                                   "stamped", "extracted", "failed"}

(***************************************************************************)
(* What each script knows at each of its commands: what it fetched is      *)
(* complete, is accepted once verified, and is in the temporary it is      *)
(* about to rename.  With TypeOK and PublishedWhole this is inductive and  *)
(* gives ExtractsVerified.                                                 *)
(***************************************************************************)
Fetched(b) ==
    pc[b] \in {"verify", "mktmpo", "chmod", "copy"} =>
        tmpf[b] \in Data \ {Partial}

Temporary(b) ==
    /\ pc[b] \in {"chmod", "copy", "rename"} => tmp_output[b] \in File
    /\ pc[b] \in {"copy", "rename"} => tmp_output[b].readable
    /\ pc[b] = "rename" => tmp_output[b].data # Partial

Verified(b) ==
    ~vcs =>
        /\ pc[b] \in {"mktmpo", "chmod", "copy"} => Accepted(tmpf[b])
        /\ pc[b] = "rename" => Accepted(tmp_output[b].data)
        /\ pc[b] \in {"downloaded", "stamped"} /\ output # NoFile
              => Accepted(output.data)

ScriptInv == \A b \in Build : Fetched(b) /\ Temporary(b) /\ Verified(b)

(***************************************************************************)
(* Started clean, BR2_DL_DIR behaves as a store of verified files that     *)
(* never loses one (module DownloadStore).                                 *)
(***************************************************************************)
Store == INSTANCE DownloadStore WITH
    Good <- {d \in Data : Accepted(d)},
    None <- NoFile,
    file <- IF output = NoFile THEN NoFile ELSE output.data,
    taken <- extracted

ImplementsStore == Store!Spec

(***************************************************************************)
(* Once faults stop, every build that has a location to turn to extracts   *)
(* its file, from any start: when the file there at first is bad, the      *)
(* builds evict it and each other's copies in turn, and a build that has   *)
(* its stamp waits for a file another one has taken away.                  *)
(***************************************************************************)
HasLocation(b) == conf[b].primary \/ ~conf[b].only

EveryBuildExtracts ==
    \A b \in Build : HasLocation(b) ~> extracted[b] # NoFile

(***************************************************************************)
(* "Ensures that concurrent downloads do not conflict": a file that passes *)
(* its hashes is not taken away.                                           *)
(***************************************************************************)
VerifiedStays ==
    [][output # NoFile /\ Accepted(output.data) => output' # NoFile]_vars
=============================================================================

------------------------------ MODULE PkgBuild ------------------------------
(***************************************************************************)
(* The generic package infrastructure (package/pkg-generic.mk) and the     *)
(* world target (Makefile) as GNU make runs them.                          *)
(*                                                                         *)
(* A package is built in steps.  When a step succeeds its recipe touches a *)
(* stamp file; the rules relate stamps (and phony targets) so that "make"  *)
(* redoes what is missing or out of date, in an order that respects the    *)
(* dependencies.  The user gives command lines: build everything, build    *)
(* one package, redo a package from one of its steps, remove its build     *)
(* directory.  Any recipe may fail, and "make" may be interrupted          *)
(* anywhere; the next command line starts from what is left on the disk.   *)
(*                                                                         *)
(* The top Makefile is .NOTPARALLEL: one target at a time.                 *)
(***************************************************************************)
EXTENDS Integers, Sequences, FiniteSets

CONSTANTS
    Pkg,         \* the packages
    Deps,        \* _FINAL_DEPENDENCIES of each package
    PatchDeps,   \* _FINAL_PATCH_DEPENDENCIES of each package
    Installs,    \* the installation steps of each package: "host" for a host
                 \* package, else by _INSTALL_STAGING, _TARGET, _IMAGES
    Override,    \* the packages with an _OVERRIDE_SRCDIR
    HostPrereq,  \* DEPENDENCIES_HOST_PREREQ
    Top,         \* PACKAGES: what the configuration enables
    World,       \* stands for the top Makefile where a package is expected
    Command,     \* the command lines the user may give
    MaxVersion   \* bound on the versions of a package's source

InstallStep == {"staging", "target", "images", "host"}

Step == {"downloaded", "extracted", "rsynced", "patched", "configured",
         "built"} \cup InstallStep

Cleaning == {"clean-for-reinstall", "clean-for-rebuild",
             "clean-for-reconfigure", "dirclean"}

\* What make calls targets: <<name, package>>
Target ==
    ((Step \cup Cleaning \cup {"pkg", "patch"}) \X Pkg)
        \cup ({"target-finalize", "rootfs", "all"} \X {World})

\* What the user may ask for; "redo" goals are a cleaning, then the package
Goal ==
    ({"reinstall", "rebuild", "reconfigure", "dirclean", "pkg"} \X Pkg)
        \cup {<<"all", World>>}

ASSUME PkgAssumption == IsFiniteSet(Pkg)
ASSUME DepsAssumption ==
    Deps \in [Pkg -> SUBSET Pkg] /\ PatchDeps \in [Pkg -> SUBSET Pkg]
ASSUME InstallsAssumption == Installs \in [Pkg -> (SUBSET InstallStep) \ {{}}]
ASSUME SubsetAssumption ==
    Override \subseteq Pkg /\ HostPrereq \subseteq Pkg /\ Top \subseteq Pkg

(***************************************************************************)
(* The dependencies are acyclic.  (make drops a circular dependency with a *)
(* warning, and the order between the packages is lost: see Ready.)        *)
(***************************************************************************)
ASSUME AcyclicAssumption ==
    \E rank \in [Pkg -> 1..Cardinality(Pkg)] :
        \A p \in Pkg : \A d \in Deps[p] \cup PatchDeps[p] : rank[d] < rank[p]

(***************************************************************************)
(* Every other package waits for these, so they may depend only on each    *)
(* other: again the rules would be circular.                               *)
(***************************************************************************)
ASSUME HostPrereqAssumption ==
    \A h \in HostPrereq : Deps[h] \cup PatchDeps[h] \subseteq HostPrereq

ASSUME WorldAssumption == World \notin Pkg
ASSUME CommandAssumption == Command \subseteq Seq(Goal)
ASSUME MaxVersionAssumption == MaxVersion \in Nat \ {0}

\* Version 0 of anything: it is not there, or not whole.
Version == 0..MaxVersion

VARIABLES
    stamp,       \* the stamp files of each package
    old,         \* those of them that are older than a prerequisite
    src,         \* version of the source in OVERRIDE_SRCDIR or the tarball
    tree,        \* version in the build directory
    bin,         \* version that is compiled there
    inst,        \* version installed by each installation step
    image,       \* version in the root filesystem image
    status,      \* of the last command line
    cmd,         \* that command line
    started,     \* the sources it found when it started
    goals,       \* targets it has yet to turn to
    stack,       \* targets being updated, each a prerequisite of the last
    done,        \* targets make is done with; it looks at each only once
    line         \* lines done of the recipe of a cleaning

disk == <<stamp, old, tree, bin, inst, image>>
run == <<cmd, started, goals>>
vars == <<disk, src, status, run, stack, done, line>>

Init ==
    /\ stamp = [p \in Pkg |-> {}]
    /\ old = [p \in Pkg |-> {}]
    /\ src = [p \in Pkg |-> 1]
    /\ tree = [p \in Pkg |-> 0]
    /\ bin = [p \in Pkg |-> 0]
    /\ inst = [p \in Pkg |-> [s \in InstallStep |-> 0]]
    /\ image = [p \in Pkg |-> 0]
    /\ status = "idle"
    /\ cmd = <<>>
    /\ started = [p \in Pkg |-> 0]
    /\ goals = <<>>
    /\ stack = <<>>
    /\ done = {}
    /\ line = 0

-----------------------------------------------------------------------------
(***************************************************************************)
(* The rules.  A stamp is out of date when one of Normal is newer; the     *)
(* others are order-only: looked at first, but never a reason to redo.     *)
(***************************************************************************)
\* Mutant: configuring depends on rsyncing as the other steps do
NormalRsync(s, p) ==
    CASE s = "extracted"  -> {"downloaded"}
      [] s = "patched"    -> {"extracted"}
      [] s = "configured" -> IF p \in Override THEN {"rsynced"} ELSE {"patched"}
      [] s = "built"      -> {"configured"}
      [] s = "target"     -> {"built"} \cup (Installs[p] \cap {"staging"})
      [] s \in {"staging", "images", "host"} -> {"built"}
      [] OTHER            -> {}

Normal(s, p) ==
    CASE s = "extracted"  -> {"downloaded"}
      [] s = "patched"    -> {"extracted"}
      [] s = "configured" -> IF p \in Override THEN {} ELSE {"patched"}
      [] s = "built"      -> {"configured"}
      [] s = "target"     -> {"built"} \cup (Installs[p] \cap {"staging"})
      [] s \in {"staging", "images", "host"} -> {"built"}
      [] OTHER            -> {}

\* Mutant: configuring waits for its dependencies' sources only
OrderOnlySources(s, p) ==
    CASE s \in {"downloaded", "rsynced"} ->
            IF p \in HostPrereq THEN {} ELSE {"pkg"} \X HostPrereq
      [] s = "patched"    -> {"patch"} \X PatchDeps[p]
      [] s = "configured" ->
            ({"patch"} \X Deps[p])
                \cup (IF p \in Override THEN {<<"rsynced", p>>} ELSE {})
      [] OTHER            -> {}

OrderOnly(s, p) ==
    CASE s \in {"downloaded", "rsynced"} ->
            IF p \in HostPrereq THEN {} ELSE {"pkg"} \X HostPrereq
      [] s = "patched"    -> {"patch"} \X PatchDeps[p]
      [] s = "configured" ->
            ({"pkg"} \X Deps[p])
                \cup (IF p \in Override THEN {<<"rsynced", p>>} ELSE {})
      [] OTHER            -> {}

\* Mutant: the image does not wait for the target directory
PrereqsImageAlone(t) ==
    CASE t[1] \in Step ->
            (Normal(t[1], t[2]) \X {t[2]}) \cup OrderOnly(t[1], t[2])
      [] t[1] = "pkg"   -> Installs[t[2]] \X {t[2]}
      [] t[1] = "patch" ->
            {<<IF t[2] \in Override THEN "rsynced" ELSE "patched", t[2]>>}
      [] t[1] = "all"   -> {<<"rootfs", World>>}
      [] OTHER          -> {}

Prereqs(t) ==
    LET name == t[1]
        p == t[2]
    IN  CASE name \in Step -> (Normal(name, p) \X {p}) \cup OrderOnly(name, p)
          [] name = "pkg"  -> Installs[p] \X {p}
          [] name = "patch" ->
                {<<IF p \in Override THEN "rsynced" ELSE "patched", p>>}
          [] name = "clean-for-rebuild"     -> {<<"clean-for-reinstall", p>>}
          [] name = "clean-for-reconfigure" -> {<<"clean-for-rebuild", p>>}
          [] name = "target-finalize"       -> {"pkg"} \X Top
          [] name = "rootfs" -> {<<"target-finalize", World>>}
          [] name = "all"    -> {<<"rootfs", World>>}
          [] OTHER           -> {}

\* Mutant: the sources are not synchronised again
RemovesNoRsync(t) ==
    CASE t[1] = "clean-for-reinstall" -> <<"staging", "target", "images", "host">>
      [] t[1] = "clean-for-rebuild"     -> <<"built">>
      [] t[1] = "clean-for-reconfigure" -> <<"configured">>

\* The stamps a cleaning removes, one "rm -f" after the other
Removes(t) ==
    CASE t[1] = "clean-for-reinstall" ->
            (IF t[2] \in Override THEN <<"rsynced">> ELSE <<>>)
                \o <<"staging", "target", "images", "host">>
      [] t[1] = "clean-for-rebuild"     -> <<"built">>
      [] t[1] = "clean-for-reconfigure" -> <<"configured">>

\* <pkg>-rebuild: <pkg>-clean-for-rebuild <pkg>, in this order
Expand(g) ==
    CASE g[1] = "reinstall"   -> <<<<"clean-for-reinstall", g[2]>>, <<"pkg", g[2]>>>>
      [] g[1] = "rebuild"     -> <<<<"clean-for-rebuild", g[2]>>, <<"pkg", g[2]>>>>
      [] g[1] = "reconfigure" -> <<<<"clean-for-reconfigure", g[2]>>, <<"pkg", g[2]>>>>
      [] OTHER                -> <<g>>

-----------------------------------------------------------------------------
(***************************************************************************)
(* make walks the targets depth first.                                     *)
(***************************************************************************)
Running == status = "running"

Current == stack[Len(stack)]

OnStack == {stack[i] : i \in DOMAIN stack}

\* All prerequisites of the innermost target are done.  One that is being
\* updated itself is circular, and make drops it.
Ready == Running /\ stack # <<>> /\ Prereqs(Current) \subseteq done \cup OnStack

UpToDate(s, p) == s \in stamp[p] \ old[p]

\* make is done with the innermost target.
Close ==
    /\ done' = done \cup {Current}
    /\ stack' = SubSeq(stack, 1, Len(stack) - 1)
    /\ line' = 0
    /\ UNCHANGED <<status, run>>

\* The user runs make with command line c.
Invoke(c) ==
    /\ ~Running
    /\ status' = "running"
    /\ cmd' = c
    /\ started' = [p \in Pkg |-> IF p \in Override THEN src[p] ELSE tree[p]]
    /\ goals' = c
    /\ stack' = <<>>
    /\ done' = {}
    /\ line' = 0
    /\ UNCHANGED <<disk, src>>

\* make turns to the next goal of the command line.
NextGoal ==
    /\ Running /\ stack = <<>> /\ goals # <<>>
    /\ LET ts == Expand(Head(goals))
           open == {i \in DOMAIN ts : ts[i] \notin done}
       IN  \/ open = {} /\ goals' = Tail(goals) /\ UNCHANGED stack
           \/ /\ \E i \in open : /\ \A j \in open : i <= j
                               /\ stack' = <<ts[i]>>
              /\ UNCHANGED goals
    /\ UNCHANGED <<disk, src, status, cmd, started, done, line>>

Finish ==
    /\ Running /\ stack = <<>> /\ goals = <<>>
    /\ status' = "succeeded"
    /\ done' = {}
    /\ UNCHANGED <<disk, src, run, stack, line>>

\* make turns to a prerequisite of the innermost target.
Descend ==
    /\ Running /\ stack # <<>>
    /\ \E t \in Prereqs(Current) \ (done \cup OnStack) : stack' = Append(stack, t)
    /\ UNCHANGED <<disk, src, status, run, done, line>>

\* Nothing to do: the stamp is up to date, or the target has no recipe.
Skip ==
    /\ Ready
    /\ IF Current[1] \in Step THEN UpToDate(Current[1], Current[2])
       ELSE Current[1] \in {"pkg", "patch", "target-finalize", "all"}
    /\ Close
    /\ UNCHANGED <<disk, src>>

-----------------------------------------------------------------------------
(***************************************************************************)
(* The recipes of the steps.                                               *)
(***************************************************************************)
Due(s, p) == Ready /\ Current = <<s, p>> /\ ~UpToDate(s, p)

\* Mutant: the date of a stamp that is there already stays
TouchCreates(s, p) ==
    /\ stamp' = [stamp EXCEPT ![p] = @ \cup {s}]
    /\ old' = [old EXCEPT ![p] = @ \cup {d \in stamp[p] : s \in Normal(d, p)}]
    /\ Close
    /\ UNCHANGED <<src, image>>

\* touch $@: newer than its prerequisites, and than what depends on it.
Touch(s, p) ==
    /\ stamp' = [stamp EXCEPT ![p] = @ \cup {s}]
    /\ old' = [old EXCEPT ![p] =
                  (@ \ {s}) \cup {d \in stamp[p] : s \in Normal(d, p)}]
    /\ Close
    /\ UNCHANGED <<src, image>>

Download(p) ==
    /\ Due("downloaded", p)
    /\ Touch("downloaded", p)
    /\ UNCHANGED <<tree, bin, inst>>

Extract(p) ==
    /\ Due("extracted", p)
    /\ tree' = [tree EXCEPT ![p] = 1]
    /\ Touch("extracted", p)
    /\ UNCHANGED <<bin, inst>>

\* Mutant: synchronising always makes something new
RsyncCounts(p) ==
    /\ Due("rsynced", p)
    /\ tree' = [tree EXCEPT ![p] = tree[p] + src[p]]
    /\ Touch("rsynced", p)
    /\ UNCHANGED <<bin, inst>>

Rsync(p) ==
    /\ Due("rsynced", p)
    /\ tree' = [tree EXCEPT ![p] = src[p]]
    /\ Touch("rsynced", p)
    /\ UNCHANGED <<bin, inst>>

\* Patching and configuring need the sources to be there and whole.
Prepare(s, p) ==
    /\ s \in {"patched", "configured"}
    /\ Due(s, p)
    /\ tree[p] # 0
    /\ Touch(s, p)
    /\ UNCHANGED <<tree, bin, inst>>

Build(p) ==
    /\ Due("built", p)
    /\ tree[p] # 0
    /\ bin' = [bin EXCEPT ![p] = tree[p]]
    /\ Touch("built", p)
    /\ UNCHANGED <<tree, inst>>

Install(s, p) ==
    /\ s \in InstallStep
    /\ Due(s, p)
    /\ bin[p] # 0
    /\ inst' = [inst EXCEPT ![p][s] = bin[p]]
    /\ Touch(s, p)
    /\ UNCHANGED <<tree, bin>>

(***************************************************************************)
(* The recipes that clean: one rm at a time, and rm -Rf of the directory.  *)
(***************************************************************************)
Remove ==
    /\ Ready /\ Current[1] \in Cleaning \ {"dirclean"}
    /\ LET p == Current[2]
           rms == Removes(Current)
       IN  IF line < Len(rms)
           THEN /\ stamp' = [stamp EXCEPT ![p] = @ \ {rms[line + 1]}]
                /\ old' = [old EXCEPT ![p] = @ \ {rms[line + 1]}]
                /\ line' = line + 1
                /\ UNCHANGED <<status, run, stack, done>>
           ELSE Close /\ UNCHANGED <<stamp, old>>
    /\ UNCHANGED <<src, tree, bin, inst, image>>

Wipe(p, rest) ==
    /\ stamp' = [stamp EXCEPT ![p] = rest]
    /\ old' = [old EXCEPT ![p] = @ \cap rest]
    /\ tree' = [tree EXCEPT ![p] = 0]
    /\ bin' = [bin EXCEPT ![p] = 0]
    /\ UNCHANGED <<src, inst, image>>

Dirclean(p) ==
    /\ Ready /\ Current = <<"dirclean", p>>
    /\ Wipe(p, {})
    /\ Close

\* The root filesystem image is generated from the target directory, every
\* time: it depends on target-finalize, which is phony.
Rootfs ==
    /\ Ready /\ Current[1] = "rootfs"
    /\ image' = [p \in Pkg |-> inst[p]["target"]]
    /\ Close
    /\ UNCHANGED <<stamp, old, src, tree, bin, inst>>

-----------------------------------------------------------------------------
(***************************************************************************)
(* A recipe fails or make is interrupted: the command line ends, and what  *)
(* the recipe was working on is left half done.                            *)
(***************************************************************************)
\* Mutant: a failing installation touches its stamp all the same
SpoilTouches(t) ==
    IF t[1] \in InstallStep
    THEN /\ inst' = [inst EXCEPT ![t[2]][t[1]] = 0]
         /\ stamp' = [stamp EXCEPT ![t[2]] = @ \cup {t[1]}]
         /\ UNCHANGED <<old, src, tree, bin, image>>
    ELSE UNCHANGED <<disk, src>>

Spoil(t) ==
    LET s == t[1]
        p == t[2]
    IN  CASE s \in {"extracted", "rsynced"} ->
                /\ tree' = [tree EXCEPT ![p] = 0]
                /\ UNCHANGED <<stamp, old, src, bin, inst, image>>
          [] s = "patched" ->
                /\ tree' \in {tree, [tree EXCEPT ![p] = 0]}
                /\ UNCHANGED <<stamp, old, src, bin, inst, image>>
          [] s = "built" ->
                /\ bin' = [bin EXCEPT ![p] = 0]
                /\ UNCHANGED <<stamp, old, src, tree, inst, image>>
          [] s \in InstallStep ->
                /\ inst' = [inst EXCEPT ![p][s] = 0]
                /\ UNCHANGED <<stamp, old, src, tree, bin, image>>
          [] s = "dirclean" -> \E rest \in SUBSET stamp[p] : Wipe(p, rest)
          [] s = "rootfs" ->
                /\ image' = [q \in Pkg |-> 0]
                /\ UNCHANGED <<stamp, old, src, tree, bin, inst>>
          [] OTHER -> UNCHANGED <<disk, src>>

Stop ==
    /\ Running
    /\ status' = "stopped"
    /\ \/ UNCHANGED <<disk, src>>
       \/ /\ Ready
          /\ Current[1] \in Step => ~UpToDate(Current[1], Current[2])
          /\ Spoil(Current)
    /\ cmd' = <<>>
    /\ started' = [p \in Pkg |-> 0]
    /\ goals' = <<>>
    /\ stack' = <<>>
    /\ done' = {}
    /\ line' = 0

\* A recipe that lacks what it works on cannot but fail.
Hopeless ==
    /\ Ready
    /\ LET s == Current[1]
           p == Current[2]
       IN  /\ s \in Step /\ ~UpToDate(s, p)
           /\ \/ s \in {"patched", "configured", "built"} /\ tree[p] = 0
              \/ s \in InstallStep /\ bin[p] = 0

Fail == Hopeless /\ Stop

\* The developer changes the sources: in OVERRIDE_SRCDIR, at any time, or in
\* the build directory, which is there between two command lines.
Edit(p) ==
    /\ IF p \in Override
       THEN /\ src[p] < MaxVersion
            /\ src' = [src EXCEPT ![p] = @ + 1]
            /\ UNCHANGED tree
       ELSE /\ ~Running
            /\ tree[p] \in 1..(MaxVersion - 1)
            /\ tree' = [tree EXCEPT ![p] = @ + 1]
            /\ UNCHANGED src
    /\ UNCHANGED <<stamp, old, bin, inst, image, status, run, stack, done, line>>

PkgStep(p) ==
    \/ Download(p) \/ Extract(p) \/ Rsync(p)
    \/ \E s \in Step : Prepare(s, p) \/ Install(s, p)
    \/ Build(p) \/ Dirclean(p)

Make ==
    \/ NextGoal \/ Finish \/ Descend \/ Skip
    \/ Remove \/ Rootfs \/ Fail
    \/ \E p \in Pkg : PkgStep(p)

Next ==
    \/ Make
    \/ Stop
    \/ \E c \in Command : Invoke(c)
    \/ \E p \in Pkg : Edit(p)

Spec == Init /\ [][Next]_vars

-----------------------------------------------------------------------------
TypeOK ==
    /\ stamp \in [Pkg -> SUBSET Step]
    /\ old \in [Pkg -> SUBSET Step]
    /\ src \in [Pkg -> Version]
    /\ tree \in [Pkg -> Version]
    /\ bin \in [Pkg -> Version]
    /\ inst \in [Pkg -> [InstallStep -> Version]]
    /\ image \in [Pkg -> Version]
    /\ status \in {"idle", "running", "succeeded", "stopped"}
    /\ cmd \in Seq(Goal)
    /\ started \in [Pkg -> Version]
    /\ goals \in Seq(Goal)
    /\ stack \in Seq(Target)
    /\ done \subseteq Target
    /\ line \in Nat

(***************************************************************************)
(* The packages p depends on, at any distance: the smallest set that has   *)
(* the dependencies of p and those of its members.                         *)
(***************************************************************************)
AllDeps ==
    [p \in Pkg |->
        {d \in Pkg : \A S \in SUBSET Pkg :
            (Deps[p] \subseteq S /\ \A q \in S : Deps[q] \subseteq S) => d \in S}]

Whole(p) == \A s \in Installs[p] : inst[p][s] # 0

(***************************************************************************)
(* An up-to-date stamp tells the truth: what its step installed is there   *)
(* and whole, however many failures and interruptions came before.         *)
(***************************************************************************)
StampsHonest ==
    \A p \in Pkg : \A s \in InstallStep : UpToDate(s, p) => inst[p][s] # 0

(***************************************************************************)
(* Once make is done with the configuration of a package, all packages it  *)
(* depends on, directly or not, are installed, every step of them.         *)
(***************************************************************************)
DepsBeforeConfigure ==
    \A p \in Pkg : <<"configured", p>> \in done =>
        \A d \in AllDeps[p] : Whole(d)

\* Why: what make is done with has its prerequisites done, and is installed
\* if it is an installation step.  With StampsHonest this is inductive.
DoneInOrder ==
    /\ \A t \in done : Prereqs(t) \subseteq done
    /\ \A p \in Pkg : \A s \in InstallStep : <<s, p>> \in done => inst[p][s] # 0

(***************************************************************************)
(* After a successful "make ... all" a second one has nothing to redo: no  *)
(* stamp of an enabled package or of one it depends on is missing or old.  *)
(***************************************************************************)
StepsOf(p) ==
    Installs[p] \cup {"built", "configured"}
        \cup (IF p \in Override THEN {"rsynced"}
              ELSE {"patched", "extracted", "downloaded"})

EndsWithAll == cmd # <<>> /\ cmd[Len(cmd)] = <<"all", World>>

SecondMakeIdle ==
    status = "succeeded" /\ EndsWithAll =>
        \A p \in Top : \A q \in {p} \cup AllDeps[p] :
            \A s \in StepsOf(q) : UpToDate(s, q)

(***************************************************************************)
(* "make <pkg>-rebuild all": when it succeeds, the image has the source    *)
(* the developer had when typing it, or a later one.                       *)
(***************************************************************************)
RebuildReachesImage ==
    status = "succeeded" /\ EndsWithAll =>
        \A i \in DOMAIN cmd :
            (cmd[i][1] \in {"rebuild", "reconfigure"}
             /\ "target" \in Installs[cmd[i][2]])
            => image[cmd[i][2]] >= started[cmd[i][2]]

(***************************************************************************)
(* The image of a successful make never lacks an enabled package, nor has  *)
(* a half-installed one.                                                   *)
(***************************************************************************)
ImageComplete ==
    status = "succeeded" /\ EndsWithAll =>
        \A p \in Top : "target" \in Installs[p] =>
            image[p] # 0 /\ image[p] = inst[p]["target"]

(***************************************************************************)
(* "Once a package has been built, it is never rebuilt unless explicitly   *)
(* told to do so": the sources are prepared, configured and compiled only  *)
(* when the stamp of that very step is missing, never because something it *)
(* depends on was redone.  (Without dirclean: its interruption may leave   *)
(* the stamp of a step without those of the steps before it.)              *)
(***************************************************************************)
Kept == {"extracted", "patched", "configured", "built"}

NeverRedone ==
    [][\A p \in Pkg, s \in Kept :
          Due(s, p) /\ <<s, p>> \in done' => s \notin stamp[p]]_vars
=============================================================================

-------------------------- MODULE PkgBuild_proofs ---------------------------
(***************************************************************************)
(* Proofs about PkgBuild, for any packages, dependencies, installation     *)
(* steps and command lines, and any number of failures and interruptions:  *)
(* the variables keep their types, up-to-date stamps tell the truth, a     *)
(* package is configured only after everything it depends on is installed, *)
(* and the image of a successful make is complete.  For command lines that *)
(* clean first: a second make is idle, nothing is redone because of what   *)
(* it depends on, and what is rebuilt reaches the image.  Then about       *)
(* ApplyPatches, which the recipe of one of the steps runs.                *)
(***************************************************************************)
EXTENDS PkgBuild, TLAPS, SequenceTheorems, FiniteSetTheorems

(***************************************************************************)
(* The prerequisites of a target are targets.                              *)
(***************************************************************************)
LEMMA PrereqsAreTargets == \A t \in Target : Prereqs(t) \subseteq Target
<1> SUFFICES ASSUME NEW t \in Target
             PROVE  Prereqs(t) \subseteq Target
    OBVIOUS
<1>1. CASE t \in {"target-finalize", "rootfs", "all"} \X {World}
    BY <1>1, SubsetAssumption DEF Prereqs, Target, Step, InstallStep
<1>2. CASE t \in (Step \cup Cleaning \cup {"pkg", "patch"}) \X Pkg
    <2> PICK s \in Step \cup Cleaning \cup {"pkg", "patch"}, p \in Pkg :
            t = <<s, p>>
        BY <1>2
    <2>1. CASE s \in Step
        <3>1. Normal(s, p) \subseteq Step
            BY <2>1 DEF Normal, Step, InstallStep
        <3>2. OrderOnly(s, p) \subseteq Target
            BY <2>1, DepsAssumption, SubsetAssumption
            DEF OrderOnly, Target, Step, InstallStep
        <3>3. Prereqs(t) = (Normal(s, p) \X {p}) \cup OrderOnly(s, p)
            BY <2>1 DEF Prereqs, Step, InstallStep
        <3> QED BY <3>1, <3>2, <3>3 DEF Target
    <2>2. CASE s \in Cleaning \cup {"pkg", "patch"}
        BY <2>2, InstallsAssumption
        DEF Prereqs, Target, Step, InstallStep, Cleaning
    <2> QED BY <2>1, <2>2
<1> QED BY <1>1, <1>2 DEF Target

(***************************************************************************)
(* A goal stands for a sequence of targets.                                *)
(***************************************************************************)
LEMMA ExpandGivesTargets ==
    \A g \in Goal : \A i \in DOMAIN Expand(g) : Expand(g)[i] \in Target
<1> SUFFICES ASSUME NEW g \in Goal, NEW i \in DOMAIN Expand(g)
             PROVE  Expand(g)[i] \in Target
    OBVIOUS
<1>1. CASE g \in {"reinstall", "rebuild", "reconfigure"} \X Pkg
    <2> PICK name \in {"clean-for-reinstall", "clean-for-rebuild",
                       "clean-for-reconfigure"}, p \in Pkg :
            Expand(g) = <<<<name, p>>, <<"pkg", p>>>>
        BY <1>1 DEF Expand
    <2>1. i \in {1, 2}
        OBVIOUS
    <2>2. <<name, p>> \in Target /\ <<"pkg", p>> \in Target
        BY DEF Target, Cleaning
    <2> QED BY <2>1, <2>2
<1>2. CASE g \in {<<"all", World>>} \cup ({"dirclean", "pkg"} \X Pkg)
    <2>1. Expand(g) = <<g>> /\ g \in Target
        BY <1>2 DEF Expand, Target, Cleaning
    <2> QED BY <2>1
<1> QED BY <1>1, <1>2 DEF Goal

(***************************************************************************)
(* What make is done with is put aside: the stack gets shorter, and the    *)
(* set of done targets gains one.                                          *)
(***************************************************************************)
LEMMA CloseKeepsTypes ==
    ASSUME TypeOK, Ready, Close
    PROVE  /\ stack' \in Seq(Target) /\ done' \subseteq Target /\ line' \in Nat
           /\ status' \in {"idle", "running", "succeeded", "stopped"}
           /\ cmd' \in Seq(Goal) /\ goals' \in Seq(Goal)
           /\ started' \in [Pkg -> Version]
<1>1. Len(stack) \in Nat \ {0} /\ Current \in Target
    BY DEF TypeOK, Ready, Current
<1>2. SubSeq(stack, 1, Len(stack) - 1) \in Seq(Target)
    BY <1>1, SubSeqProperties DEF TypeOK
<1> QED BY <1>1, <1>2 DEF TypeOK, Close, run

(***************************************************************************)
(* Touching a stamp, and cutting short the recipe of a target.             *)
(***************************************************************************)
LEMMA TouchKeepsTypes ==
    ASSUME TypeOK, Ready, NEW s \in Step, NEW p \in Pkg, Touch(s, p),
           tree' \in [Pkg -> Version], bin' \in [Pkg -> Version],
           inst' \in [Pkg -> [InstallStep -> Version]]
    PROVE  TypeOK'
<1>1. stamp' \in [Pkg -> SUBSET Step]
    BY DEF TypeOK, Touch
<1>2. old' \in [Pkg -> SUBSET Step]
    BY DEF TypeOK, Touch
<1>3. Close /\ UNCHANGED <<src, image>>
    BY DEF Touch
<1> QED BY <1>1, <1>2, <1>3, CloseKeepsTypes DEF TypeOK

DiskTypes ==
    /\ stamp \in [Pkg -> SUBSET Step]
    /\ old \in [Pkg -> SUBSET Step]
    /\ src \in [Pkg -> Version]
    /\ tree \in [Pkg -> Version]
    /\ bin \in [Pkg -> Version]
    /\ inst \in [Pkg -> [InstallStep -> Version]]
    /\ image \in [Pkg -> Version]

LEMMA WipeKeepsTypes ==
    ASSUME DiskTypes, NEW p \in Pkg, NEW rest \in SUBSET stamp[p],
           Wipe(p, rest)
    PROVE  DiskTypes'
BY MaxVersionAssumption DEF DiskTypes, Wipe, Version

LEMMA SpoilKeepsTypes ==
    ASSUME DiskTypes, NEW t \in Target, Spoil(t)
    PROVE  DiskTypes'
<1>0. 0 \in Version
    BY MaxVersionAssumption DEF Version
<1>1. CASE t[1] \in {"extracted", "rsynced", "patched"}
    BY <1>0, <1>1 DEF Spoil, DiskTypes, InstallStep
<1>2. CASE t[1] = "built"
    BY <1>0, <1>2 DEF Spoil, DiskTypes, InstallStep
<1>3. CASE t[1] \in InstallStep
    <2>1. UNCHANGED <<stamp, old, src, tree, bin, image>>
        BY <1>3 DEF Spoil, InstallStep
    <2>2. inst' = [inst EXCEPT ![t[2]][t[1]] = 0]
        BY <1>3 DEF Spoil, InstallStep
    <2> QED BY <1>0, <1>3, <2>1, <2>2 DEF DiskTypes
<1>4. CASE t[1] = "dirclean"
    <2>1. t[2] \in Pkg
        BY <1>4 DEF Target
    <2>2. \E rest \in SUBSET stamp[t[2]] : Wipe(t[2], rest)
        BY <1>4 DEF Spoil, InstallStep
    <2> QED BY <2>1, <2>2, WipeKeepsTypes
<1>5. CASE t[1] = "rootfs"
    BY <1>0, <1>5 DEF Spoil, DiskTypes, InstallStep
<1>6. CASE t[1] \notin {"extracted", "rsynced", "patched", "built",
                       "dirclean", "rootfs"} \cup InstallStep
    BY <1>6 DEF Spoil, DiskTypes, disk
<1> QED BY <1>1, <1>2, <1>3, <1>4, <1>5, <1>6

LEMMA StopKeepsTypes ==
    ASSUME TypeOK, Stop
    PROVE  TypeOK'
<1>1. DiskTypes'
    <2>1. CASE UNCHANGED <<disk, src>>
        BY <2>1 DEF TypeOK, DiskTypes, disk
    <2>2. CASE Ready /\ Spoil(Current)
        <3>1. Current \in Target
            BY <2>2 DEF Ready, Current, TypeOK
        <3> QED BY <2>2, <3>1, SpoilKeepsTypes DEF TypeOK, DiskTypes
    <2> QED BY <2>1, <2>2 DEF Stop
<1>2. 0 \in Version
    BY MaxVersionAssumption DEF Version
<1>3. /\ status' = "stopped" /\ cmd' = <<>> /\ goals' = <<>>
      /\ started' = [p \in Pkg |-> 0]
      /\ stack' = <<>> /\ done' = {} /\ line' = 0
    BY DEF Stop
<1> QED BY <1>1, <1>2, <1>3 DEF TypeOK, DiskTypes

LEMMA RecipeKeepsTypes ==
    ASSUME TypeOK, NEW p \in Pkg, PkgStep(p)
    PROVE  TypeOK'
<1>1. CASE Download(p)
    BY <1>1, TouchKeepsTypes DEF Download, Due, Step, TypeOK
<1>2. CASE Extract(p)
    <2>1. tree' \in [Pkg -> Version]
        BY <1>2, MaxVersionAssumption DEF Extract, TypeOK, Version
    <2> QED BY <1>2, <2>1, TouchKeepsTypes DEF Extract, Due, Step, TypeOK
<1>3. CASE Rsync(p)
    <2>1. tree' \in [Pkg -> Version]
        BY <1>3 DEF Rsync, TypeOK
    <2> QED BY <1>3, <2>1, TouchKeepsTypes DEF Rsync, Due, Step, TypeOK
<1>4. ASSUME NEW s \in Step, Prepare(s, p)
      PROVE  TypeOK'
    BY <1>4, TouchKeepsTypes DEF Prepare, Due, TypeOK
<1>5. ASSUME NEW s \in Step, Install(s, p)
      PROVE  TypeOK'
    <2>1. inst' \in [Pkg -> [InstallStep -> Version]]
        BY <1>5 DEF Install, TypeOK
    <2> QED BY <1>5, <2>1, TouchKeepsTypes DEF Install, Due, TypeOK
<1>6. CASE Build(p)
    <2>1. bin' \in [Pkg -> Version]
        BY <1>6 DEF Build, TypeOK
    <2> QED BY <1>6, <2>1, TouchKeepsTypes DEF Build, Due, Step, TypeOK
<1>7. CASE Dirclean(p)
    <2>1. DiskTypes'
        BY <1>7, WipeKeepsTypes DEF Dirclean, TypeOK, DiskTypes
    <2> QED BY <1>7, <2>1, CloseKeepsTypes DEF Dirclean, TypeOK, DiskTypes
<1> QED BY <1>1, <1>2, <1>3, <1>4, <1>5, <1>6, <1>7 DEF PkgStep

LEMMA MakeKeepsTypes ==
    ASSUME TypeOK, Make
    PROVE  TypeOK'
<1>1. CASE NextGoal
    <2>1. Head(goals) \in Goal /\ Tail(goals) \in Seq(Goal)
        BY <1>1 DEF NextGoal, TypeOK
    <2>2. goals' \in Seq(Goal)
        BY <1>1, <2>1 DEF NextGoal, TypeOK
    <2>3. stack' \in Seq(Target)
        <3>1. CASE stack' = stack
            BY <3>1 DEF TypeOK
        <3>2. CASE \E i \in DOMAIN Expand(Head(goals)) :
                       stack' = <<Expand(Head(goals))[i]>>
            BY <2>1, <3>2, ExpandGivesTargets
        <3> QED BY <1>1, <3>1, <3>2 DEF NextGoal
    <2> QED BY <1>1, <2>2, <2>3 DEF NextGoal, TypeOK, disk
<1>2. CASE Finish
    BY <1>2 DEF Finish, TypeOK, disk, run
<1>3. CASE Descend
    <2>1. Prereqs(Current) \subseteq Target
        <3>1. Current \in Target
            BY <1>3 DEF Descend, Current, TypeOK
        <3> QED BY <3>1, PrereqsAreTargets
    <2>2. stack' \in Seq(Target)
        BY <1>3, <2>1 DEF Descend, TypeOK
    <2> QED BY <1>3, <2>2 DEF Descend, TypeOK, disk, run
<1>4. CASE Skip
    BY <1>4, CloseKeepsTypes DEF Skip, TypeOK, disk
<1>5. CASE Remove
    <2> DEFINE p == Current[2]
               rms == Removes(Current)
    <2>1. stamp' \in [Pkg -> SUBSET Step] /\ old' \in [Pkg -> SUBSET Step]
        <3>1. CASE line < Len(rms)
            <4>1. PICK q, r : /\ stamp' = [stamp EXCEPT ![q] = @ \ {r}]
                              /\ old' = [old EXCEPT ![q] = @ \ {r}]
                BY <1>5, <3>1 DEF Remove
            <4> QED BY <4>1 DEF TypeOK
        <3>2. CASE UNCHANGED <<stamp, old>>
            BY <3>2 DEF TypeOK
        <3> QED BY <1>5, <3>1, <3>2 DEF Remove
    <2>2. CASE Close
        BY <1>5, <2>1, <2>2, CloseKeepsTypes DEF Remove, TypeOK
    <2>3. CASE line' = line + 1 /\ UNCHANGED <<status, run, stack, done>>
        BY <1>5, <2>1, <2>3 DEF Remove, TypeOK, run
    <2> QED BY <1>5, <2>2, <2>3 DEF Remove
<1>6. CASE Rootfs
    <2>1. image' \in [Pkg -> Version]
        BY <1>6 DEF Rootfs, TypeOK, InstallStep
    <2> QED BY <1>6, <2>1, CloseKeepsTypes DEF Rootfs, TypeOK
<1>7. CASE Fail
    BY <1>7, StopKeepsTypes DEF Fail
<1> QED BY <1>1, <1>2, <1>3, <1>4, <1>5, <1>6, <1>7, RecipeKeepsTypes DEF Make

(***************************************************************************)
(* Every variable keeps its type: make only ever turns to targets that     *)
(* exist, whatever it is asked for, and versions stay versions.            *)
(***************************************************************************)
THEOREM Typing == Spec => []TypeOK
<1>1. Init => TypeOK
    BY MaxVersionAssumption DEF Init, TypeOK, Version, InstallStep
<1>2. TypeOK /\ [Next]_vars => TypeOK'
    <2> SUFFICES ASSUME TypeOK, [Next]_vars
                 PROVE  TypeOK'
        OBVIOUS
    <2>1. CASE Make
        BY <2>1, MakeKeepsTypes
    <2>2. CASE Stop
        BY <2>2, StopKeepsTypes
    <2>3. ASSUME NEW c \in Command, Invoke(c)
          PROVE  TypeOK'
        <3>1. c \in Seq(Goal)
            BY CommandAssumption
        <3>2. started' \in [Pkg -> Version]
            BY <2>3 DEF Invoke, TypeOK
        <3> QED BY <2>3, <3>1, <3>2 DEF Invoke, TypeOK, disk
    <2>4. ASSUME NEW p \in Pkg, Edit(p)
          PROVE  TypeOK'
        <3>1. src' \in [Pkg -> Version] /\ tree' \in [Pkg -> Version]
            <4>1. CASE p \in Override
                <5>1. src[p] \in Version /\ src[p] < MaxVersion
                    BY <2>4, <4>1 DEF Edit, TypeOK
                <5>2. src[p] + 1 \in Version
                    BY <5>1, MaxVersionAssumption DEF Version
                <5> QED BY <2>4, <4>1, <5>2 DEF Edit, TypeOK
            <4>2. CASE p \notin Override
                <5>1. tree[p] \in 1..(MaxVersion - 1)
                    BY <2>4, <4>2 DEF Edit
                <5>2. tree[p] + 1 \in Version
                    BY <5>1, MaxVersionAssumption DEF Version
                <5> QED BY <2>4, <4>2, <5>2 DEF Edit, TypeOK
            <4> QED BY <4>1, <4>2
        <3> QED BY <2>4, <3>1 DEF Edit, TypeOK, run
    <2>5. CASE UNCHANGED vars
        BY <2>5 DEF vars, disk, run, TypeOK
    <2> QED BY <2>1, <2>2, <2>3, <2>4, <2>5 DEF Next
<1> QED BY <1>1, <1>2, PTL DEF Spec

-----------------------------------------------------------------------------
(***************************************************************************)
(* No rule is circular.  The dependencies of packages are acyclic, the     *)
(* tools all downloads wait for depend on each other only, and the steps   *)
(* of one package have an order: every prerequisite of a target comes      *)
(* before it, so none is ever on the stack while make looks at it, and     *)
(* make drops none.                                                        *)
(***************************************************************************)
Rank == CHOOSE rank \in [Pkg -> 1..Cardinality(Pkg)] :
            \A p \in Pkg : \A d \in Deps[p] \cup PatchDeps[p] : rank[d] < rank[p]

\* The tools that downloading needs, the other packages, the image
Group(t) == IF t[2] = World THEN 2 ELSE IF t[2] \in HostPrereq THEN 0 ELSE 1

RankOf(t) == IF t[2] = World THEN 0 ELSE Rank[t[2]]

Place(s) ==
    CASE s \in {"downloaded", "dirclean", "clean-for-reinstall"}          -> 1
      [] s \in {"extracted", "rsynced", "clean-for-rebuild"}              -> 2
      [] s \in {"patched", "clean-for-reconfigure"}                       -> 3
      [] s = "patch"                                                      -> 4
      [] s = "configured"                                                 -> 5
      [] s = "built"                                                      -> 6
      [] s \in {"staging", "images", "host"}                              -> 7
      [] s \in {"target", "target-finalize"}                              -> 8
      [] s \in {"pkg", "rootfs"}                                          -> 9
      [] OTHER                                                            -> 10

Before(t, u) ==
    \/ Group(t) < Group(u)
    \/ Group(t) = Group(u) /\ RankOf(t) < RankOf(u)
    \/ Group(t) = Group(u) /\ RankOf(t) = RankOf(u) /\ Place(t[1]) < Place(u[1])

LEMMA RankFacts ==
    /\ \A p \in Pkg : Rank[p] \in Nat
    /\ \A p \in Pkg : \A d \in Deps[p] \cup PatchDeps[p] : Rank[d] < Rank[p]
<1>1. Cardinality(Pkg) \in Nat
    BY PkgAssumption, FS_CardinalityType
<1>2. /\ Rank \in [Pkg -> 1..Cardinality(Pkg)]
      /\ \A p \in Pkg : \A d \in Deps[p] \cup PatchDeps[p] : Rank[d] < Rank[p]
    BY AcyclicAssumption DEF Rank
<1> QED BY <1>1, <1>2

LEMMA BeforeOrders ==
    ASSUME NEW t \in Target, NEW u \in Target
    PROVE  /\ Before(t, u) => ~Before(u, t) /\ t # u
           /\ \A v \in Target : Before(t, u) /\ Before(u, v) => Before(t, v)
<1>1. ASSUME NEW v \in Target
      PROVE  Group(v) \in Int /\ RankOf(v) \in Int /\ Place(v[1]) \in Int
    <2>1. v[2] \in Pkg \cup {World}
        BY DEF Target
    <2> QED BY <2>1, RankFacts DEF Group, RankOf, Place
<1> DEFINE g(v) == Group(v)
           r(v) == RankOf(v)
           l(v) == Place(v[1])
<1>2. \A v \in Target : g(v) \in Int /\ r(v) \in Int /\ l(v) \in Int
    BY <1>1
<1>3. \A v, w : Before(v, w) <=> \/ g(v) < g(w)
                                 \/ g(v) = g(w) /\ r(v) < r(w)
                                 \/ g(v) = g(w) /\ r(v) = r(w) /\ l(v) < l(w)
    BY DEF Before
<1> HIDE DEF g, r, l
<1> QED BY <1>2, <1>3

LEMMA PrereqsComeBefore ==
    ASSUME NEW t \in Target, NEW u \in Prereqs(t)
    PROVE  Before(u, t)
<1>1. CASE t \in {"target-finalize", "rootfs", "all"} \X {World}
    <2>1. t[2] = World /\ t[1] \in {"target-finalize", "rootfs", "all"}
        BY <1>1
    <2>2. CASE t[1] = "target-finalize"
        <3>1. u \in {"pkg"} \X Top
            BY <2>2 DEF Prereqs, Step, InstallStep
        <3>2. u[2] # World
            BY <3>1, SubsetAssumption, WorldAssumption
        <3> QED BY <2>1, <3>2 DEF Before, Group
    <2>3. CASE t[1] = "rootfs"
        <3>1. u = <<"target-finalize", World>>
            BY <2>3 DEF Prereqs, Step, InstallStep
        <3> QED BY <2>1, <2>3, <3>1 DEF Before, Group, RankOf, Place
    <2>4. CASE t[1] = "all"
        <3>1. u = <<"rootfs", World>>
            BY <2>4 DEF Prereqs, Step, InstallStep
        <3> QED BY <2>1, <2>4, <3>1 DEF Before, Group, RankOf, Place
    <2> QED BY <2>1, <2>2, <2>3, <2>4
<1>2. CASE t \in (Step \cup Cleaning \cup {"pkg", "patch"}) \X Pkg
    <2> PICK s \in Step \cup Cleaning \cup {"pkg", "patch"}, p \in Pkg : t = <<s, p>>
        BY <1>2
    <2>1. p # World /\ Rank[p] \in Nat
        BY WorldAssumption, RankFacts
    <2>2. ASSUME NEW r, u = <<r, p>>, Place(r) < Place(s)
          PROVE  Before(u, t)
        BY <2>1, <2>2 DEF Before, Group, RankOf
    <2>3. ASSUME NEW r, NEW d \in Deps[p] \cup PatchDeps[p], u = <<r, d>>
          PROVE  Before(u, t)
        <3>1. d \in Pkg /\ d # World /\ Rank[d] < Rank[p] /\ Rank[d] \in Nat
            BY DepsAssumption, WorldAssumption, RankFacts
        <3>2. p \in HostPrereq => d \in HostPrereq
            BY HostPrereqAssumption
        <3> QED BY <2>1, <2>3, <3>1, <3>2 DEF Before, Group, RankOf
    <2>4. CASE s \in Step
        <3>1. Prereqs(<<s, p>>) = (Normal(s, p) \X {p}) \cup OrderOnly(s, p)
            BY <2>4 DEF Prereqs, Step, InstallStep
        <3>2. CASE u \in Normal(s, p) \X {p}
            <4>1. u = <<u[1], p>> /\ u[1] \in Normal(s, p)
                BY <3>2
            <4>2. \A r \in Normal(s, p) : Place(r) < Place(s)
                BY <2>4 DEF Normal, Place, Step, InstallStep
            <4> QED BY <2>2, <4>1, <4>2
        <3>3. CASE u \in OrderOnly(s, p)
            <4>1. CASE s \in {"downloaded", "rsynced"}
                <5>1. p \notin HostPrereq /\ u[2] \in HostPrereq /\ u[2] # World
                    BY <3>3, <4>1, SubsetAssumption, WorldAssumption DEF OrderOnly
                <5> QED BY <2>1, <5>1 DEF Before, Group
            <4>2. CASE s = "patched"
                BY <2>3, <3>3, <4>2 DEF OrderOnly
            <4>3. CASE s = "configured"
                <5>1. u \in {"pkg"} \X Deps[p] \/ u = <<"rsynced", p>>
                    BY <3>3, <4>3 DEF OrderOnly
                <5>2. Place("rsynced") < Place("configured")
                    BY DEF Place
                <5> QED BY <2>2, <2>3, <4>3, <5>1, <5>2
            <4> QED BY <3>3, <4>1, <4>2, <4>3 DEF OrderOnly
        <3> QED BY <3>1, <3>2, <3>3
    <2>5. CASE s = "pkg"
        <3>1. u \in Installs[p] \X {p} /\ Installs[p] \subseteq InstallStep
            BY <2>5, InstallsAssumption DEF Prereqs, Step, InstallStep
        <3>2. u = <<u[1], p>> /\ Place(u[1]) < Place(s)
            BY <2>5, <3>1 DEF Place, InstallStep
        <3> QED BY <2>2, <3>2
    <2>6. CASE s = "patch"
        <3>1. u \in {<<"rsynced", p>>, <<"patched", p>>}
            BY <2>6 DEF Prereqs, Step, InstallStep
        <3>2. Place("rsynced") < Place("patch") /\ Place("patched") < Place("patch")
            BY DEF Place
        <3> QED BY <2>2, <2>6, <3>1, <3>2
    <2>7. CASE s \in Cleaning
        <3>1. \/ s = "clean-for-rebuild" /\ u = <<"clean-for-reinstall", p>>
              \/ s = "clean-for-reconfigure" /\ u = <<"clean-for-rebuild", p>>
            BY <2>7 DEF Prereqs, Step, InstallStep, Cleaning
        <3>2. /\ Place("clean-for-reinstall") < Place("clean-for-rebuild")
              /\ Place("clean-for-rebuild") < Place("clean-for-reconfigure")
            BY DEF Place
        <3> QED BY <2>2, <3>1, <3>2
    <2> QED BY <2>4, <2>5, <2>6, <2>7
<1> QED BY <1>1, <1>2 DEF Target

\* Each target on the stack comes before those below it.
StackFalls == \A i, j \in DOMAIN stack : i < j => Before(stack[j], stack[i])

\* make finds no circular dependency.
NothingDropped == stack # <<>> => Prereqs(Current) \cap OnStack = {}

LEMMA FallingDropsNothing ==
    ASSUME TypeOK, StackFalls
    PROVE  NothingDropped
<1> SUFFICES ASSUME stack # <<>>, NEW u \in Prereqs(Current), u \in OnStack
             PROVE  FALSE
    BY DEF NothingDropped
<1>1. Len(stack) \in Nat \ {0} /\ DOMAIN stack = 1..Len(stack) /\ \A i \in DOMAIN stack : stack[i] \in Target
    BY DEF TypeOK
<1>2. PICK i \in DOMAIN stack : stack[i] = u
    BY DEF OnStack
<1>3. Current \in Target /\ u \in Target
    BY <1>1, <1>2 DEF Current
<1>4. Before(u, Current)
    BY <1>3, PrereqsComeBefore
<1>5. i = Len(stack) \/ i < Len(stack)
    BY <1>1
<1>6. u = Current \/ Before(Current, u)
    BY <1>1, <1>2, <1>5 DEF StackFalls, Current
<1> QED BY <1>3, <1>4, <1>6, BeforeOrders

LEMMA DescendFalls ==
    ASSUME TypeOK, StackFalls, Descend
    PROVE  StackFalls'
<1>1. Len(stack) \in Nat \ {0} /\ DOMAIN stack = 1..Len(stack) /\ \A i \in DOMAIN stack : stack[i] \in Target
    BY DEF TypeOK, Descend
<1>2. PICK t \in Prereqs(Current) : stack' = Append(stack, t)
    BY DEF Descend
<1>3. /\ DOMAIN stack' = 1..(Len(stack) + 1)
      /\ \A i \in 1..Len(stack) : stack'[i] = stack[i]
      /\ stack'[Len(stack) + 1] = t
    BY <1>1, <1>2 DEF TypeOK
<1>4. Current \in Target /\ t \in Target /\ Before(t, Current)
    BY <1>1, PrereqsAreTargets, PrereqsComeBefore DEF Current
<1>5. ASSUME NEW i \in 1..Len(stack)
      PROVE  Before(t, stack[i])
    <2>1. i = Len(stack) \/ i < Len(stack)
        <3>1. Len(stack) \in Nat
            BY <1>1
        <3> QED BY ONLY <3>1, i \in 1..Len(stack)
    <2>2. i \in DOMAIN stack /\ Len(stack) \in DOMAIN stack /\ stack[i] \in Target
        BY <1>1
    <2>3. i < Len(stack) => Before(Current, stack[i])
        BY <2>2 DEF StackFalls, Current
    <2> QED BY <1>4, <2>1, <2>2, <2>3, BeforeOrders DEF Current
<1>6. ASSUME NEW i \in DOMAIN stack', NEW j \in DOMAIN stack', i < j
      PROVE  Before(stack'[j], stack'[i])
    <2>1. i \in 1..Len(stack) /\ (j \in 1..Len(stack) \/ j = Len(stack) + 1)
        BY <1>1, <1>3, <1>6
    <2> QED BY <1>1, <1>3, <1>5, <1>6, <2>1 DEF StackFalls
<1> QED BY <1>6 DEF StackFalls, Before, Group, RankOf

LEMMA NextFalls ==
    ASSUME TypeOK, StackFalls, [Next]_vars
    PROVE  StackFalls'
<1>1. CASE UNCHANGED stack
    BY <1>1 DEF StackFalls, Before, Group, RankOf
<1>2. CASE stack' = <<>>
    BY <1>2 DEF StackFalls
<1>3. CASE Ready /\ Close
    <2>1. Len(stack) \in Nat \ {0} /\ DOMAIN stack = 1..Len(stack)
        BY <1>3 DEF TypeOK, Ready
    <2>2. /\ DOMAIN stack' = 1..(Len(stack) - 1)
          /\ \A i \in 1..(Len(stack) - 1) : stack'[i] = stack[i] /\ i \in DOMAIN stack
        BY <1>3, <2>1 DEF Close, TypeOK
    <2> QED BY <2>2 DEF StackFalls, Before, Group, RankOf
<1>4. CASE NextGoal
    <2>1. stack' = stack \/ \E t : stack' = <<t>>
        BY <1>4 DEF NextGoal
    <2>2. ASSUME NEW t, stack' = <<t>>
          PROVE  StackFalls'
        <3>1. \A i, j \in DOMAIN stack' : ~(i < j)
            BY <2>2
        <3> QED BY <3>1 DEF StackFalls
    <2> QED BY <1>1, <2>1, <2>2
<1>5. CASE Skip \/ Rootfs
    BY <1>3, <1>5 DEF Skip, Rootfs
<1>6. CASE Remove
    BY <1>1, <1>3, <1>6 DEF Remove
<1>7. CASE \E p \in Pkg : PkgStep(p)
    BY <1>3, <1>7 DEF PkgStep, Download, Extract, Rsync, Prepare, Build, Install, Dirclean, Touch, Due
<1>8. CASE Stop \/ Fail \/ \E c \in Command : Invoke(c)
    BY <1>2, <1>8 DEF Stop, Fail, Invoke
<1>9. CASE Finish \/ UNCHANGED vars \/ \E p \in Pkg : Edit(p)
    BY <1>1, <1>9 DEF Finish, vars, Edit
<1> QED BY <1>4, <1>5, <1>6, <1>7, <1>8, <1>9, DescendFalls DEF Next, Make

(***************************************************************************)
(* However dependencies, patch dependencies, the tools all downloads wait  *)
(* for and the steps of a package are combined, make never turns from a    *)
(* target to one it is updating already: it drops no dependency, and the   *)
(* order between packages is kept (package/pkg-generic.mk:603-640).        *)
(***************************************************************************)
THEOREM NoneIsCircular == Spec => []NothingDropped
<1>1. Init => StackFalls
    BY DEF Init, StackFalls
<1>2. TypeOK /\ StackFalls /\ [Next]_vars => StackFalls'
    BY NextFalls
<1>3. TypeOK /\ StackFalls => NothingDropped
    BY FallingDropsNothing
<1> QED BY <1>1, <1>2, <1>3, Typing, PTL DEF Spec

LEMMA ReadyFacts ==
    ASSUME NothingDropped, Ready
    PROVE  Prereqs(Current) \subseteq done
BY DEF NothingDropped, Ready

-----------------------------------------------------------------------------
(***************************************************************************)
(* Stamps are honest: a recipe touches its stamp last, cleaning removes    *)
(* stamps, and what is cut short was not up to date in the first place.    *)
(***************************************************************************)
LEMMA TouchIsHonest ==
    ASSUME TypeOK, StampsHonest, NEW s \in Step, NEW p \in Pkg, Touch(s, p),
           \/ s \notin InstallStep /\ inst' = inst
           \/ s \in InstallStep /\ bin[p] # 0
                 /\ inst' = [inst EXCEPT ![p][s] = bin[p]]
    PROVE  StampsHonest'
<1> SUFFICES ASSUME NEW q \in Pkg, NEW r \in InstallStep, UpToDate(r, q)'
             PROVE  inst'[q][r] # 0
    BY DEF StampsHonest
<1>1. CASE q = p /\ r = s
    BY <1>1 DEF TypeOK
<1>2. CASE ~(q = p /\ r = s)
    <2>1. UpToDate(r, q)
        BY <1>2 DEF UpToDate, Touch, TypeOK
    <2>2. inst'[q][r] = inst[q][r]
        BY <1>2 DEF TypeOK
    <2> QED BY <2>1, <2>2 DEF StampsHonest
<1> QED BY <1>1, <1>2

LEMMA WipeIsHonest ==
    ASSUME TypeOK, StampsHonest, NEW p \in Pkg, NEW rest \in SUBSET stamp[p],
           Wipe(p, rest)
    PROVE  StampsHonest'
BY DEF TypeOK, StampsHonest, UpToDate, Wipe

LEMMA StopIsHonest ==
    ASSUME TypeOK, StampsHonest, Stop
    PROVE  StampsHonest'
<1>1. CASE UNCHANGED <<disk, src>>
    BY <1>1 DEF disk, StampsHonest, UpToDate
<1>2. CASE /\ Ready
           /\ Current[1] \in Step => ~UpToDate(Current[1], Current[2])
           /\ Spoil(Current)
    <2>0. Current \in Target
        BY <1>2 DEF Ready, Current, TypeOK
    <2>1. CASE Current[1] \in InstallStep
        <3> DEFINE s == Current[1]
                   p == Current[2]
        <3>1. UNCHANGED <<stamp, old>> /\ inst' = [inst EXCEPT ![p][s] = 0]
            BY <1>2, <2>1 DEF Spoil, InstallStep
        <3>2. ~UpToDate(s, p)
            BY <1>2, <2>1 DEF Step
        <3> HIDE DEF s, p
        <3> QED BY <3>1, <3>2 DEF StampsHonest, UpToDate, TypeOK
    <2>2. CASE Current[1] = "dirclean"
        <3>1. Current[2] \in Pkg
            BY <2>0, <2>2 DEF Target
        <3>2. \E rest \in SUBSET stamp[Current[2]] : Wipe(Current[2], rest)
            BY <1>2, <2>2 DEF Spoil, InstallStep
        <3> QED BY <3>1, <3>2, WipeIsHonest
    <2>3. CASE Current[1] \notin InstallStep \cup {"dirclean"}
        <3>1. UNCHANGED <<stamp, old, inst>>
            BY <1>2, <2>3 DEF Spoil, disk
        <3> QED BY <3>1 DEF StampsHonest, UpToDate
    <2> QED BY <2>1, <2>2, <2>3
<1> QED BY <1>1, <1>2 DEF Stop

LEMMA RecipeIsHonest ==
    ASSUME TypeOK, StampsHonest, NEW p \in Pkg, PkgStep(p)
    PROVE  StampsHonest'
<1>1. CASE Download(p)
    BY <1>1, TouchIsHonest DEF Download, Step, InstallStep
<1>2. CASE Extract(p)
    BY <1>2, TouchIsHonest DEF Extract, Step, InstallStep
<1>3. CASE Rsync(p)
    BY <1>3, TouchIsHonest DEF Rsync, Step, InstallStep
<1>4. ASSUME NEW s \in Step, Prepare(s, p)
      PROVE  StampsHonest'
    BY <1>4, TouchIsHonest DEF Prepare, InstallStep
<1>5. ASSUME NEW s \in Step, Install(s, p)
      PROVE  StampsHonest'
    BY <1>5, TouchIsHonest DEF Install
<1>6. CASE Build(p)
    BY <1>6, TouchIsHonest DEF Build, Step, InstallStep
<1>7. CASE Dirclean(p)
    BY <1>7, WipeIsHonest DEF Dirclean
<1> QED BY <1>1, <1>2, <1>3, <1>4, <1>5, <1>6, <1>7 DEF PkgStep

LEMMA RemoveIsHonest ==
    ASSUME TypeOK, StampsHonest, Remove
    PROVE  StampsHonest'
<1>1. CASE UNCHANGED <<stamp, old>>
    BY <1>1 DEF Remove, StampsHonest, UpToDate
<1>2. CASE line < Len(Removes(Current))
    <2>1. PICK q, r : /\ stamp' = [stamp EXCEPT ![q] = @ \ {r}]
                      /\ old' = [old EXCEPT ![q] = @ \ {r}]
        BY <1>2 DEF Remove
    <2>2. inst' = inst
        BY DEF Remove
    <2> QED BY <2>1, <2>2 DEF StampsHonest, UpToDate, TypeOK
<1> QED BY <1>1, <1>2 DEF Remove

LEMMA NextIsHonest ==
    ASSUME TypeOK, StampsHonest, [Next]_vars
    PROVE  StampsHonest'
<1>1. CASE UNCHANGED <<stamp, old, inst>>
    BY <1>1 DEF StampsHonest, UpToDate
<1>2. CASE NextGoal \/ Finish \/ Descend \/ Skip
    BY <1>1, <1>2 DEF NextGoal, Finish, Descend, Skip, disk
<1>3. CASE Rootfs
    BY <1>1, <1>3 DEF Rootfs
<1>4. CASE UNCHANGED vars \/ \E p \in Pkg : Edit(p)
    BY <1>1, <1>4 DEF vars, disk, Edit
<1>5. CASE \E c \in Command : Invoke(c)
    BY <1>1, <1>5 DEF Invoke, disk
<1>6. CASE Stop \/ Fail
    BY <1>6, StopIsHonest DEF Fail
<1>7. CASE Remove \/ \E p \in Pkg : PkgStep(p)
    BY <1>7, RemoveIsHonest, RecipeIsHonest
<1> QED BY <1>2, <1>3, <1>4, <1>5, <1>6, <1>7 DEF Next, Make

(***************************************************************************)
(* What the stamp of an installation step vouches for is there and whole,  *)
(* after any history of failures, interruptions, cleanings and edits.      *)
(***************************************************************************)
THEOREM Honesty == Spec => []StampsHonest
<1>1. Init => StampsHonest
    BY DEF Init, StampsHonest, UpToDate
<1>2. TypeOK /\ StampsHonest /\ [Next]_vars => StampsHonest'
    BY NextIsHonest
<1> QED BY <1>1, <1>2, Typing, PTL DEF Spec

-----------------------------------------------------------------------------
(***************************************************************************)
(* Dependencies come first.  What make is done with has its prerequisites  *)
(* done, and make is done with an installation step only when it is        *)
(* installed, be it just now or, since stamps are honest, earlier.         *)
(***************************************************************************)
LEMMA CloseIsInOrder ==
    ASSUME StampsHonest, DoneInOrder, NothingDropped, Ready, Close,
           \A p \in Pkg : \A s \in InstallStep :
               inst'[p][s] = inst[p][s] \/ inst'[p][s] # 0,
           \A p \in Pkg : \A s \in InstallStep :
               Current = <<s, p>> => inst'[p][s] # 0
    PROVE  DoneInOrder'
<1>1. done' = done \cup {Current} /\ Prereqs(Current) \subseteq done
    BY ReadyFacts DEF Close
<1>2. ASSUME NEW t \in done'
      PROVE  Prereqs(t) \subseteq done'
    BY <1>1, <1>2 DEF DoneInOrder
<1>3. ASSUME NEW p \in Pkg, NEW s \in InstallStep, <<s, p>> \in done'
      PROVE  inst'[p][s] # 0
    BY <1>1, <1>3 DEF DoneInOrder
<1>4. \A t : Prereqs(t)' = Prereqs(t)
    BY DEF Prereqs, Normal, OrderOnly
<1> QED BY <1>2, <1>3, <1>4 DEF DoneInOrder

LEMMA NothingDoneIsInOrder == done' = {} => DoneInOrder'
BY DEF DoneInOrder

LEMMA RecipeIsInOrder ==
    ASSUME TypeOK, StampsHonest, DoneInOrder, NothingDropped, NEW p \in Pkg, PkgStep(p)
    PROVE  DoneInOrder'
<1>1. ASSUME NEW s \in Step \ InstallStep, Due(s, p), Close, inst' = inst
      PROVE  DoneInOrder'
    <2>1. Ready /\ Current = <<s, p>>
        BY <1>1 DEF Due
    <2> QED BY <1>1, <2>1, CloseIsInOrder
<1>2. ASSUME NEW s \in Step, Install(s, p)
      PROVE  DoneInOrder'
    <2>1. /\ Ready /\ Current = <<s, p>> /\ Close
          /\ s \in InstallStep /\ bin[p] # 0
          /\ inst' = [inst EXCEPT ![p][s] = bin[p]]
        BY <1>2 DEF Install, Due, Touch
    <2>2. \A q \in Pkg : \A r \in InstallStep :
              inst'[q][r] = inst[q][r] \/ inst'[q][r] # 0
        BY <2>1 DEF TypeOK
    <2>3. inst'[p][s] # 0
        BY <2>1 DEF TypeOK
    <2> QED BY <2>1, <2>2, <2>3, CloseIsInOrder
<1>3. CASE Download(p)
    BY <1>1, <1>3 DEF Download, Touch, Step, InstallStep
<1>4. CASE Extract(p)
    BY <1>1, <1>4 DEF Extract, Touch, Step, InstallStep
<1>5. CASE Rsync(p)
    BY <1>1, <1>5 DEF Rsync, Touch, Step, InstallStep
<1>6. ASSUME NEW s \in Step, Prepare(s, p)
      PROVE  DoneInOrder'
    BY <1>1, <1>6 DEF Prepare, Touch, InstallStep
<1>7. CASE Build(p)
    BY <1>1, <1>7 DEF Build, Touch, Step, InstallStep
<1>8. CASE Dirclean(p)
    <2>1. Ready /\ Current = <<"dirclean", p>> /\ Close /\ inst' = inst
        BY <1>8 DEF Dirclean, Wipe
    <2> QED BY <2>1, CloseIsInOrder DEF InstallStep
<1> QED BY <1>2, <1>3, <1>4, <1>5, <1>6, <1>7, <1>8 DEF PkgStep

LEMMA NextIsInOrder ==
    ASSUME TypeOK, StampsHonest, DoneInOrder, NothingDropped, [Next]_vars
    PROVE  DoneInOrder'
<1>1. CASE UNCHANGED <<done, inst>>
    BY <1>1 DEF DoneInOrder, Prereqs, Normal, OrderOnly
<1>2. CASE NextGoal \/ Descend \/ UNCHANGED vars \/ \E p \in Pkg : Edit(p)
    BY <1>1, <1>2 DEF NextGoal, Descend, vars, disk, Edit
<1>3. CASE Finish \/ Stop \/ Fail \/ \E c \in Command : Invoke(c)
    BY <1>3, NothingDoneIsInOrder DEF Finish, Stop, Fail, Invoke
<1>4. CASE Skip
    <2>1. Ready /\ Close /\ inst' = inst
        BY <1>4 DEF Skip, disk
    <2>2. ASSUME NEW p \in Pkg, NEW s \in InstallStep, Current = <<s, p>>
          PROVE  inst'[p][s] # 0
        BY <1>4, <2>1, <2>2 DEF Skip, Step, StampsHonest
    <2> QED BY <2>1, <2>2, CloseIsInOrder
<1>5. CASE Remove
    <2>1. Ready /\ Current[1] \in Cleaning \ {"dirclean"} /\ inst' = inst
        BY <1>5 DEF Remove
    <2>2. CASE Close
        BY <2>1, <2>2, CloseIsInOrder DEF Cleaning, InstallStep
    <2> QED BY <1>1, <1>5, <2>1, <2>2 DEF Remove
<1>6. CASE Rootfs
    BY <1>6, CloseIsInOrder DEF Rootfs, InstallStep
<1> QED BY <1>2, <1>3, <1>4, <1>5, <1>6, RecipeIsInOrder DEF Next, Make

(***************************************************************************)
(* The packages that are done as a whole have all their dependencies among *)
(* them, so they have all packages they depend on at any distance.         *)
(***************************************************************************)
LEMMA OrderGivesDeps ==
    ASSUME DoneInOrder
    PROVE  DepsBeforeConfigure
<1> DEFINE S == {q \in Pkg : <<"pkg", q>> \in done}
<1>1. ASSUME NEW q \in Pkg, <<"configured", q>> \in done
      PROVE  Deps[q] \subseteq S
    <2>1. {"pkg"} \X Deps[q] \subseteq Prereqs(<<"configured", q>>)
        BY DEF Prereqs, OrderOnly, Step
    <2> QED BY <1>1, <2>1, DepsAssumption DEF DoneInOrder
<1>2. ASSUME NEW q \in S, NEW s \in Installs[q]
      PROVE  <<s, q>> \in done
    <2>1. Prereqs(<<"pkg", q>>) = Installs[q] \X {q}
        BY DEF Prereqs, Step, InstallStep
    <2> QED BY <1>2, <2>1 DEF DoneInOrder
<1>3. ASSUME NEW q \in S
      PROVE  <<"configured", q>> \in done
    <2>1. PICK s \in Installs[q] : s \in InstallStep
        <3>1. q \in Pkg
            OBVIOUS
        <3>2. Installs[q] # {} /\ Installs[q] \subseteq InstallStep
            BY <3>1, InstallsAssumption
        <3> QED BY <3>2
    <2>2. <<"built", q>> \in Prereqs(<<s, q>>)
        <3>1. "built" \in Normal(s, q)
            BY <2>1 DEF Normal, InstallStep
        <3>2. Prereqs(<<s, q>>) = (Normal(s, q) \X {q}) \cup OrderOnly(s, q)
            BY <2>1 DEF Prereqs, Step, InstallStep
        <3> QED BY <3>1, <3>2
    <2>3. <<"configured", q>> \in Prereqs(<<"built", q>>)
        BY DEF Prereqs, Normal, Step, InstallStep
    <2>4. <<s, q>> \in done
        BY <1>2, <2>1
    <2> QED BY <2>2, <2>3, <2>4 DEF DoneInOrder
<1>4. \A q \in S : Deps[q] \subseteq S
    BY <1>1, <1>3
<1>5. \A q \in S : Whole(q)
    BY <1>2, InstallsAssumption DEF DoneInOrder, Whole
<1>6. ASSUME NEW p \in Pkg, <<"configured", p>> \in done, NEW d \in AllDeps[p]
      PROVE  d \in S
    <2>1. Deps[p] \subseteq S
        BY <1>1, <1>6
    <2>2. S \in SUBSET Pkg
        OBVIOUS
    <2> HIDE DEF S
    <2> QED BY <1>4, <1>6, <2>1, <2>2 DEF AllDeps
<1> HIDE DEF S
<1> QED BY <1>5, <1>6 DEF DepsBeforeConfigure

(***************************************************************************)
(* No package is configured before all it depends on is installed.         *)
(***************************************************************************)
THEOREM Ordering == Spec => []DepsBeforeConfigure
<1>1. Init => DoneInOrder
    BY DEF Init, DoneInOrder
<1>2. TypeOK /\ StampsHonest /\ DoneInOrder /\ NothingDropped /\ [Next]_vars => DoneInOrder'
    BY NextIsInOrder
<1>3. DoneInOrder => DepsBeforeConfigure
    BY OrderGivesDeps
<1> QED BY <1>1, <1>2, <1>3, Typing, Honesty, NoneIsCircular, PTL DEF Spec
-----------------------------------------------------------------------------
(***************************************************************************)
(* The image is complete.  make turns to no target a second time, so what  *)
(* was installed when the image was generated stays as it is until make    *)
(* ends; and when it ends, the last goal is done.                          *)
(***************************************************************************)
NotTwice ==
    /\ \A i \in DOMAIN stack : stack[i] \notin done
    /\ \A i, j \in DOMAIN stack : stack[i] = stack[j] => i = j

LastGoalDone ==
    Running /\ cmd # <<>> =>
        IF goals = <<>> THEN \A i \in DOMAIN Expand(cmd[Len(cmd)]) : Expand(cmd[Len(cmd)])[i] \in done
        ELSE goals[Len(goals)] = cmd[Len(cmd)]

ImageIsInstalled ==
    <<"rootfs", World>> \in done =>
        \A p \in Top : "target" \in Installs[p] => image[p] = inst[p]["target"]

LEMMA CloseIsNotTwice ==
    ASSUME TypeOK, NotTwice, Ready, Close
    PROVE  NotTwice'
<1>1. Len(stack) \in Nat \ {0} /\ DOMAIN stack = 1..Len(stack)
    BY DEF TypeOK, Ready
<1>2. /\ DOMAIN stack' = 1..(Len(stack) - 1)
      /\ \A i \in 1..(Len(stack) - 1) : stack'[i] = stack[i]
    BY <1>1 DEF Close, TypeOK
<1>3. \A i \in 1..(Len(stack) - 1) : stack[i] # Current
    BY <1>1 DEF NotTwice, Current
<1>4. done' = done \cup {Current}
    BY DEF Close
<1>5. \A i \in 1..(Len(stack) - 1) : i \in DOMAIN stack
    BY <1>1
<1> QED BY <1>2, <1>3, <1>4, <1>5 DEF NotTwice

LEMMA NextIsNotTwice ==
    ASSUME TypeOK, NotTwice, [Next]_vars
    PROVE  NotTwice'
<1>1. CASE UNCHANGED <<stack, done>>
    BY <1>1 DEF NotTwice
<1>2. CASE UNCHANGED vars \/ \E p \in Pkg : Edit(p)
    BY <1>1, <1>2 DEF vars, Edit
<1>3. CASE stack' = <<>>
    BY <1>3 DEF NotTwice
<1>4. CASE Finish \/ Stop \/ Fail \/ \E c \in Command : Invoke(c)
    BY <1>3, <1>4 DEF Finish, Stop, Fail, Invoke
<1>5. CASE NextGoal
    BY <1>5 DEF NextGoal, NotTwice
<1>6. CASE Descend
    <2>1. PICK t \in Prereqs(Current) \ (done \cup OnStack) : stack' = Append(stack, t)
        BY <1>6 DEF Descend
    <2>2. /\ DOMAIN stack' = 1..(Len(stack) + 1) /\ Len(stack) \in Nat
          /\ \A i \in 1..Len(stack) : stack'[i] = stack[i]
          /\ stack'[Len(stack) + 1] = t /\ DOMAIN stack = 1..Len(stack)
        BY <2>1 DEF TypeOK
    <2>3. done' = done /\ t \notin done /\ \A i \in DOMAIN stack : stack[i] # t
        BY <1>6, <2>1 DEF Descend, OnStack
    <2>4. \A i \in 1..(Len(stack) + 1) : i \in 1..Len(stack) \/ i = Len(stack) + 1
        BY <2>2
    <2> QED BY <2>2, <2>3, <2>4 DEF NotTwice
<1>7. CASE Ready /\ Close
    BY <1>7, CloseIsNotTwice
<1>8. CASE Skip \/ Rootfs
    BY <1>7, <1>8 DEF Skip, Rootfs
<1>9. CASE Remove
    BY <1>1, <1>7, <1>9 DEF Remove
<1>10. CASE \E p \in Pkg : PkgStep(p)
    BY <1>7, <1>10 DEF PkgStep, Download, Extract, Rsync, Prepare, Build, Install, Dirclean, Touch, Due
<1> QED BY <1>2, <1>4, <1>5, <1>6, <1>8, <1>9, <1>10 DEF Next, Make

LEMMA NextIsLastGoal ==
    ASSUME TypeOK, LastGoalDone, [Next]_vars
    PROVE  LastGoalDone'
<1>1. CASE UNCHANGED <<status, cmd, goals>> /\ done \subseteq done'
    BY <1>1 DEF LastGoalDone, Running, Expand
<1>2. CASE UNCHANGED vars \/ Descend \/ \E p \in Pkg : Edit(p)
    BY <1>1, <1>2 DEF vars, Edit, Descend, run
<1>3. CASE Close
    BY <1>1, <1>3 DEF Close, run
<1>4. CASE Skip \/ Rootfs \/ \E p \in Pkg : PkgStep(p)
    BY <1>3, <1>4 DEF Skip, Rootfs, PkgStep, Download, Extract, Rsync, Prepare, Build, Install,
                      Dirclean, Touch
<1>5. CASE Remove
    BY <1>1, <1>3, <1>5 DEF Remove, run
<1>6. CASE Finish \/ Stop \/ Fail
    BY <1>6 DEF Finish, Stop, Fail, LastGoalDone, Running
<1>7. ASSUME NEW c \in Command, Invoke(c)
      PROVE  LastGoalDone'
    BY <1>7 DEF Invoke, LastGoalDone
<1>8. CASE NextGoal
    <2>1. CASE UNCHANGED goals
        BY <1>1, <1>8, <2>1 DEF NextGoal
    <2>2. CASE goals' = Tail(goals) /\ \A i \in DOMAIN Expand(Head(goals)) : Expand(Head(goals))[i] \in done
        <3>1. goals # <<>> /\ UNCHANGED <<status, cmd, done>> /\ Running
            BY <1>8 DEF NextGoal
        <3> SUFFICES ASSUME cmd # <<>> PROVE LastGoalDone'
            BY <3>1 DEF LastGoalDone
        <3>2. goals[Len(goals)] = cmd[Len(cmd)]
            BY <3>1 DEF LastGoalDone
        <3>3. Len(goals) \in Nat \ {0} /\ Head(goals) = goals[1]
            BY <3>1 DEF TypeOK
        <3>4. CASE Len(goals) = 1
            <4>1. goals' = <<>> /\ Head(goals) = cmd[Len(cmd)]
                BY <2>2, <3>1, <3>2, <3>3, <3>4 DEF TypeOK
            <4> QED BY <2>2, <3>1, <4>1 DEF LastGoalDone, Expand
        <3>5. CASE Len(goals) > 1
            <4>0. Len(goals') = Len(goals) - 1
                BY <2>2, <3>1, <3>3 DEF TypeOK
            <4>1. Len(goals') = Len(goals) - 1 /\ goals' # <<>>
                BY <3>3, <3>5, <4>0
            <4>2. goals'[Len(goals')] = goals[Len(goals)]
                BY <2>2, <3>1, <3>3, <3>5, <4>1 DEF TypeOK
            <4>3. goals'[Len(goals')] = cmd'[Len(cmd')]
                BY <3>1, <3>2, <4>2
            <4> QED BY <4>1, <4>3 DEF LastGoalDone
        <3>6. Len(goals) = 1 \/ Len(goals) > 1
            BY <3>3
        <3> QED BY <3>4, <3>5, <3>6
    <2> QED BY <1>8, <2>1, <2>2 DEF NextGoal
<1> QED BY <1>2, <1>4, <1>5, <1>6, <1>7, <1>8 DEF Next, Make

\* What is done with the image is done with what is installed in it.
LEMMA RootfsComesLast ==
    ASSUME DoneInOrder, NEW p \in Top, "target" \in Installs[p],
           \/ <<"rootfs", World>> \in done
           \/ Prereqs(<<"rootfs", World>>) \subseteq done
    PROVE  <<"target", p>> \in done
<1>1. Prereqs(<<"rootfs", World>>) = {<<"target-finalize", World>>}
    BY DEF Prereqs, Step, InstallStep
<1>2. Prereqs(<<"target-finalize", World>>) = {"pkg"} \X Top
    BY DEF Prereqs, Step, InstallStep
<1>3. Prereqs(<<"pkg", p>>) = Installs[p] \X {p}
    BY DEF Prereqs, Step, InstallStep
<1>4. <<"target-finalize", World>> \in done
    BY <1>1 DEF DoneInOrder
<1>5. <<"pkg", p>> \in done
    BY <1>2, <1>4 DEF DoneInOrder
<1> QED BY <1>3, <1>5 DEF DoneInOrder

LEMMA NextIsInstalled ==
    ASSUME TypeOK, DoneInOrder, NotTwice, ImageIsInstalled, [Next]_vars
    PROVE  ImageIsInstalled'
<1>1. CASE done' = {}
    BY <1>1 DEF ImageIsInstalled
<1>2. CASE Finish \/ Stop \/ Fail \/ \E c \in Command : Invoke(c)
    BY <1>1, <1>2 DEF Finish, Stop, Fail, Invoke
<1>3. CASE /\ UNCHANGED <<image, inst>>
           /\ done' = done \/ (Close /\ Current # <<"rootfs", World>>)
    BY <1>3 DEF ImageIsInstalled, Close
<1>4. CASE UNCHANGED vars \/ NextGoal \/ Descend \/ \E p \in Pkg : Edit(p)
    BY <1>3, <1>4 DEF vars, disk, NextGoal, Descend, Edit
<1>5. CASE Skip
    BY <1>3, <1>5 DEF Skip, disk, Step, InstallStep
<1>6. CASE Remove
    BY <1>3, <1>6 DEF Remove, Cleaning
<1>7. CASE Rootfs
    BY <1>7, SubsetAssumption DEF Rootfs, ImageIsInstalled
<1>8. ASSUME NEW p \in Pkg, PkgStep(p)
      PROVE  ImageIsInstalled'
    <2>1. CASE \E s \in Step : Install(s, p)
        <3>1. PICK s \in Step : Install(s, p)
            BY <2>1
        <3>2. /\ s \in InstallStep /\ Current = <<s, p>> /\ Close /\ Ready /\ image' = image
              /\ inst' = [inst EXCEPT ![p][s] = bin[p]]
            BY <3>1 DEF Install, Due, Touch
        <3>3. Current \notin done
            <4>1. Len(stack) \in DOMAIN stack
                BY <3>2 DEF Ready, TypeOK
            <4> QED BY <4>1 DEF NotTwice, Current
        <3>4. <<"rootfs", World>> \in done' => <<"rootfs", World>> \in done
            BY <3>2 DEF Close, InstallStep
        <3> SUFFICES ASSUME <<"rootfs", World>> \in done, NEW q \in Top, "target" \in Installs[q]
                     PROVE  image'[q] = inst'[q]["target"]
            BY <3>4 DEF ImageIsInstalled
        <3>5. <<"target", q>> \in done
            BY RootfsComesLast
        <3>6. q # p \/ s # "target"
            BY <3>2, <3>3, <3>5
        <3>7. inst'[q]["target"] = inst[q]["target"]
            BY <3>2, <3>6, SubsetAssumption DEF TypeOK, InstallStep
        <3> QED BY <3>2, <3>7 DEF ImageIsInstalled
    <2>2. CASE Download(p) \/ Extract(p) \/ Rsync(p) \/ Build(p) \/ \E s \in Step : Prepare(s, p)
        <3>1. UNCHANGED <<image, inst>> /\ Close /\ \E s \in Step : Current = <<s, p>>
            BY <2>2 DEF Download, Extract, Rsync, Build, Prepare, Touch, Due, Step
        <3> QED BY <1>3, <3>1 DEF Step, InstallStep
    <2>3. CASE Dirclean(p)
        BY <1>3, <2>3 DEF Dirclean, Wipe
    <2> QED BY <1>8, <2>1, <2>2, <2>3 DEF PkgStep
<1> QED BY <1>2, <1>4, <1>5, <1>6, <1>7, <1>8 DEF Next, Make

LEMMA NextIsComplete ==
    ASSUME TypeOK, DoneInOrder, LastGoalDone, ImageIsInstalled, ImageComplete, [Next]_vars
    PROVE  ImageComplete'
<1>1. CASE status' # "succeeded"
    BY <1>1 DEF ImageComplete
<1>2. CASE Finish
    <2>1. UNCHANGED <<image, inst, cmd>> /\ Running /\ goals = <<>>
        BY <1>2 DEF Finish, disk, run
    <2> SUFFICES ASSUME EndsWithAll, NEW p \in Top, "target" \in Installs[p]
                 PROVE  image[p] # 0 /\ image[p] = inst[p]["target"]
        BY <2>1 DEF ImageComplete, EndsWithAll
    <2>2. Expand(<<"all", World>>) = <<<<"all", World>>>>
        BY DEF Expand
    <2>3. <<"all", World>> \in done
        BY <2>1, <2>2 DEF LastGoalDone, EndsWithAll
    <2>4. Prereqs(<<"all", World>>) = {<<"rootfs", World>>}
        BY DEF Prereqs, Step, InstallStep
    <2>5. <<"rootfs", World>> \in done
        BY <2>3, <2>4 DEF DoneInOrder
    <2>6. inst[p]["target"] # 0
        BY <2>5, RootfsComesLast, SubsetAssumption DEF DoneInOrder, InstallStep
    <2> QED BY <2>5, <2>6 DEF ImageIsInstalled
<1>3. CASE UNCHANGED vars \/ \E p \in Pkg : Edit(p)
    BY <1>3 DEF vars, disk, run, Edit, ImageComplete, EndsWithAll
<1>4. CASE \E c \in Command : Invoke(c)
    BY <1>1, <1>4 DEF Invoke
<1>5. CASE Stop \/ Fail
    BY <1>1, <1>5 DEF Stop, Fail
<1>6. CASE Running /\ status' = status
    BY <1>1, <1>6 DEF Running
<1>7. CASE NextGoal \/ Descend \/ Skip \/ Remove \/ Rootfs
    BY <1>6, <1>7 DEF NextGoal, Descend, Skip, Remove, Rootfs, Close, Ready
<1>8. CASE \E p \in Pkg : PkgStep(p)
    BY <1>6, <1>8 DEF PkgStep, Download, Extract, Rsync, Prepare, Build, Install, Dirclean, Touch,
                      Due, Close, Ready
<1> QED BY <1>2, <1>3, <1>4, <1>5, <1>7, <1>8 DEF Next, Make

(***************************************************************************)
(* The image of a successful make never lacks an enabled package, nor has  *)
(* a half-installed one, for any command lines and any history.            *)
(***************************************************************************)
THEOREM Completeness == Spec => []ImageComplete
<1>1. Init => DoneInOrder /\ NotTwice /\ LastGoalDone /\ ImageIsInstalled /\ ImageComplete
    BY DEF Init, DoneInOrder, NotTwice, LastGoalDone, ImageIsInstalled, ImageComplete, Running
<1>2. TypeOK /\ StampsHonest /\ DoneInOrder /\ NothingDropped /\ [Next]_vars => DoneInOrder'
    BY NextIsInOrder
<1>3. TypeOK /\ NotTwice /\ [Next]_vars => NotTwice'
    BY NextIsNotTwice
<1>4. TypeOK /\ LastGoalDone /\ [Next]_vars => LastGoalDone'
    BY NextIsLastGoal
<1>5. TypeOK /\ DoneInOrder /\ NotTwice /\ ImageIsInstalled /\ [Next]_vars => ImageIsInstalled'
    BY NextIsInstalled
<1>6. TypeOK /\ DoneInOrder /\ LastGoalDone /\ ImageIsInstalled /\ ImageComplete /\ [Next]_vars
      => ImageComplete'
    BY NextIsComplete
<1> QED BY <1>1, <1>2, <1>3, <1>4, <1>5, <1>6, Typing, Honesty, NoneIsCircular, PTL DEF Spec

-----------------------------------------------------------------------------

(***************************************************************************)
(* Command lines that clean first.  A goal takes a package along when make *)
(* may turn to a target of the package for it; "all" takes every package   *)
(* along, for it also puts into the image what is installed.  A command    *)
(* line cleans first when no goal that cleans a package comes after a goal *)
(* that takes the package along: make looks at each target only once, so   *)
(* it would remove the stamps of steps it is done with, and not redo them. *)
(* ("make app-rebuild lib-rebuild all", with app depending on lib, and     *)
(* "make all lib-rebuild" are such lines.)                                 *)
(***************************************************************************)

Uses(p) == Deps[p] \cup PatchDeps[p] \cup (IF p \in HostPrereq THEN {} ELSE HostPrereq)

\* p and all it may take along: the smallest set with p that Uses leads out of
\* to no other package.
Reach(p) ==
    {d \in Pkg : \A S \in SUBSET Pkg : (p \in S /\ \A q \in S : Uses(q) \subseteq S) => d \in S}

Along(g) ==
    CASE g[1] = "all"      -> Pkg
      [] g[1] = "dirclean" -> {g[2]}
      [] OTHER             -> Reach(g[2])

Cleans(g) == g[1] \in {"reinstall", "rebuild", "reconfigure", "dirclean"}

CleansFirst(c) ==
    \A i, j \in DOMAIN c : i < j /\ Cleans(c[j]) => c[j][2] \notin Along(c[i])

NoDirclean(c) == \A i \in DOMAIN c : c[i][1] # "dirclean"

\* What a step of the system does to the stamps and to the walk of make.
LEMMA Steps ==
    ASSUME TypeOK, [Next]_vars
    PROVE  \/ UNCHANGED <<stamp, old, status, run, stack, done, line>>
           \/ UNCHANGED <<stamp, old>> /\ (NextGoal \/ Descend \/ Finish \/ \E c \in Command : Invoke(c))
           \/ Stop
           \/ /\ Ready /\ Close /\ UNCHANGED <<stamp, old>> /\ Current[1] \notin Cleaning
              /\ Current[1] \in Step => UpToDate(Current[1], Current[2])
           \/ \E p \in Pkg, s \in Step : Due(s, p) /\ Touch(s, p)
           \/ Remove
           \/ \E p \in Pkg : Dirclean(p)
<1>1. CASE Skip
    BY <1>1 DEF Skip, disk, Step, InstallStep, Cleaning
<1>2. CASE Rootfs
    BY <1>2 DEF Rootfs, Step, InstallStep, Cleaning
<1>3. CASE \E p \in Pkg : PkgStep(p)
    BY <1>3 DEF PkgStep, Download, Extract, Rsync, Prepare, Build, Install, Step
<1>4. CASE UNCHANGED vars \/ \E p \in Pkg : Edit(p)
    BY <1>4 DEF vars, disk, Edit
<1>5. CASE NextGoal \/ Descend \/ Finish \/ \E c \in Command : Invoke(c)
    BY <1>5 DEF NextGoal, Descend, Finish, Invoke, disk
<1> QED BY <1>1, <1>2, <1>3, <1>4, <1>5 DEF Next, Make, Fail

LEMMA CloseFacts ==
    ASSUME TypeOK, Ready, Close
    PROVE  /\ stack # <<>> /\ Current \in Target /\ Current \in OnStack
           /\ done' = done \cup {Current} /\ UNCHANGED <<status, cmd, started, goals>>
           /\ OnStack' \subseteq OnStack
           /\ stack' # <<>> => stack'[1] = stack[1]
<1>1. Len(stack) \in Nat \ {0} /\ DOMAIN stack = 1..Len(stack)
    BY DEF TypeOK, Ready
<1>2. /\ DOMAIN stack' = 1..(Len(stack) - 1)
      /\ \A i \in 1..(Len(stack) - 1) : stack'[i] = stack[i]
    BY <1>1 DEF Close, TypeOK
<1>3. stack' # <<>> => 1 \in 1..(Len(stack) - 1)
    <2>1. Len(stack) = 1 \/ Len(stack) > 1
        BY <1>1
    <2>2. Len(stack) = 1 => stack' = <<>>
        BY <1>1, SubSeqProperties DEF Close, TypeOK
    <2> QED BY <1>1, <2>1, <2>2
<1>4. Current \in Target /\ Current \in OnStack
    BY <1>1 DEF TypeOK, Current, OnStack
<1>5. \A i \in 1..(Len(stack) - 1) : i \in DOMAIN stack
    BY <1>1
<1> QED BY <1>1, <1>2, <1>3, <1>4, <1>5 DEF Close, run, OnStack, Ready

LEMMA StackTop ==
    ASSUME TypeOK, Ready
    PROVE  stack # <<>> /\ Current \in OnStack /\ Current \in Target /\ (NotTwice => Current \notin done)
<1>1. stack # <<>> /\ Len(stack) \in DOMAIN stack
    BY DEF Ready, TypeOK
<1> QED BY <1>1 DEF Current, OnStack, NotTwice, TypeOK

LEMMA DescendFacts ==
    ASSUME TypeOK, Descend
    PROVE  /\ stack # <<>> /\ Current \in OnStack /\ Current \in Target
           /\ UNCHANGED <<status, cmd, started, goals, done, stamp, old, line>>
           /\ stack'[1] = stack[1]
           /\ \E t \in Prereqs(Current) : OnStack' = OnStack \cup {t}
<1>1. Len(stack) \in Nat \ {0} /\ DOMAIN stack = 1..Len(stack)
    BY DEF TypeOK, Descend
<1>2. PICK t \in Prereqs(Current) \ (done \cup OnStack) : stack' = Append(stack, t)
    BY DEF Descend
<1>3. /\ DOMAIN stack' = 1..(Len(stack) + 1)
      /\ \A i \in 1..Len(stack) : stack'[i] = stack[i]
      /\ stack'[Len(stack) + 1] = t
    BY <1>1, <1>2 DEF TypeOK
<1>4. \A i \in 1..(Len(stack) + 1) : i \in 1..Len(stack) \/ i = Len(stack) + 1
    BY <1>1
<1>5. OnStack' = OnStack \cup {t}
    BY <1>1, <1>3, <1>4 DEF OnStack
<1>6. Current \in Target /\ Current \in OnStack
    BY <1>1 DEF TypeOK, Current, OnStack
<1>7. 1 \in 1..Len(stack)
    BY <1>1
<1> QED BY <1>1, <1>2, <1>3, <1>5, <1>6, <1>7 DEF Descend, run, disk

LEMMA GoalFacts ==
    ASSUME NEW g \in Goal
    PROVE  /\ Cleans(g) => /\ g[2] \in Pkg /\ 1 \in DOMAIN Expand(g)
                           /\ Expand(g)[1][1] \in Cleaning /\ Expand(g)[1][2] = g[2]
                           /\ Expand(g)[1][1] = "dirclean" => g[1] = "dirclean"
           /\ Cleans(g) /\ g[1] # "dirclean" =>
                  DOMAIN Expand(g) = {1, 2} /\ Expand(g)[2] = <<"pkg", g[2]>>
           /\ ~Cleans(g) \/ g[1] = "dirclean" => DOMAIN Expand(g) = {1} /\ Expand(g)[1] = g
           /\ ~Cleans(g) => g[1] \in {"pkg", "all"}
           /\ g[1] = "all" => g = <<"all", World>>
           /\ g[1] # "all" => g[2] \in Pkg
<1>1. CASE g \in {"reinstall", "rebuild", "reconfigure"} \X Pkg
    <2>1. PICK p \in Pkg, c \in Cleaning \ {"dirclean"} : g[2] = p /\ Expand(g) = <<<<c, p>>, <<"pkg", p>>>>
        BY <1>1 DEF Expand, Cleaning
    <2>2. DOMAIN Expand(g) = {1, 2}
        BY <2>1
    <2> QED BY <1>1, <2>1, <2>2 DEF Cleans
<1>2. CASE g \in {<<"all", World>>} \cup ({"dirclean", "pkg"} \X Pkg)
    <2>1. Expand(g) = <<g>>
        BY <1>2 DEF Expand
    <2>2. DOMAIN Expand(g) = {1} /\ Expand(g)[1] = g
        BY <2>1
    <2> QED BY <1>2, <2>2 DEF Cleans, Cleaning
<1> QED BY <1>1, <1>2 DEF Goal

\* What make turns to for a goal stays along with it.
LEMMA UsesArePackages == \A p \in Pkg : Uses(p) \subseteq Pkg
BY DepsAssumption, SubsetAssumption DEF Uses

LEMMA AlongIsClosed ==
    ASSUME NEW g \in Goal, g[1] # "dirclean", NEW q \in Along(g)
    PROVE  q \in Pkg /\ Uses(q) \subseteq Along(g)
<1>1. CASE g[1] = "all"
    BY <1>1, UsesArePackages DEF Along
<1>2. CASE g[1] # "all"
    <2>1. Along(g) = Reach(g[2])
        BY <1>2 DEF Along
    <2>2. q \in Pkg
        BY <2>1 DEF Reach
    <2> SUFFICES ASSUME NEW d \in Uses(q), NEW S \in SUBSET Pkg,
                        g[2] \in S, \A r \in S : Uses(r) \subseteq S
                 PROVE  d \in S
        BY <2>1, <2>2, UsesArePackages DEF Reach
    <2>3. q \in S
        BY <2>1 DEF Reach
    <2> QED BY <2>3
<1> QED BY <1>1, <1>2

LEMMA AlongHasRoot ==
    ASSUME NEW g \in Goal
    PROVE  /\ g[1] # "all" => g[2] \in Along(g)
           /\ Along(g) \subseteq Pkg
BY GoalFacts DEF Along, Reach, Goal

-----------------------------------------------------------------------------

(***************************************************************************)
(* The goals that are left are those of the command line that are not      *)
(* done; and what make is updating, it updates for the first of them:      *)
(* first it cleans, then it builds.                                        *)
(***************************************************************************)

GoalsLeft ==
    /\ \A j \in DOMAIN goals : \E i \in DOMAIN cmd : cmd[i] = goals[j]
    /\ Running => \A i \in DOMAIN cmd :
                \/ \A k \in DOMAIN Expand(cmd[i]) : Expand(cmd[i])[k] \in done
                \/ \E j \in DOMAIN goals : goals[j] = cmd[i]

\* A target that the goal may lead to
Of(g, t) == t[2] \in Along(g) \/ (g[1] = "all" /\ t[2] = World)

Cleanings(g, S) ==
    \A t \in S : t[1] \in Cleaning /\ t[2] = g[2] /\ (t[1] = "dirclean" => g[1] = "dirclean")

StackOfGoal ==
    stack # <<>> =>
        /\ goals # <<>>
        /\ \A t \in OnStack : Of(goals[1], t)
        /\ \/ Cleans(goals[1]) /\ stack[1] = Expand(goals[1])[1] /\ Cleanings(goals[1], OnStack)
           \/ /\ goals[1][1] # "dirclean" /\ \A t \in OnStack : t[1] \notin Cleaning
              /\ Cleans(goals[1]) => Expand(goals[1])[1] \in done

LEMMA PrereqsStayAlong ==
    ASSUME NEW g \in Goal, NEW t \in Target, Of(g, t), NEW u \in Prereqs(t)
    PROVE  /\ t[1] \in Cleaning => u[1] \in Cleaning \ {"dirclean"} /\ u[2] = t[2]
           /\ t[1] \notin Cleaning => u[1] \notin Cleaning
           /\ t[1] \notin Cleaning /\ g[1] # "dirclean" => Of(g, u)
<1>1. CASE t \in {"target-finalize", "rootfs", "all"} \X {World}
    <2>1. g[1] = "all"
        BY <1>1, AlongHasRoot, WorldAssumption DEF Of
    <2>2. Prereqs(t) \subseteq ({"pkg"} \X Top) \cup {<<"target-finalize", World>>, <<"rootfs", World>>}
        BY <1>1 DEF Prereqs, Step, InstallStep
    <2> QED BY <1>1, <2>1, <2>2, SubsetAssumption DEF Of, Along, Cleaning
<1>2. CASE t \in (Step \cup Cleaning \cup {"pkg", "patch"}) \X Pkg
    <2> PICK s \in Step \cup Cleaning \cup {"pkg", "patch"}, p \in Pkg : t = <<s, p>>
        BY <1>2
    <2>0. p \in Along(g)
        BY WorldAssumption DEF Of
    <2>1. CASE s \in Step
        <3>1. Normal(s, p) \cap Cleaning = {}
            BY DEF Normal, Cleaning
        <3>2. \A v \in OrderOnly(s, p) : v[1] \notin Cleaning /\ v[2] \in {p} \cup Uses(p)
            BY DEF OrderOnly, Cleaning, Uses
        <3>3. Prereqs(t) = (Normal(s, p) \X {p}) \cup OrderOnly(s, p)
            BY <2>1 DEF Prereqs, Step, InstallStep
        <3>4. u[1] \notin Cleaning /\ u[2] \in {p} \cup Uses(p)
            BY <3>1, <3>2, <3>3
        <3>5. s \notin Cleaning
            BY <2>1 DEF Step, InstallStep, Cleaning
        <3> QED BY <2>0, <3>4, <3>5, AlongIsClosed DEF Of
    <2>2. CASE s \in Cleaning
        BY <2>2 DEF Prereqs, Step, InstallStep, Cleaning
    <2>3. CASE s \in {"pkg", "patch"}
        <3>1. \A v \in Prereqs(t) : v[1] \in Step /\ v[2] = p
            BY <2>3, InstallsAssumption DEF Prereqs, Step, InstallStep
        <3>2. s \notin Cleaning /\ Step \cap Cleaning = {}
            BY <2>3 DEF Step, InstallStep, Cleaning
        <3> QED BY <2>0, <3>1, <3>2 DEF Of
    <2> QED BY <2>1, <2>2, <2>3
<1> QED BY <1>1, <1>2 DEF Target

LEMMA NextIsGoalsLeft ==
    ASSUME TypeOK, GoalsLeft, [Next]_vars
    PROVE  GoalsLeft'
<1>1. CASE UNCHANGED <<status, cmd, goals>> /\ done \subseteq done'
    BY <1>1 DEF GoalsLeft, Running
<1>2. CASE UNCHANGED <<stamp, old, status, run, stack, done, line>>
    BY <1>1, <1>2 DEF run
<1>3. CASE Ready /\ Close
    BY <1>1, <1>3, CloseFacts
<1>4. CASE (\E p \in Pkg, s \in Step : Due(s, p) /\ Touch(s, p)) \/ \E p \in Pkg : Dirclean(p)
    BY <1>3, <1>4 DEF Due, Touch, Dirclean
<1>5. CASE Remove
    BY <1>1, <1>3, <1>5 DEF Remove, run
<1>6. CASE Descend
    BY <1>1, <1>6, DescendFacts
<1>7. CASE Finish \/ Stop
    BY <1>7 DEF Finish, Stop, GoalsLeft, Running, run
<1>8. CASE \E c \in Command : Invoke(c)
    BY <1>8 DEF Invoke, GoalsLeft
<1>9. CASE NextGoal
    <2>1. CASE UNCHANGED goals
        BY <1>1, <1>9, <2>1 DEF NextGoal
    <2>2. CASE goals' = Tail(goals) /\ \A i \in DOMAIN Expand(Head(goals)) : Expand(Head(goals))[i] \in done
        <3>1. goals # <<>> /\ UNCHANGED <<status, cmd, done>> /\ Running
            BY <1>9 DEF NextGoal
        <3>2. /\ Len(goals) \in Nat \ {0} /\ Head(goals) = goals[1] /\ DOMAIN goals = 1..Len(goals)
              /\ DOMAIN goals' = 1..(Len(goals) - 1)
              /\ \A j \in 1..(Len(goals) - 1) : goals'[j] = goals[j + 1]
            BY <2>2, <3>1 DEF TypeOK
        <3>3. \A j \in DOMAIN goals' : j + 1 \in DOMAIN goals /\ goals'[j] = goals[j + 1]
            BY <3>2
        <3>4. \A j \in DOMAIN goals : j = 1 \/ (j - 1 \in DOMAIN goals' /\ goals'[j - 1] = goals[j])
            BY <3>2
        <3>5. \A j \in DOMAIN goals' : \E i \in DOMAIN cmd' : cmd'[i] = goals'[j]
            BY <3>1, <3>3 DEF GoalsLeft
        <3>6. ASSUME NEW i \in DOMAIN cmd
              PROVE  \/ \A k \in DOMAIN Expand(cmd[i]) : Expand(cmd[i])[k] \in done
                     \/ \E j \in DOMAIN goals' : goals'[j] = cmd[i]
            <4>1. CASE \A k \in DOMAIN Expand(cmd[i]) : Expand(cmd[i])[k] \in done
                BY <4>1
            <4>2. CASE \E j \in DOMAIN goals : goals[j] = cmd[i]
                <5>1. PICK j \in DOMAIN goals : goals[j] = cmd[i]
                    BY <4>2
                <5>2. CASE j = 1
                    BY <2>2, <3>2, <5>1, <5>2
                <5>3. CASE j # 1
                    BY <3>4, <5>1, <5>3
                <5> QED BY <5>2, <5>3
            <4> QED BY <3>1, <4>1, <4>2 DEF GoalsLeft
        <3> QED BY <3>1, <3>5, <3>6 DEF GoalsLeft
    <2> QED BY <1>9, <2>1, <2>2 DEF NextGoal
<1> QED BY <1>2, <1>3, <1>4, <1>5, <1>6, <1>7, <1>8, <1>9, Steps

LEMMA NextIsStackOfGoal ==
    ASSUME TypeOK, NotTwice, StackOfGoal, [Next]_vars
    PROVE  StackOfGoal'
<1>1. CASE UNCHANGED <<goals, stack, done>>
    BY <1>1 DEF StackOfGoal, OnStack
<1>2. CASE UNCHANGED <<stamp, old, status, run, stack, done, line>>
    BY <1>1, <1>2 DEF run
<1>3. CASE Ready /\ Close
    <2> SUFFICES ASSUME stack' # <<>> PROVE StackOfGoal'
        BY DEF StackOfGoal
    <2>1. /\ stack # <<>> /\ goals' = goals /\ done \subseteq done' /\ OnStack' \subseteq OnStack
          /\ stack'[1] = stack[1]
        BY <1>3, CloseFacts
    <2>2. goals # <<>> /\ \A t \in OnStack' : Of(goals[1], t)
        BY <2>1 DEF StackOfGoal
    <2>3. CASE Cleans(goals[1]) /\ stack[1] = Expand(goals[1])[1] /\ Cleanings(goals[1], OnStack)
        BY <2>1, <2>2, <2>3 DEF StackOfGoal, Cleanings
    <2>4. CASE /\ goals[1][1] # "dirclean" /\ \A t \in OnStack : t[1] \notin Cleaning
               /\ Cleans(goals[1]) => Expand(goals[1])[1] \in done
        <3>1. \A t \in OnStack' : t[1] \notin Cleaning
            BY <2>1, <2>4
        <3>2. Cleans(goals'[1]) => Expand(goals'[1])[1] \in done'
            BY <2>1, <2>4
        <3>3. goals'[1][1] # "dirclean" /\ goals' # <<>> /\ \A t \in OnStack' : Of(goals'[1], t)
            BY <2>1, <2>2, <2>4
        <3> QED BY <3>1, <3>2, <3>3 DEF StackOfGoal
    <2> QED BY <2>1, <2>3, <2>4 DEF StackOfGoal
<1>4. CASE (\E p \in Pkg, s \in Step : Due(s, p) /\ Touch(s, p)) \/ \E p \in Pkg : Dirclean(p)
    BY <1>3, <1>4 DEF Due, Touch, Dirclean
<1>5. CASE Remove
    BY <1>1, <1>3, <1>5 DEF Remove, run
<1>6. CASE Descend
    <2>1. /\ stack # <<>> /\ Current \in OnStack /\ Current \in Target
          /\ UNCHANGED <<goals, done>> /\ stack'[1] = stack[1]
        BY <1>6, DescendFacts
    <2>2. PICK u \in Prereqs(Current) : OnStack' = OnStack \cup {u}
        BY <1>6, DescendFacts
    <2>3. goals # <<>> /\ goals[1] \in Goal /\ \A t \in OnStack : Of(goals[1], t)
        BY <2>1 DEF StackOfGoal, TypeOK
    <2>4. /\ Current[1] \in Cleaning => u[1] \in Cleaning \ {"dirclean"} /\ u[2] = Current[2]
          /\ Current[1] \notin Cleaning => u[1] \notin Cleaning
          /\ Current[1] \notin Cleaning /\ goals[1][1] # "dirclean" => Of(goals[1], u)
        BY <2>1, <2>3, PrereqsStayAlong
    <2>5. CASE Cleans(goals[1]) /\ stack[1] = Expand(goals[1])[1] /\ Cleanings(goals[1], OnStack)
        <3>1. u[1] \in Cleaning \ {"dirclean"} /\ u[2] = goals[1][2]
            BY <2>1, <2>4, <2>5 DEF Cleanings
        <3>2. Of(goals[1], u)
            BY <2>3, <2>5, <3>1, AlongHasRoot DEF Of, Cleans
        <3>3. Cleanings(goals[1], OnStack') /\ \A t \in OnStack' : Of(goals[1], t)
            BY <2>2, <2>3, <2>5, <3>1, <3>2 DEF Cleanings
        <3> QED BY <2>1, <2>3, <2>5, <3>3 DEF StackOfGoal
    <2>6. CASE /\ goals[1][1] # "dirclean" /\ \A t \in OnStack : t[1] \notin Cleaning
               /\ Cleans(goals[1]) => Expand(goals[1])[1] \in done
        <3>1. u[1] \notin Cleaning /\ Of(goals[1], u)
            BY <2>1, <2>4, <2>6
        <3>2. \A t \in OnStack' : t[1] \notin Cleaning /\ Of(goals[1], t)
            BY <2>2, <2>3, <2>6, <3>1
        <3> QED BY <2>1, <2>3, <2>6, <3>2 DEF StackOfGoal
    <2> QED BY <2>1, <2>5, <2>6 DEF StackOfGoal
<1>7. CASE Finish \/ Stop \/ \E c \in Command : Invoke(c)
    BY <1>7 DEF Finish, Stop, Invoke, StackOfGoal
<1>8. CASE NextGoal
    <2>1. CASE UNCHANGED stack
        BY <1>8, <2>1 DEF NextGoal, StackOfGoal
    <2>2. CASE stack' # stack
        <3> DEFINE g == goals[1]
                   ts == Expand(g)
        <3>1. goals # <<>> /\ g \in Goal /\ g = Head(goals) /\ done' = done
            BY <1>8 DEF NextGoal, TypeOK
        <3>2. PICK i \in DOMAIN ts : /\ goals' = goals /\ ts[i] \notin done /\ stack' = <<ts[i]>>
                                     /\ \A j \in DOMAIN ts : ts[j] \notin done => i <= j
            BY <1>8, <2>2, <3>1 DEF NextGoal
        <3>3. OnStack' = {ts[i]} /\ stack'[1] = ts[i]
            BY <3>2 DEF OnStack
        <3>4. CASE Cleans(g) /\ i = 1
            <4>1. /\ ts[1][1] \in Cleaning /\ ts[1][2] = g[2] /\ g[2] \in Along(g)
                  /\ ts[1][1] = "dirclean" => g[1] = "dirclean"
                BY <3>1, <3>4, GoalFacts, AlongHasRoot DEF Cleans
            <4>2. Of(g, ts[i]) /\ Cleanings(g, {ts[i]})
                BY <3>4, <4>1 DEF Of, Cleanings
            <4> QED BY <3>1, <3>2, <3>3, <3>4, <4>2 DEF StackOfGoal
        <3>5. CASE Cleans(g) /\ i # 1
            <4>0. /\ g[1] = "dirclean" => DOMAIN ts = {1}
                  /\ g[1] # "dirclean" => DOMAIN ts = {1, 2} /\ ts[2] = <<"pkg", g[2]>>
                BY <3>1, <3>5, GoalFacts
            <4>1. g[1] # "dirclean" /\ i = 2 /\ ts[i] = <<"pkg", g[2]>>
                BY <3>2, <3>5, <4>0
            <4>2. 1 \in DOMAIN ts
                BY <3>1, <3>5, GoalFacts
            <4>3. ts[1] \in done
                BY <3>2, <4>1, <4>2
            <4>4. Of(g, ts[i]) /\ ts[i][1] \notin Cleaning
                BY <3>1, <3>5, <4>1, AlongHasRoot DEF Of, Cleaning, Cleans
            <4> QED BY <3>1, <3>2, <3>3, <3>5, <4>1, <4>3, <4>4 DEF StackOfGoal
        <3>6. CASE ~Cleans(g)
            <4>1. ts[i] = g /\ g[1] \in {"pkg", "all"} /\ (g[1] = "all" => g[2] = World)
                BY <3>1, <3>6, GoalFacts
            <4>2. Of(g, ts[i]) /\ ts[i][1] \notin Cleaning
                BY <3>1, <4>1, AlongHasRoot DEF Of, Cleaning
            <4> QED BY <3>1, <3>2, <3>3, <3>6, <4>1, <4>2 DEF StackOfGoal
        <3> QED BY <3>4, <3>5, <3>6
    <2> QED BY <1>8, <2>1, <2>2 DEF NextGoal
<1> QED BY <1>2, <1>3, <1>4, <1>5, <1>6, <1>7, <1>8, Steps

-----------------------------------------------------------------------------

(***************************************************************************)
(* What a goal cleans, make has not yet touched otherwise.                 *)
(***************************************************************************)

\* make has yet to clean what the goal cleans, and has done nothing else of it.
Untouched(g) == \A t \in done : t[2] = g[2] => t[1] \in Cleaning

CleaningAhead ==
    CleansFirst(cmd) =>
        /\ CleansFirst(goals)
        /\ \A j \in DOMAIN goals : Cleans(goals[j]) /\ (j > 1 \/ Expand(goals[1])[1] \notin done) =>
             Untouched(goals[j])

\* The goals after the first of a line that cleans first clean first, too.
LEMMA TailCleansFirst ==
    ASSUME NEW c \in Seq(Goal), c # <<>>
    PROVE  /\ DOMAIN Tail(c) = 1..(Len(c) - 1) /\ DOMAIN c = 1..Len(c) /\ Len(c) \in Nat \ {0}
           /\ \A j \in DOMAIN Tail(c) : j + 1 \in DOMAIN c /\ Tail(c)[j] = c[j + 1]
           /\ CleansFirst(c) => CleansFirst(Tail(c))
<1>1. Len(c) \in Nat \ {0} /\ DOMAIN c = 1..Len(c)
    OBVIOUS
<1>2. DOMAIN Tail(c) = 1..(Len(c) - 1) /\ \A j \in 1..(Len(c) - 1) : Tail(c)[j] = c[j + 1]
    BY <1>1
<1>3. \A j \in DOMAIN Tail(c) : j + 1 \in DOMAIN c /\ Tail(c)[j] = c[j + 1] /\ j \in Nat
    BY <1>1, <1>2
<1>4. ASSUME CleansFirst(c), NEW i \in DOMAIN Tail(c), NEW j \in DOMAIN Tail(c), i < j, Cleans(Tail(c)[j])
      PROVE  Tail(c)[j][2] \notin Along(Tail(c)[i])
    <2>1. i + 1 < j + 1 /\ i + 1 \in DOMAIN c /\ j + 1 \in DOMAIN c
        BY <1>3, <1>4
    <2>2. Cleans(c[j + 1]) /\ c[j + 1] = Tail(c)[j] /\ c[i + 1] = Tail(c)[i]
        BY <1>3, <1>4
    <2> QED BY <1>4, <2>1, <2>2 DEF CleansFirst
<1> QED BY <1>1, <1>2, <1>3, <1>4 DEF CleansFirst

LEMMA NextIsCleaningAhead ==
    ASSUME TypeOK, NotTwice, StackOfGoal, CleaningAhead, [Next]_vars
    PROVE  CleaningAhead'
<1>1. CASE UNCHANGED <<cmd, goals>> /\ done' = done
    BY <1>1 DEF CleaningAhead, Untouched
<1>2. CASE UNCHANGED <<cmd, goals>> /\ done' = {}
    BY <1>2 DEF CleaningAhead, Untouched
<1>3. CASE UNCHANGED <<stamp, old, status, run, stack, done, line>>
    BY <1>1, <1>3 DEF run
<1>4. CASE Descend \/ Finish
    BY <1>1, <1>2, <1>4, DescendFacts DEF Finish, run
<1>5. CASE Ready /\ Close
    <2> SUFFICES ASSUME CleansFirst(cmd), NEW j \in DOMAIN goals, Cleans(goals[j]),
                        j > 1 \/ Expand(goals[1])[1] \notin done'
                 PROVE  Untouched(goals[j])'
        BY <1>5, CloseFacts DEF CleaningAhead
    <2>1. /\ stack # <<>> /\ Current \in OnStack /\ Current \in Target
          /\ done' = done \cup {Current} /\ goals' = goals
        BY <1>5, CloseFacts
    <2>2. Untouched(goals[j])
        BY <2>1 DEF CleaningAhead
    <2>3. goals # <<>> /\ Of(goals[1], Current)
        BY <2>1 DEF StackOfGoal
    <2>4. goals[j] \in Goal /\ goals[1] \in Goal /\ 1 \in DOMAIN goals /\ (j = 1 \/ j > 1)
        BY <2>3 DEF TypeOK
    <2>5. goals[j][2] \in Pkg
        BY <2>4, GoalFacts
    <2>6. CASE j > 1
        <3>1. goals[j][2] \notin Along(goals[1])
            BY <2>4, <2>6 DEF CleaningAhead, CleansFirst
        <3>2. Current[2] # goals[j][2]
            BY <2>3, <2>5, <3>1, WorldAssumption DEF Of
        <3> QED BY <2>1, <2>2, <3>2 DEF Untouched
    <2>7. CASE j = 1
        <3>1. Expand(goals[1])[1] \notin done
            BY <2>1, <2>4, <2>7
        <3>2. Cleanings(goals[1], OnStack)
            BY <2>1, <2>7, <3>1 DEF StackOfGoal
        <3> QED BY <2>1, <2>2, <3>2 DEF Cleanings, Untouched
    <2> QED BY <2>4, <2>6, <2>7
<1>6. CASE (\E p \in Pkg, s \in Step : Due(s, p) /\ Touch(s, p)) \/ \E p \in Pkg : Dirclean(p)
    BY <1>5, <1>6 DEF Due, Touch, Dirclean
<1>7. CASE Remove
    BY <1>1, <1>5, <1>7 DEF Remove, run
<1>8. CASE Stop
    BY <1>8 DEF Stop, CleaningAhead, CleansFirst, Untouched
<1>9. ASSUME NEW c \in Command, Invoke(c)
      PROVE  CleaningAhead'
    BY <1>9 DEF Invoke, CleaningAhead, Untouched
<1>10. CASE NextGoal
    <2>1. CASE UNCHANGED goals
        BY <1>1, <1>10, <2>1 DEF NextGoal
    <2>2. CASE goals' = Tail(goals)
        <3>1. goals # <<>> /\ goals \in Seq(Goal) /\ UNCHANGED <<cmd, done>>
            BY <1>10 DEF NextGoal, TypeOK
        <3>2. /\ \A j \in DOMAIN goals' : j + 1 \in DOMAIN goals /\ goals'[j] = goals[j + 1]
              /\ CleansFirst(goals) => CleansFirst(goals')
              /\ DOMAIN goals' = 1..(Len(goals) - 1) /\ Len(goals) \in Nat
            BY <2>2, <3>1, TailCleansFirst
        <3> SUFFICES ASSUME CleansFirst(cmd), NEW j \in DOMAIN goals', Cleans(goals'[j])
                     PROVE  Untouched(goals[j])'
            BY <3>1, <3>2 DEF CleaningAhead
        <3>3. j + 1 > 1 /\ j + 1 \in DOMAIN goals /\ goals'[j] = goals[j + 1]
            BY <3>2
        <3>4. Untouched(goals[j + 1])
            BY <3>3 DEF CleaningAhead
        <3> QED BY <3>1, <3>3, <3>4 DEF Untouched
    <2> QED BY <1>10, <2>1, <2>2 DEF NextGoal
<1> QED BY <1>3, <1>4, <1>5, <1>6, <1>7, <1>8, <1>9, <1>10, Steps

(***************************************************************************)
(* While make cleans a package, it is done with none of its steps.         *)
(***************************************************************************)
LEMMA CleansBeforeSteps ==
    ASSUME TypeOK, NotTwice, StackOfGoal, CleaningAhead, CleansFirst(cmd), Ready, Current[1] \in Cleaning
    PROVE  /\ goals # <<>> /\ Cleans(goals[1]) /\ Current[2] = goals[1][2] /\ Current[2] \in Pkg
           /\ Current[1] = "dirclean" => goals[1][1] = "dirclean"
           /\ \A s \in Step : <<s, Current[2]>> \notin done
<1>1. stack # <<>> /\ Len(stack) \in Nat \ {0} /\ DOMAIN stack = 1..Len(stack)
    BY DEF Ready, TypeOK
<1>2. Current \in OnStack /\ stack[1] \notin done
    <2>1. Len(stack) \in DOMAIN stack /\ 1 \in DOMAIN stack
        BY <1>1
    <2> QED BY <2>1 DEF Current, OnStack, NotTwice
<1>3. goals # <<>> /\ Cleans(goals[1]) /\ stack[1] = Expand(goals[1])[1] /\ Cleanings(goals[1], OnStack)
    BY <1>1, <1>2 DEF StackOfGoal
<1>4. 1 \in DOMAIN goals /\ goals[1] \in Goal
    BY <1>3 DEF TypeOK
<1>5. Untouched(goals[1])
    BY <1>2, <1>3, <1>4 DEF CleaningAhead
<1>6. /\ Current[2] = goals[1][2] /\ goals[1][2] \in Pkg
      /\ Current[1] = "dirclean" => goals[1][1] = "dirclean"
    BY <1>2, <1>3, <1>4, GoalFacts DEF Cleanings
<1>7. Step \cap Cleaning = {}
    BY DEF Step, InstallStep, Cleaning
<1> QED BY <1>3, <1>5, <1>6, <1>7 DEF Untouched

-----------------------------------------------------------------------------

(***************************************************************************)
(* What a cleaning removes is missing until make is done with it once      *)
(* more.                                                                   *)
(***************************************************************************)

\* The lines done of a recipe that cleans have removed their stamps.
LineRemoved ==
    line > 0 =>
        /\ Ready /\ Current[1] \in Cleaning \ {"dirclean"}
        /\ \A k \in 1..line : k \in DOMAIN Removes(Current) /\ Removes(Current)[k] \notin stamp[Current[2]]

\* What a cleaning has removed is missing until make is done with it.
Removed(c, p) == {Removes(<<c, p>>)[k] : k \in DOMAIN Removes(<<c, p>>)}

CleanedIsMissing ==
    \A p \in Pkg, c \in Cleaning \ {"dirclean"} : <<c, p>> \in done =>
        \A s \in Removed(c, p) \cap stamp[p] : <<s, p>> \in done

LEMMA StopStamps ==
    ASSUME TypeOK, Stop
    PROVE  \/ UNCHANGED <<stamp, old>>
           \/ /\ Ready /\ Current[1] = "dirclean" /\ Current[2] \in Pkg
              /\ \E rest \in SUBSET stamp[Current[2]] : Wipe(Current[2], rest)
<1>1. CASE UNCHANGED <<disk, src>>
    BY <1>1 DEF disk
<1>2. CASE Ready /\ Spoil(Current)
    <2>1. Current \in Target
        BY <1>2 DEF Ready, Current, TypeOK
    <2>2. CASE Current[1] = "dirclean"
        <3>1. Current[2] \in Pkg
            BY <2>1, <2>2 DEF Target
        <3>2. \E rest \in SUBSET stamp[Current[2]] : Wipe(Current[2], rest)
            BY <1>2, <2>2 DEF Spoil, InstallStep
        <3> QED BY <1>2, <2>2, <3>1, <3>2
    <2>3. CASE Current[1] # "dirclean"
        BY <1>2, <2>3 DEF Spoil, disk
    <2> QED BY <2>2, <2>3
<1> QED BY <1>1, <1>2 DEF Stop

LEMMA CleaningIsOfPackage ==
    ASSUME NEW t \in Target, t[1] \in Cleaning
    PROVE  t[2] \in Pkg /\ t = <<t[1], t[2]>>
BY DEF Target, Cleaning

LEMMA RemovesFacts ==
    ASSUME NEW p \in Pkg, NEW c \in Cleaning \ {"dirclean"}
    PROVE  /\ Len(Removes(<<c, p>>)) \in Nat \ {0} /\ DOMAIN Removes(<<c, p>>) = 1..Len(Removes(<<c, p>>))
           /\ c = "clean-for-reinstall" =>
                Removed(c, p) = InstallStep \cup (IF p \in Override THEN {"rsynced"} ELSE {})
           /\ c = "clean-for-rebuild" => Removed(c, p) = {"built"}
           /\ c = "clean-for-reconfigure" => Removed(c, p) = {"configured"}
<1>1. CASE c = "clean-for-reinstall" /\ p \in Override
    <2> DEFINE r == <<"rsynced">>
               t == <<"staging", "target", "images", "host">>
               S == {"rsynced", "staging", "target", "images", "host"}
    <2>1. Removes(<<c, p>>) = r \o t
        BY <1>1 DEF Removes
    <2>2. r \in Seq(S) /\ t \in Seq(S) /\ Len(r) = 1 /\ Len(t) = 4
        OBVIOUS
    <2>3. Len(r \o t) = 5 /\ DOMAIN (r \o t) = 1..5
        BY <2>2
    <2>4. /\ (r \o t)[1] = "rsynced" /\ (r \o t)[2] = "staging" /\ (r \o t)[3] = "target"
          /\ (r \o t)[4] = "images" /\ (r \o t)[5] = "host"
        BY <2>2
    <2> HIDE DEF r, t
    <2>5. DOMAIN Removes(<<c, p>>) = {1, 2, 3, 4, 5}
        <3>1. 1..5 = {1, 2, 3, 4, 5}
            OBVIOUS
        <3> QED BY <2>1, <2>3, <3>1
    <2>6. Removed(c, p) = S
        BY <2>1, <2>4, <2>5 DEF Removed
    <2> QED BY <1>1, <2>1, <2>3, <2>6 DEF InstallStep
<1>2. CASE c = "clean-for-reinstall" /\ p \notin Override
    <2>1. Removes(<<c, p>>) = <<"staging", "target", "images", "host">>
        <3>1. <<>> \o <<"staging", "target", "images", "host">> = <<"staging", "target", "images", "host">>
            OBVIOUS
        <3> QED BY <1>2, <3>1 DEF Removes
    <2>2. Len(Removes(<<c, p>>)) \in Nat \ {0} /\ DOMAIN Removes(<<c, p>>) = 1..Len(Removes(<<c, p>>))
        <3>1. PICK r : r = Removes(<<c, p>>)
            OBVIOUS
        <3>2. Len(r) = 4 /\ DOMAIN r = 1..4
            BY ONLY <2>1, <3>1
        <3> QED BY ONLY <3>1, <3>2
    <2>3. DOMAIN Removes(<<c, p>>) = {1, 2, 3, 4}
        BY <2>1
    <2>4. Removed(c, p) = {"staging", "target", "images", "host"}
        BY <2>1, <2>3 DEF Removed
    <2> QED BY <1>2, <2>2, <2>4 DEF InstallStep
<1>3. CASE c = "clean-for-rebuild"
    <2>1. Removes(<<c, p>>) = <<"built">>
        BY <1>3 DEF Removes
    <2>2. Len(Removes(<<c, p>>)) \in Nat \ {0} /\ DOMAIN Removes(<<c, p>>) = 1..Len(Removes(<<c, p>>))
        <3>1. PICK r : r = Removes(<<c, p>>)
            OBVIOUS
        <3>2. Len(r) = 1 /\ DOMAIN r = 1..1
            BY ONLY <2>1, <3>1
        <3> QED BY ONLY <3>1, <3>2
    <2>3. DOMAIN Removes(<<c, p>>) = {1}
        BY <2>1
    <2>4. Removed(c, p) = {"built"}
        BY <2>1, <2>3 DEF Removed
    <2> QED BY <1>3, <2>2, <2>4 DEF InstallStep
<1>4. CASE c = "clean-for-reconfigure"
    <2>1. Removes(<<c, p>>) = <<"configured">>
        BY <1>4 DEF Removes
    <2>2. Len(Removes(<<c, p>>)) \in Nat \ {0} /\ DOMAIN Removes(<<c, p>>) = 1..Len(Removes(<<c, p>>))
        <3>1. PICK r : r = Removes(<<c, p>>)
            OBVIOUS
        <3>2. Len(r) = 1 /\ DOMAIN r = 1..1
            BY ONLY <2>1, <3>1
        <3> QED BY ONLY <3>1, <3>2
    <2>3. DOMAIN Removes(<<c, p>>) = {1}
        BY <2>1
    <2>4. Removed(c, p) = {"configured"}
        BY <2>1, <2>3 DEF Removed
    <2> QED BY <1>4, <2>2, <2>4 DEF InstallStep
<1> QED BY <1>1, <1>2, <1>3, <1>4 DEF Cleaning

LEMMA NextIsLineRemoved ==
    ASSUME TypeOK, LineRemoved, [Next]_vars
    PROVE  LineRemoved'
<1>1. CASE line' = 0
    BY <1>1 DEF LineRemoved
<1>2. CASE Close \/ Stop \/ \E c \in Command : Invoke(c)
    BY <1>1, <1>2 DEF Close, Stop, Invoke
<1>3. CASE UNCHANGED <<stamp, old, status, run, stack, done, line>>
    <2>1. Ready' <=> Ready
        BY <1>3 DEF Ready, Running, Current, OnStack, Prereqs, Normal, OrderOnly
    <2>2. Current' = Current /\ Removes(Current)' = Removes(Current)
        BY <1>3 DEF Current, Removes
    <2> QED BY <1>3, <2>1, <2>2 DEF LineRemoved
<1>4. CASE Finish \/ NextGoal
    <2>1. stack = <<>> /\ line' = line /\ line \in Nat
        BY <1>4 DEF Finish, NextGoal, TypeOK
    <2>2. line = 0
        BY <2>1 DEF LineRemoved, Ready
    <2> QED BY <1>1, <2>1, <2>2
<1>5. CASE Descend
    <2>1. line' = line /\ line \in Nat /\ ~(Prereqs(Current) \subseteq done \cup OnStack)
        BY <1>5 DEF Descend, TypeOK
    <2>2. line = 0
        BY <2>1 DEF LineRemoved, Ready
    <2> QED BY <1>1, <2>1, <2>2
<1>6. CASE Remove
    <2> DEFINE p == Current[2]
               rms == Removes(Current)
    <2>1. CASE line < Len(rms)
        <3>1. /\ stamp' = [stamp EXCEPT ![p] = @ \ {rms[line + 1]}] /\ line' = line + 1
              /\ UNCHANGED <<status, run, stack, done>> /\ Ready /\ Current[1] \in Cleaning \ {"dirclean"}
            BY <1>6, <2>1 DEF Remove
        <3>2. Current \in Target
            BY <3>1, CloseFacts DEF Ready, TypeOK, Current
        <3>3. p \in Pkg /\ line \in Nat /\ Len(rms) \in Nat \ {0} /\ DOMAIN rms = 1..Len(rms)
            BY <3>1, <3>2, CleaningIsOfPackage, RemovesFacts DEF TypeOK
        <3>4. stamp'[p] = stamp[p] \ {rms[line + 1]}
            BY <3>1, <3>3 DEF TypeOK
        <3>5. ASSUME NEW k \in 1..(line + 1)
              PROVE  k \in DOMAIN rms /\ rms[k] \notin stamp'[p]
            <4>1. CASE k = line + 1
                BY <2>1, <3>3, <3>4, <4>1
            <4>2. CASE k # line + 1
                <5>1. line > 0 /\ k \in 1..line
                    BY <3>3, <4>2
                <5>2. k \in DOMAIN rms /\ rms[k] \notin stamp[p]
                    BY <5>1 DEF LineRemoved
                <5> QED BY <3>4, <5>2
            <4> QED BY <4>1, <4>2
        <3>6. Ready' /\ Current' = Current
            BY <3>1 DEF Ready, Running, Current, OnStack, Prereqs, Normal, OrderOnly
        <3>7. \A k \in 1..line' : /\ k \in DOMAIN Removes(Current)'
                                /\ Removes(Current)'[k] \notin stamp'[Current[2]']
            BY <3>1, <3>5, <3>6
        <3> QED BY <3>1, <3>6, <3>7 DEF LineRemoved
    <2>2. CASE Close
        BY <1>2, <2>2
    <2> QED BY <1>6, <2>1, <2>2 DEF Remove
<1>7. CASE (\E p \in Pkg, s \in Step : Due(s, p) /\ Touch(s, p)) \/ \E p \in Pkg : Dirclean(p)
    BY <1>2, <1>7 DEF Touch, Dirclean
<1> QED BY <1>2, <1>3, <1>4, <1>5, <1>6, <1>7, Steps

\* A cleaning ends when it has removed all it is to remove.
LEMMA RemoveEnds ==
    ASSUME TypeOK, LineRemoved, Remove, Close
    PROVE  \A s \in Removed(Current[1], Current[2]) : s \notin stamp[Current[2]]
<1> DEFINE rms == Removes(Current)
<1>1. Ready /\ Current[1] \in Cleaning \ {"dirclean"}
    BY DEF Remove
<1>2. Current \in Target /\ line' = 0 /\ line \in Nat
    BY <1>1, CloseFacts DEF Close, TypeOK
<1>3. Current[2] \in Pkg /\ Current = <<Current[1], Current[2]>>
    BY <1>1, <1>2, CleaningIsOfPackage
<1>4. Len(rms) \in Nat \ {0} /\ DOMAIN rms = 1..Len(rms)
    BY <1>1, <1>3, RemovesFacts
<1>5. ~(line < Len(rms))
    BY <1>2 DEF Remove
<1>6. ASSUME NEW k \in DOMAIN rms PROVE rms[k] \notin stamp[Current[2]]
    <2>1. k \in 1..line /\ line > 0
        BY <1>2, <1>4, <1>5
    <2> QED BY <2>1 DEF LineRemoved
<1> QED BY <1>3, <1>6 DEF Removed

LEMMA NextIsMissing ==
    ASSUME TypeOK, LineRemoved, CleanedIsMissing, [Next]_vars
    PROVE  CleanedIsMissing'
<1>1. CASE done' = {}
    BY <1>1 DEF CleanedIsMissing
<1>2. CASE Finish \/ Stop \/ \E c \in Command : Invoke(c)
    BY <1>1, <1>2 DEF Finish, Stop, Invoke
<1>3. CASE /\ \A p \in Pkg : stamp'[p] \subseteq stamp[p]
           /\ done \subseteq done' /\ \A t \in done' \ done : t[1] \notin Cleaning \ {"dirclean"}
    BY <1>3 DEF CleanedIsMissing
<1>4. CASE UNCHANGED <<stamp, old, status, run, stack, done, line>>
    BY <1>3, <1>4
<1>5. CASE UNCHANGED <<stamp, old>> /\ (NextGoal \/ Descend)
    BY <1>3, <1>5 DEF NextGoal, Descend
<1>6. CASE Ready /\ Close /\ UNCHANGED <<stamp, old>> /\ Current[1] \notin Cleaning
    BY <1>3, <1>6, CloseFacts
<1>7. ASSUME NEW p \in Pkg, NEW s \in Step, Due(s, p), Touch(s, p)
      PROVE  CleanedIsMissing'
    <2>1. /\ done' = done \cup {<<s, p>>}
          /\ \A q \in Pkg : stamp'[q] = IF q = p THEN stamp[q] \cup {s} ELSE stamp[q]
          /\ s \notin Cleaning
        BY <1>7 DEF Due, Touch, Close, TypeOK, Step, InstallStep, Cleaning
    <2> QED BY <2>1 DEF CleanedIsMissing
<1>8. CASE Remove
    <2>0. Ready /\ Current[1] \in Cleaning \ {"dirclean"}
        BY <1>8 DEF Remove
    <2>1. CASE Close /\ UNCHANGED <<stamp, old>>
        <3>1. done' = done \cup {Current} /\ stamp' = stamp
            BY <2>0, <2>1, CloseFacts
        <3>2. \A s \in Removed(Current[1], Current[2]) : s \notin stamp[Current[2]]
            BY <1>8, <2>1, RemoveEnds
        <3> QED BY <3>1, <3>2 DEF CleanedIsMissing
    <2>2. CASE line < Len(Removes(Current))
        BY <1>3, <1>8, <2>2 DEF Remove, TypeOK
    <2> QED BY <1>8, <2>1, <2>2 DEF Remove
<1>9. ASSUME NEW p \in Pkg, Dirclean(p)
      PROVE  CleanedIsMissing'
    <2>1. done' = done \cup {<<"dirclean", p>>} /\ \A q \in Pkg : stamp'[q] \subseteq stamp[q]
        BY <1>9 DEF Dirclean, Close, Wipe, TypeOK
    <2> QED BY <1>3, <2>1
<1> QED BY <1>2, <1>4, <1>5, <1>6, <1>7, <1>8, <1>9, Steps

-----------------------------------------------------------------------------

(***************************************************************************)
(* A second make is idle.  A step make is done with is up to date, and     *)
(* stays so: what make touches later is no prerequisite of it, for its     *)
(* prerequisites are done, and what make cleans later it has not touched.  *)
(***************************************************************************)

DoneIsUpToDate ==
    CleansFirst(cmd) => \A p \in Pkg, s \in Step : <<s, p>> \in done => UpToDate(s, p)

LEMMA NextIsUpToDate ==
    ASSUME TypeOK, NotTwice, DoneInOrder, StackOfGoal, CleaningAhead, DoneIsUpToDate, [Next]_vars
    PROVE  DoneIsUpToDate'
<1>1. CASE done' = {}
    BY <1>1 DEF DoneIsUpToDate
<1>2. CASE Finish \/ Stop \/ \E c \in Command : Invoke(c)
    BY <1>1, <1>2 DEF Finish, Stop, Invoke
<1>3. CASE /\ UNCHANGED <<stamp, old, cmd>>
           /\ \A s \in Step, p \in Pkg : <<s, p>> \in done' => <<s, p>> \in done \/ UpToDate(s, p)
    BY <1>3 DEF DoneIsUpToDate, UpToDate
<1>4. CASE UNCHANGED <<stamp, old, status, run, stack, done, line>>
    BY <1>3, <1>4 DEF run
<1>5. CASE UNCHANGED <<stamp, old>> /\ (NextGoal \/ Descend)
    BY <1>3, <1>5 DEF NextGoal, Descend, run
<1>6. CASE /\ Ready /\ Close /\ UNCHANGED <<stamp, old>>
           /\ Current[1] \in Step => UpToDate(Current[1], Current[2])
    <2>1. done' = done \cup {Current} /\ cmd' = cmd
        BY <1>6, CloseFacts
    <2> QED BY <1>3, <1>6, <2>1
<1> SUFFICES ASSUME CleansFirst(cmd), cmd' = cmd, ~(done' = {}),
                    NEW q \in Pkg, NEW r \in Step, <<r, q>> \in done'
             PROVE  UpToDate(r, q)'
    <2>1. ~(done' = {}) => cmd' = cmd
        BY <1>2, Steps DEF NextGoal, Descend, Finish, Invoke, Stop, Close, Due, Touch, Remove, Dirclean, run
    <2> QED BY <1>1, <2>1 DEF DoneIsUpToDate
<1>7. ASSUME NEW p \in Pkg, NEW s \in Step, Due(s, p), Touch(s, p)
      PROVE  UpToDate(r, q)'
    <2>1. /\ Current = <<s, p>> /\ done' = done \cup {<<s, p>>} /\ Current \notin done
        BY <1>7, CloseFacts DEF Due, Touch, NotTwice, OnStack, Ready
    <2>2. /\ stamp'[q] = IF q = p THEN stamp[q] \cup {s} ELSE stamp[q]
          /\ old'[q] = IF q = p THEN (old[q] \ {s}) \cup {d \in stamp[q] : s \in Normal(d, q)} ELSE old[q]
        BY <1>7 DEF Touch, TypeOK
    <2>3. s \notin Normal(s, p)
        BY DEF Normal, Step, InstallStep
    <2>4. CASE r = s /\ q = p
        BY <2>2, <2>3, <2>4 DEF UpToDate
    <2>5. CASE <<r, q>> # <<s, p>>
        <3>1. <<r, q>> \in done /\ UpToDate(r, q)
            BY <2>1, <2>5 DEF DoneIsUpToDate
        <3>2. q = p => s \notin Normal(r, q)
            <4>1. Prereqs(<<r, q>>) \subseteq done
                BY <3>1 DEF DoneInOrder
            <4>2. Normal(r, q) \X {q} \subseteq Prereqs(<<r, q>>)
                <5>1. Prereqs(<<r, q>>) = (Normal(r, q) \X {q}) \cup OrderOnly(r, q)
                    BY DEF Prereqs, Step, InstallStep
                <5> QED BY <5>1
            <4> QED BY <2>1, <4>1, <4>2
        <3> QED BY <2>2, <2>5, <3>1, <3>2 DEF UpToDate
    <2> QED BY <2>4, <2>5
<1>8. CASE Remove
    <2>0. Ready /\ Current[1] \in Cleaning
        BY <1>8 DEF Remove
    <2>1. CASE Close /\ UNCHANGED <<stamp, old>>
        <3>1. done' = done \cup {Current} /\ <<r, q>> # Current
            BY <2>0, <2>1, CloseFacts DEF Step, InstallStep, Cleaning
        <3> QED BY <2>1, <3>1 DEF DoneIsUpToDate, UpToDate
    <2>2. CASE line < Len(Removes(Current))
        <3>1. PICK x : /\ stamp' = [stamp EXCEPT ![Current[2]] = @ \ {x}]
                       /\ old' = [old EXCEPT ![Current[2]] = @ \ {x}] /\ done' = done
            BY <1>8, <2>2 DEF Remove
        <3>2. q # Current[2]
            BY <2>0, <3>1, CleansBeforeSteps
        <3>3. stamp'[q] = stamp[q] /\ old'[q] = old[q] /\ UpToDate(r, q)
            BY <3>1, <3>2 DEF DoneIsUpToDate, TypeOK
        <3> QED BY <3>3 DEF UpToDate
    <2> QED BY <1>8, <2>1, <2>2 DEF Remove
<1>9. ASSUME NEW p \in Pkg, Dirclean(p)
      PROVE  UpToDate(r, q)'
    <2>1. /\ Ready /\ Close /\ Current = <<"dirclean", p>> /\ stamp' = [stamp EXCEPT ![p] = {}]
          /\ old' = [old EXCEPT ![p] = @ \cap {}] /\ done' = done \cup {Current}
        BY <1>9, CloseFacts DEF Dirclean, Wipe, Ready
    <2>2. <<r, q>> \in done
        BY <2>1 DEF Step, InstallStep
    <2>3. q # p
        BY <2>1, <2>2, CleansBeforeSteps DEF Cleaning
    <2>4. stamp'[q] = stamp[q] /\ old'[q] = old[q] /\ UpToDate(r, q)
        BY <2>1, <2>2, <2>3 DEF DoneIsUpToDate, TypeOK
    <2> QED BY <2>4 DEF UpToDate
<1> QED BY <1>2, <1>4, <1>5, <1>6, <1>7, <1>8, <1>9, Steps DEF UpToDate, DoneIsUpToDate

\* All steps of a package are done with the package.
LEMMA StepsAreDone ==
    ASSUME DoneInOrder, NEW q \in Pkg, <<"pkg", q>> \in done, NEW s \in StepsOf(q)
    PROVE  <<s, q>> \in done /\ s \in Step
<1>0. ASSUME NEW r \in Step, NEW d \in Normal(r, q), <<r, q>> \in done
      PROVE  <<d, q>> \in done
    <2>1. Prereqs(<<r, q>>) = (Normal(r, q) \X {q}) \cup OrderOnly(r, q)
        BY DEF Prereqs, Step, InstallStep
    <2> QED BY <1>0, <2>1 DEF DoneInOrder
<1>1. ASSUME NEW r \in Installs[q]
      PROVE  <<r, q>> \in done /\ r \in InstallStep
    <2>1. Prereqs(<<"pkg", q>>) = Installs[q] \X {q}
        BY DEF Prereqs, Step, InstallStep
    <2> QED BY <2>1, InstallsAssumption DEF DoneInOrder
<1>2. PICK r \in Installs[q] : <<r, q>> \in done /\ r \in InstallStep
    BY <1>1, InstallsAssumption
<1>3. <<"built", q>> \in done
    <2>1. "built" \in Normal(r, q) /\ r \in Step
        BY <1>2 DEF Normal, Step, InstallStep
    <2> QED BY <1>0, <1>2, <2>1
<1>4. <<"configured", q>> \in done
    BY <1>0, <1>3 DEF Normal, Step, InstallStep
<1>5. CASE q \in Override
    <2>1. <<"rsynced", q>> \in OrderOnly("configured", q)
        BY <1>5 DEF OrderOnly
    <2>2. Prereqs(<<"configured", q>>) = (Normal("configured", q) \X {q}) \cup OrderOnly("configured", q)
        BY DEF Prereqs, Step
    <2>3. <<"rsynced", q>> \in done
        BY <1>4, <2>1, <2>2 DEF DoneInOrder
    <2> QED BY <1>1, <1>3, <1>4, <1>5, <2>3 DEF StepsOf, Step
<1>6. CASE q \notin Override
    <2>1. <<"patched", q>> \in done
        BY <1>0, <1>4, <1>6 DEF Normal, Step, InstallStep
    <2>2. <<"extracted", q>> \in done
        BY <1>0, <2>1 DEF Normal, Step, InstallStep
    <2>3. <<"downloaded", q>> \in done
        BY <1>0, <2>2 DEF Normal, Step, InstallStep
    <2> QED BY <1>1, <1>3, <1>4, <1>6, <2>1, <2>2, <2>3 DEF StepsOf, Step
<1> QED BY <1>5, <1>6

\* When the image is done, every enabled package and all it depends on are.
LEMMA AllAreDone ==
    ASSUME DoneInOrder, <<"rootfs", World>> \in done, NEW p \in Top, NEW q \in {p} \cup AllDeps[p]
    PROVE  q \in Pkg /\ <<"pkg", q>> \in done
<1>1. Prereqs(<<"rootfs", World>>) = {<<"target-finalize", World>>}
    BY DEF Prereqs, Step, InstallStep
<1>2. Prereqs(<<"target-finalize", World>>) = {"pkg"} \X Top
    BY DEF Prereqs, Step, InstallStep
<1>3. p \in Pkg /\ <<"pkg", p>> \in done
    BY <1>1, <1>2, SubsetAssumption DEF DoneInOrder
<1> DEFINE S == {r \in Pkg : <<"pkg", r>> \in done}
<1>4. ASSUME NEW r \in S
      PROVE  Deps[r] \subseteq S
    <2>1. <<"configured", r>> \in done
        BY StepsAreDone DEF StepsOf
    <2>2. {"pkg"} \X Deps[r] \subseteq Prereqs(<<"configured", r>>)
        BY DEF Prereqs, OrderOnly, Step
    <2> QED BY <2>1, <2>2, DepsAssumption DEF DoneInOrder
<1>5. p \in S /\ S \in SUBSET Pkg
    BY <1>3
<1>6. q \in S
    <2> HIDE DEF S
    <2> QED BY <1>3, <1>4, <1>5 DEF AllDeps
<1> QED BY <1>6

LEMMA AllLeavesImage ==
    ASSUME TypeOK, DoneInOrder, LastGoalDone, Running, goals = <<>>, EndsWithAll
    PROVE  <<"rootfs", World>> \in done
<1>1. Expand(<<"all", World>>) = <<<<"all", World>>>>
    BY DEF Expand
<1>2. <<"all", World>> \in done
    BY <1>1 DEF LastGoalDone, EndsWithAll
<1>3. Prereqs(<<"all", World>>) = {<<"rootfs", World>>}
    BY DEF Prereqs, Step, InstallStep
<1> QED BY <1>2, <1>3 DEF DoneInOrder

\* What holds when make succeeds stays, until the next command line.
LEMMA SuccessSteps ==
    ASSUME TypeOK, [Next]_vars, status' = "succeeded"
    PROVE  \/ Finish
           \/ /\ status = "succeeded" /\ UNCHANGED <<stamp, old, run, inst, image>>
<1>1. CASE UNCHANGED vars \/ \E p \in Pkg : Edit(p)
    BY <1>1 DEF vars, disk, Edit
<1>2. CASE Stop \/ Fail \/ \E c \in Command : Invoke(c)
    BY <1>2 DEF Stop, Fail, Invoke
<1>3. CASE NextGoal \/ Descend \/ Skip \/ Remove \/ Rootfs
    BY <1>3 DEF NextGoal, Descend, Skip, Remove, Rootfs, Close, Ready, Running
<1>4. CASE \E p \in Pkg : PkgStep(p)
    BY <1>4 DEF PkgStep, Download, Extract, Rsync, Prepare, Build, Install, Dirclean, Touch,
                Due, Close, Ready, Running
<1> QED BY <1>1, <1>2, <1>3, <1>4 DEF Next, Make

\* The property to prove, one formula for the inductive step.
IdleAfterCleansFirst == CleansFirst(cmd) => SecondMakeIdle

LEMMA NextIsIdle ==
    ASSUME TypeOK, DoneInOrder, LastGoalDone, DoneIsUpToDate, IdleAfterCleansFirst, [Next]_vars
    PROVE  IdleAfterCleansFirst'
<1> SUFFICES ASSUME CleansFirst(cmd'), status' = "succeeded", EndsWithAll', NEW p \in Top,
                    NEW q \in {p} \cup AllDeps[p], NEW s \in StepsOf(q)
             PROVE  UpToDate(s, q)'
    BY DEF IdleAfterCleansFirst, SecondMakeIdle
<1>1. CASE Finish
    <2>1. UNCHANGED <<stamp, old, cmd>> /\ Running /\ goals = <<>>
        BY <1>1 DEF Finish, disk, run
    <2>2. EndsWithAll
        BY <2>1 DEF EndsWithAll
    <2>3. q \in Pkg /\ <<"pkg", q>> \in done
        BY <2>1, <2>2, AllLeavesImage, AllAreDone
    <2>4. <<s, q>> \in done /\ s \in Step
        BY <2>3, StepsAreDone
    <2> QED BY <2>1, <2>3, <2>4 DEF DoneIsUpToDate, UpToDate
<1>2. CASE status = "succeeded" /\ UNCHANGED <<stamp, old, run>>
    BY <1>2 DEF IdleAfterCleansFirst, SecondMakeIdle, EndsWithAll, UpToDate, run
<1> QED BY <1>1, <1>2, SuccessSteps

(***************************************************************************)
(* After a successful make whose last goal is "all" (and whose command     *)
(* line cleans first) a second make finds every stamp up to date, of every *)
(* enabled package and of all it depends on: it has nothing to redo (the   *)
(* rules of inner-generic-package in package/pkg-generic.mk, and world in  *)
(* Makefile).                                                              *)
(***************************************************************************)
THEOREM Idleness == Spec => [](CleansFirst(cmd) => SecondMakeIdle)
<1>1. Init => /\ DoneInOrder /\ NotTwice /\ LastGoalDone /\ StackOfGoal /\ CleaningAhead
              /\ DoneIsUpToDate /\ IdleAfterCleansFirst
    BY DEF Init, DoneInOrder, NotTwice, LastGoalDone, StackOfGoal, CleaningAhead, CleansFirst, DoneIsUpToDate,
           IdleAfterCleansFirst, SecondMakeIdle, Running
<1>2. TypeOK /\ StampsHonest /\ DoneInOrder /\ NothingDropped /\ [Next]_vars => DoneInOrder'
    BY NextIsInOrder
<1>3. TypeOK /\ NotTwice /\ [Next]_vars => NotTwice'
    BY NextIsNotTwice
<1>4. TypeOK /\ LastGoalDone /\ [Next]_vars => LastGoalDone'
    BY NextIsLastGoal
<1>5. TypeOK /\ NotTwice /\ StackOfGoal /\ [Next]_vars => StackOfGoal'
    BY NextIsStackOfGoal
<1>6. TypeOK /\ NotTwice /\ StackOfGoal /\ CleaningAhead /\ [Next]_vars => CleaningAhead'
    BY NextIsCleaningAhead
<1>7. /\ TypeOK /\ NotTwice /\ DoneInOrder /\ StackOfGoal /\ CleaningAhead /\ DoneIsUpToDate /\ [Next]_vars
      => DoneIsUpToDate'
    BY NextIsUpToDate
<1>8. TypeOK /\ DoneInOrder /\ LastGoalDone /\ DoneIsUpToDate /\ IdleAfterCleansFirst /\ [Next]_vars
      => IdleAfterCleansFirst'
    BY NextIsIdle
<1>9. IdleAfterCleansFirst => (CleansFirst(cmd) => SecondMakeIdle)
    BY DEF IdleAfterCleansFirst
<1> QED BY <1>1, <1>2, <1>3, <1>4, <1>5, <1>6, <1>7, <1>8, <1>9, Typing, Honesty, NoneIsCircular, PTL DEF Spec

-----------------------------------------------------------------------------

(***************************************************************************)
(* Nothing is redone.  Stamps are removed from the last step to the first, *)
(* so the stamp of a step is there only with those of the steps it depends *)
(* on; and then no touch makes it old.                                     *)
(***************************************************************************)

\* Nobody removes a build directory.
GentleCommands == \A c \in Command : CleansFirst(c) /\ NoDirclean(c)

CmdIsGiven == cmd = <<>> \/ cmd \in Command

KeptInOrder ==
    \A p \in Pkg :
        /\ old[p] \cap ({"downloaded"} \cup Kept) = {}
        /\ \A d \in Kept \cap stamp[p] : Normal(d, p) \subseteq stamp[p]

LEMMA NextIsGiven ==
    ASSUME TypeOK, CmdIsGiven, [Next]_vars
    PROVE  CmdIsGiven'
<1>1. CASE cmd' = cmd
    BY <1>1 DEF CmdIsGiven
<1> QED BY <1>1, Steps DEF NextGoal, Descend, Finish, Invoke, Stop, Close, Due, Touch, Remove, Dirclean, run,
                           CmdIsGiven

LEMMA NoDircleanHere ==
    ASSUME TypeOK, GentleCommands, CmdIsGiven, GoalsLeft, NotTwice, StackOfGoal, CleaningAhead, Ready
    PROVE  CleansFirst(cmd) /\ Current[1] # "dirclean"
<1>1. CleansFirst(cmd) /\ NoDirclean(cmd)
    BY DEF CmdIsGiven, GentleCommands, CleansFirst, NoDirclean
<1>2. ASSUME Current[1] = "dirclean" PROVE FALSE
    <2>1. goals # <<>> /\ goals[1][1] = "dirclean"
        BY <1>1, <1>2, CleansBeforeSteps DEF Cleaning
    <2>2. 1 \in DOMAIN goals
        BY <2>1 DEF TypeOK
    <2>3. \E i \in DOMAIN cmd : cmd[i] = goals[1]
        BY <2>2 DEF GoalsLeft
    <2> QED BY <1>1, <2>1, <2>3 DEF NoDirclean
<1> QED BY <1>1, <1>2

LEMMA NextIsKeptInOrder ==
    ASSUME GentleCommands, TypeOK, DoneInOrder, NothingDropped, NotTwice, GoalsLeft, StackOfGoal, CleaningAhead,
           CleanedIsMissing, DoneIsUpToDate, CmdIsGiven, KeptInOrder, [Next]_vars
    PROVE  KeptInOrder'
<1>1. CASE UNCHANGED <<stamp, old>>
    BY <1>1 DEF KeptInOrder, Normal
<1>2. CASE Stop
    <2>1. ~(Ready /\ Current[1] = "dirclean")
        BY NoDircleanHere
    <2> QED BY <1>1, <1>2, <2>1, StopStamps
<1>3. CASE \E p \in Pkg : Dirclean(p)
    BY <1>3, NoDircleanHere DEF Dirclean
<1>4. CASE Remove
    <2> DEFINE c == Current[1]
               p == Current[2]
    <2>1. CASE line < Len(Removes(Current))
        <3>1. Ready /\ c \in Cleaning \ {"dirclean"}
            BY <1>4 DEF Remove
        <3>2. /\ CleansFirst(cmd) /\ p \in Pkg /\ Current = <<c, p>>
              /\ \A s \in Step : <<s, p>> \notin done
            BY <3>1, NoDircleanHere, CleansBeforeSteps, CleaningIsOfPackage DEF Ready, Current, TypeOK
        <3>3. PICK x \in Removed(c, p) : /\ stamp' = [stamp EXCEPT ![p] = @ \ {x}]
                                         /\ old' = [old EXCEPT ![p] = @ \ {x}]
            <4>1. line + 1 \in DOMAIN Removes(Current)
                BY <2>1, <3>1, <3>2, RemovesFacts DEF TypeOK
            <4> QED BY <1>4, <2>1, <3>2, <4>1 DEF Remove, Removed
        <3>4. \A q \in Pkg : /\ stamp'[q] = IF q = p THEN stamp[q] \ {x} ELSE stamp[q]
                             /\ old'[q] \subseteq old[q]
            BY <3>3 DEF TypeOK
        <3>5. \A d \in Kept \cap stamp[p] : x \notin Normal(d, p)
            <4>1. CASE c = "clean-for-reinstall"
                BY <3>1, <3>2, <3>3, <4>1, RemovesFacts DEF Kept, Normal, InstallStep
            <4>2. CASE c = "clean-for-rebuild"
                BY <3>1, <3>2, <3>3, <4>2, RemovesFacts DEF Kept, Normal, InstallStep
            <4>3. CASE c = "clean-for-reconfigure"
                <5>1. Prereqs(Current) = {<<"clean-for-rebuild", p>>}
                    BY <3>2, <4>3 DEF Prereqs, Step, InstallStep
                <5>2. "built" \notin stamp[p]
                    <6>1. <<"clean-for-rebuild", p>> \in done
                        BY <3>1, <5>1, ReadyFacts
                    <6>2. "clean-for-rebuild" \in Cleaning \ {"dirclean"} /\ "built" \in Step
                        BY DEF Cleaning, Step
                    <6>3. Removed("clean-for-rebuild", p) = {"built"}
                        BY <3>2, <6>2, RemovesFacts
                    <6> QED BY <3>2, <6>1, <6>2, <6>3 DEF CleanedIsMissing
                <5>3. x = "configured"
                    BY <3>1, <3>2, <3>3, <4>3, RemovesFacts
                <5> QED BY <5>2, <5>3 DEF Kept, Normal, InstallStep
            <4> QED BY <3>1, <4>1, <4>2, <4>3 DEF Cleaning
        <3>6. ASSUME NEW q \in Pkg
              PROVE  /\ old'[q] \cap ({"downloaded"} \cup Kept) = {}
                     /\ \A d \in Kept \cap stamp'[q] : Normal(d, q) \subseteq stamp'[q]
            <4>1. old'[q] \subseteq old[q] /\ stamp'[q] \subseteq stamp[q]
                BY <3>4
            <4>2. ASSUME NEW d \in Kept \cap stamp'[q]
                  PROVE  Normal(d, q) \subseteq stamp'[q]
                <5>1. Normal(d, q) \subseteq stamp[q]
                    BY <4>1, <4>2 DEF KeptInOrder
                <5>2. q = p => x \notin Normal(d, q)
                    BY <3>5, <4>1, <4>2
                <5> QED BY <3>4, <5>1, <5>2
            <4> QED BY <4>1, <4>2 DEF KeptInOrder
        <3> QED BY <3>6 DEF KeptInOrder, Normal
    <2> QED BY <1>1, <1>4, <2>1 DEF Remove
<1>5. ASSUME NEW p \in Pkg, NEW s \in Step, Due(s, p), Touch(s, p)
      PROVE  KeptInOrder'
    <2>1. /\ Ready /\ Current = <<s, p>> /\ CleansFirst(cmd)
          /\ \A q \in Pkg : /\ stamp'[q] = IF q = p THEN stamp[q] \cup {s} ELSE stamp[q]
                            /\ old'[q] = IF q = p THEN (old[q] \ {s}) \cup {d \in stamp[q] : s \in Normal(d, q)}
                                         ELSE old[q]
        BY <1>5, NoDircleanHere DEF Due, Touch, TypeOK
    <2>2. Normal(s, p) \subseteq stamp[p]
        <3>1. Prereqs(<<s, p>>) = (Normal(s, p) \X {p}) \cup OrderOnly(s, p)
            BY DEF Prereqs, Step, InstallStep
        <3>2. Normal(s, p) \subseteq Step
            BY DEF Normal, Step, InstallStep
        <3>3. \A d \in Normal(s, p) : <<d, p>> \in done
            BY <2>1, <3>1, ReadyFacts
        <3> QED BY <2>1, <3>2, <3>3 DEF DoneIsUpToDate, UpToDate
    <2>3. \A d \in Kept \cap stamp[p] : s \notin Normal(d, p)
        <3> SUFFICES ASSUME NEW d \in Kept \cap stamp[p], s \in Normal(d, p) PROVE FALSE
            OBVIOUS
        <3>1. s \in stamp[p]
            BY DEF KeptInOrder
        <3>2. s \in {"downloaded"} \cup Kept
            BY DEF Kept, Normal, InstallStep
        <3> QED BY <1>5, <3>1, <3>2 DEF Due, UpToDate, KeptInOrder
    <2>4. "downloaded" \in stamp[p] => s \notin Normal("downloaded", p)
        BY DEF Normal, InstallStep
    <2>5. ASSUME NEW q \in Pkg
          PROVE  /\ old'[q] \cap ({"downloaded"} \cup Kept) = {}
                 /\ \A d \in Kept \cap stamp'[q] : Normal(d, q) \subseteq stamp'[q]
        BY <2>1, <2>2, <2>3, <2>4 DEF KeptInOrder
    <2> QED BY <2>5 DEF KeptInOrder, Normal
<1> QED BY <1>1, <1>2, <1>3, <1>4, <1>5, Steps

(***************************************************************************)
(* With command lines that clean first and remove no build directory, make *)
(* extracts, patches, configures and compiles a package only when the      *)
(* stamp of that step is missing, and never because something it depends   *)
(* on was redone (the order-only prerequisites of package/pkg-generic.mk). *)
(***************************************************************************)
THEOREM NotRedone == ASSUME GentleCommands PROVE Spec => NeverRedone
<1>1. Init => /\ DoneInOrder /\ NotTwice /\ GoalsLeft /\ StackOfGoal /\ CleaningAhead /\ LineRemoved
              /\ CleanedIsMissing /\ DoneIsUpToDate /\ CmdIsGiven /\ KeptInOrder
    BY DEF Init, DoneInOrder, NotTwice, GoalsLeft, StackOfGoal, CleaningAhead, CleansFirst, LineRemoved,
           CleanedIsMissing, DoneIsUpToDate, CmdIsGiven, KeptInOrder, Running
<1>2. TypeOK /\ StampsHonest /\ DoneInOrder /\ NothingDropped /\ [Next]_vars => DoneInOrder'
    BY NextIsInOrder
<1>3. TypeOK /\ NotTwice /\ [Next]_vars => NotTwice'
    BY NextIsNotTwice
<1>4. TypeOK /\ GoalsLeft /\ [Next]_vars => GoalsLeft'
    BY NextIsGoalsLeft
<1>5. TypeOK /\ NotTwice /\ StackOfGoal /\ [Next]_vars => StackOfGoal'
    BY NextIsStackOfGoal
<1>6. TypeOK /\ NotTwice /\ StackOfGoal /\ CleaningAhead /\ [Next]_vars => CleaningAhead'
    BY NextIsCleaningAhead
<1>7. /\ TypeOK /\ NotTwice /\ DoneInOrder /\ StackOfGoal /\ CleaningAhead /\ DoneIsUpToDate /\ [Next]_vars
      => DoneIsUpToDate'
    BY NextIsUpToDate
<1>8. TypeOK /\ LineRemoved /\ [Next]_vars => LineRemoved'
    BY NextIsLineRemoved
<1>9. TypeOK /\ LineRemoved /\ CleanedIsMissing /\ [Next]_vars => CleanedIsMissing'
    BY NextIsMissing
<1>10. TypeOK /\ CmdIsGiven /\ [Next]_vars => CmdIsGiven'
    BY NextIsGiven
<1>11. /\ TypeOK /\ DoneInOrder /\ NothingDropped /\ NotTwice /\ GoalsLeft /\ StackOfGoal
       /\ CleaningAhead /\ CleanedIsMissing /\ DoneIsUpToDate /\ CmdIsGiven /\ KeptInOrder /\ [Next]_vars
       => KeptInOrder'
    BY NextIsKeptInOrder
<1>12. KeptInOrder => \A p \in Pkg, s \in Kept : Due(s, p) /\ <<s, p>> \in done' => s \notin stamp[p]
    BY DEF KeptInOrder, Due, UpToDate
<1> QED BY <1>1, <1>2, <1>3, <1>4, <1>5, <1>6, <1>7, <1>8, <1>9, <1>10, <1>11, <1>12, Typing, Honesty,
           NoneIsCircular, PTL
        DEF Spec, NeverRedone

-----------------------------------------------------------------------------

(***************************************************************************)
(* What is rebuilt reaches the image.  A package from a local directory is *)
(* synchronised, any other is extracted, and that only when its build      *)
(* directory is missing: the tree a rebuild compiles is that of the        *)
(* developer, or a later one.  Since the stamps of what follows were       *)
(* removed, none of it is skipped.                                         *)
(***************************************************************************)

\* A package from a local directory is synchronised, any other is extracted.
Sources ==
    \A t \in OnStack :
        /\ t[1] \in {"downloaded", "extracted", "patched"} => t[2] \notin Override
        /\ t[1] = "rsynced" => t[2] \in Override

\* make downloads only for extracting.
DownloadsToExtract ==
    /\ \A i \in DOMAIN stack, p \in Pkg :
           stack[i] = <<"downloaded", p>> => i > 1 /\ stack[i - 1] = <<"extracted", p>>
    /\ \A p \in Pkg : <<"downloaded", p>> \in done =>
           <<"extracted", p>> \in done \/ (<<"extracted", p>> \in OnStack /\ UpToDate("downloaded", p))

LEMMA PrereqsOfSources ==
    ASSUME NEW t \in Target, NEW u \in Prereqs(t)
    PROVE  /\ u[1] = "downloaded" => t = <<"extracted", u[2]>>
           /\ u[1] = "extracted" => t = <<"patched", u[2]>>
           /\ u[1] = "patched" => t \in {"configured", "patch"} \X {u[2]} /\ u[2] \notin Override
           /\ u[1] = "rsynced" => u[2] \in Override
<1>1. CASE t \in {"target-finalize", "rootfs", "all"} \X {World}
    BY <1>1 DEF Prereqs, Step, InstallStep
<1>2. CASE t \in (Step \cup Cleaning \cup {"pkg", "patch"}) \X Pkg
    <2> PICK s \in Step \cup Cleaning \cup {"pkg", "patch"}, p \in Pkg : t = <<s, p>>
        BY <1>2
    <2>1. CASE s \in Step
        <3>1. Prereqs(t) = (Normal(s, p) \X {p}) \cup OrderOnly(s, p)
            BY <2>1 DEF Prereqs, Step, InstallStep
        <3>2. CASE u \in Normal(s, p) \X {p}
            <4>1. u[1] \in Normal(s, p) /\ u[2] = p
                BY <3>2
            <4>2. /\ u[1] = "downloaded" => s = "extracted"
                  /\ u[1] = "extracted" => s = "patched"
                  /\ u[1] = "patched" => s = "configured" /\ p \notin Override
                  /\ u[1] # "rsynced"
                BY <2>1, <4>1 DEF Normal, Step, InstallStep
            <4> QED BY <4>1, <4>2
        <3>3. CASE u \in OrderOnly(s, p)
            <4>1. u[1] \in {"pkg", "patch"} \/ (p \in Override /\ u = <<"rsynced", p>>)
                BY <2>1, <3>3 DEF OrderOnly
            <4> QED BY <4>1
        <3> QED BY <3>1, <3>2, <3>3
    <2>2. CASE s \in Cleaning
        BY <2>2 DEF Prereqs, Step, InstallStep, Cleaning
    <2>3. CASE s = "pkg"
        <3>1. u[1] \in InstallStep
            BY <2>3, InstallsAssumption DEF Prereqs, Step, InstallStep
        <3> QED BY <3>1 DEF InstallStep
    <2>4. CASE s = "patch"
        BY <2>4 DEF Prereqs, Step, InstallStep
    <2> QED BY <2>1, <2>2, <2>3, <2>4
<1> QED BY <1>1, <1>2 DEF Target

\* What make turns to for a goal itself is no step.
LEMMA GoalsAreNoSteps == \A g \in Goal : \A i \in DOMAIN Expand(g) : Expand(g)[i][1] \notin Step
<1> SUFFICES ASSUME NEW g \in Goal, NEW i \in DOMAIN Expand(g) PROVE Expand(g)[i][1] \notin Step
    OBVIOUS
<1>1. Cleaning \cap Step = {} /\ "pkg" \notin Step /\ "all" \notin Step
    BY DEF Cleaning, Step, InstallStep
<1>2. CASE Cleans(g) /\ g[1] # "dirclean"
    BY <1>1, <1>2, GoalFacts
<1>3. CASE ~Cleans(g) \/ g[1] = "dirclean"
    <2>1. Expand(g)[i] = g
        BY <1>3, GoalFacts
    <2>2. g[1] \in {"pkg", "all", "dirclean"}
        BY <1>3, GoalFacts
    <2> QED BY <1>1, <2>1, <2>2 DEF Cleaning
<1> QED BY <1>2, <1>3

LEMMA NextGoalFacts ==
    ASSUME TypeOK, NextGoal
    PROVE  /\ UNCHANGED <<stamp, old, status, cmd, started, done, src, tree, bin, inst, image>>
           /\ stack' = stack \/ (Len(stack') = 1 /\ DOMAIN stack' = {1} /\ stack'[1][1] \notin Step)
           /\ stack = <<>> /\ OnStack = {} /\ \A t \in OnStack' : t[1] \notin Step
<1>1. stack = <<>> /\ OnStack = {} /\ goals # <<>> /\ Head(goals) \in Goal
    BY DEF NextGoal, OnStack, TypeOK
<1>2. CASE stack' = stack
    BY <1>1, <1>2 DEF NextGoal, disk, OnStack
<1>3. CASE stack' # stack
    <2>1. PICK i \in DOMAIN Expand(Head(goals)) : stack' = <<Expand(Head(goals))[i]>>
        BY <1>1, <1>3 DEF NextGoal
    <2>2. Expand(Head(goals))[i][1] \notin Step
        BY <1>1, GoalsAreNoSteps
    <2>3. DOMAIN stack' = {1} /\ stack'[1][1] \notin Step /\ Len(stack') = 1
        BY <2>1, <2>2
    <2>4. \A t \in OnStack' : t[1] \notin Step
        BY <2>3 DEF OnStack
    <2> QED BY <1>1, <2>3, <2>4 DEF NextGoal, disk
<1> QED BY <1>2, <1>3

LEMMA NextIsSources ==
    ASSUME TypeOK, Sources, [Next]_vars
    PROVE  Sources'
<1>1. CASE OnStack' \subseteq OnStack
    BY <1>1 DEF Sources
<1>2. CASE stack' = stack \/ stack' = <<>>
    BY <1>1, <1>2 DEF OnStack
<1>3. CASE Ready /\ Close
    BY <1>1, <1>3, CloseFacts
<1>4. CASE (\E p \in Pkg, s \in Step : Due(s, p) /\ Touch(s, p)) \/ \E p \in Pkg : Dirclean(p)
    BY <1>3, <1>4 DEF Due, Touch, Dirclean
<1>5. CASE Remove
    BY <1>2, <1>3, <1>5 DEF Remove
<1>6. CASE Finish \/ Stop \/ \E c \in Command : Invoke(c)
    BY <1>2, <1>6 DEF Finish, Stop, Invoke
<1>7. CASE NextGoal
    BY <1>7, NextGoalFacts DEF Sources, Step
<1>8. CASE Descend
    <2>1. Current \in OnStack /\ Current \in Target
        BY <1>8, DescendFacts
    <2>2. PICK u \in Prereqs(Current) : OnStack' = OnStack \cup {u}
        BY <1>8, DescendFacts
    <2>3. /\ u[1] \in {"downloaded", "extracted", "patched"} => u[2] \notin Override
          /\ u[1] = "rsynced" => u[2] \in Override
        BY <2>1, PrereqsOfSources DEF Sources
    <2> QED BY <2>2, <2>3 DEF Sources
<1> QED BY <1>2, <1>3, <1>4, <1>5, <1>6, <1>7, <1>8, Steps

\* The prerequisite a target is updated for is the one before it on the stack.
LEMMA NextIsDownloads ==
    ASSUME TypeOK, NotTwice, StackOfGoal, DownloadsToExtract, [Next]_vars
    PROVE  DownloadsToExtract'
<1>1. CASE UNCHANGED <<stack, done, stamp, old>>
    BY <1>1 DEF DownloadsToExtract, OnStack, UpToDate
<1>2. CASE stack' = <<>> /\ done' = {}
    BY <1>2 DEF DownloadsToExtract
<1>3. CASE UNCHANGED <<stamp, old, status, run, stack, done, line>>
    BY <1>1, <1>3
<1>4. CASE Finish \/ Stop \/ \E c \in Command : Invoke(c)
    BY <1>2, <1>4 DEF Finish, Stop, Invoke
<1>5. CASE NextGoal
    BY <1>1, <1>5, NextGoalFacts DEF DownloadsToExtract, Step, UpToDate
<1>6. CASE Descend
    <2>1. PICK u \in Prereqs(Current) \ (done \cup OnStack) : stack' = Append(stack, u)
        BY <1>6 DEF Descend
    <2>2. /\ Len(stack) \in Nat \ {0} /\ DOMAIN stack = 1..Len(stack) /\ DOMAIN stack' = 1..(Len(stack) + 1)
          /\ \A i \in 1..Len(stack) : stack'[i] = stack[i]
          /\ stack'[Len(stack) + 1] = u
        BY <1>6, <2>1 DEF Descend, TypeOK
    <2>3. /\ OnStack \subseteq OnStack' /\ UNCHANGED <<done, stamp, old>> /\ Current \in Target
        BY <1>6, DescendFacts
    <2>4. ASSUME NEW i \in DOMAIN stack', NEW p \in Pkg, stack'[i] = <<"downloaded", p>>
          PROVE  i > 1 /\ stack'[i - 1] = <<"extracted", p>>
        <3>1. CASE i \in 1..Len(stack)
            <4>1. i > 1 /\ stack[i - 1] = <<"extracted", p>>
                BY <2>2, <2>4, <3>1 DEF DownloadsToExtract
            <4> QED BY <2>2, <3>1, <4>1
        <3>2. CASE i = Len(stack) + 1
            <4>1. Current = <<"extracted", p>>
                BY <2>1, <2>2, <2>3, <2>4, <3>2, PrereqsOfSources
            <4> QED BY <2>2, <3>2, <4>1 DEF Current
        <3>3. i \in 1..Len(stack) \/ i = Len(stack) + 1
            BY <2>2
        <3> QED BY <3>1, <3>2, <3>3
    <2>5. \A p \in Pkg : <<"downloaded", p>> \in done' =>
              <<"extracted", p>> \in done' \/ (<<"extracted", p>> \in OnStack' /\ UpToDate("downloaded", p)')
        BY <2>3 DEF DownloadsToExtract, UpToDate
    <2> QED BY <2>4, <2>5 DEF DownloadsToExtract
<1>7. ASSUME Ready, Close,
             \A p \in Pkg :
                 UpToDate("downloaded", p) /\ Current[1] \notin Cleaning => UpToDate("downloaded", p)',
             \A p \in Pkg : Current = <<"downloaded", p>> => UpToDate("downloaded", p)'
      PROVE  DownloadsToExtract'
    <2>1. /\ Len(stack) \in Nat \ {0} /\ DOMAIN stack = 1..Len(stack) /\ DOMAIN stack' = 1..(Len(stack) - 1)
          /\ \A i \in 1..(Len(stack) - 1) : stack'[i] = stack[i]
        BY <1>7 DEF Ready, Close, TypeOK
    <2>2. ASSUME NEW i \in DOMAIN stack', NEW p \in Pkg, stack'[i] = <<"downloaded", p>>
          PROVE  i > 1 /\ stack'[i - 1] = <<"extracted", p>>
        <3>1. i \in DOMAIN stack /\ stack[i] = <<"downloaded", p>>
            BY <2>1, <2>2
        <3>2. i > 1 /\ stack[i - 1] = <<"extracted", p>>
            BY <3>1 DEF DownloadsToExtract
        <3> QED BY <2>1, <2>2, <3>2
    <2>3. ASSUME NEW p \in Pkg, <<"downloaded", p>> \in done', <<"extracted", p>> \notin done'
          PROVE  <<"extracted", p>> \in OnStack' /\ UpToDate("downloaded", p)'
        <3>1. done' = done \cup {Current}
            BY <1>7, CloseFacts
        <3>2. CASE Current = <<"downloaded", p>>
            <4>1. Len(stack) > 1 /\ stack[Len(stack) - 1] = <<"extracted", p>>
                BY <2>1, <3>2 DEF DownloadsToExtract, Current
            <4>2. Len(stack) - 1 \in DOMAIN stack'
                BY <2>1, <4>1
            <4> QED BY <1>7, <2>1, <3>2, <4>1, <4>2 DEF OnStack
        <3>3. CASE Current # <<"downloaded", p>>
            <4>1. <<"extracted", p>> \in OnStack /\ UpToDate("downloaded", p) /\ Current # <<"extracted", p>>
                BY <2>3, <3>1, <3>3 DEF DownloadsToExtract
            <4>2. PICK i \in DOMAIN stack : stack[i] = <<"extracted", p>>
                BY <4>1 DEF OnStack
            <4>3. i \in DOMAIN stack' /\ stack'[i] = <<"extracted", p>>
                BY <2>1, <4>1, <4>2 DEF Current
            <4>4. Current[1] \notin Cleaning
                <5>1. "extracted" \notin Cleaning /\ stack # <<>>
                    BY <2>1 DEF Cleaning
                <5>2. Current \in OnStack
                    BY <1>7, CloseFacts
                <5> QED BY <4>1, <5>1, <5>2 DEF StackOfGoal, Cleanings
            <4> QED BY <1>7, <4>1, <4>3, <4>4 DEF OnStack
        <3> QED BY <3>2, <3>3
    <2> QED BY <2>2, <2>3 DEF DownloadsToExtract
<1>8. CASE /\ Ready /\ Close /\ UNCHANGED <<stamp, old>>
           /\ Current[1] \in Step => UpToDate(Current[1], Current[2])
    BY <1>7, <1>8 DEF Step, UpToDate
<1>9. ASSUME NEW p \in Pkg, NEW s \in Step, Due(s, p), Touch(s, p)
      PROVE  DownloadsToExtract'
    <2>1. Ready /\ Close /\ Current = <<s, p>>
        BY <1>9 DEF Due, Touch
    <2>2. s \notin Normal("downloaded", p)
        BY DEF Normal, InstallStep
    <2>3. \A q \in Pkg : UpToDate("downloaded", q) \/ (s = "downloaded" /\ q = p) => UpToDate("downloaded", q)'
        BY <1>9, <2>2 DEF Touch, UpToDate, TypeOK
    <2> QED BY <1>7, <2>1, <2>3
<1>10. CASE Remove
    <2>1. Ready /\ Current[1] \in Cleaning
        BY <1>10 DEF Remove
    <2>2. CASE Close
        BY <1>7, <2>1, <2>2 DEF Cleaning
    <2>3. CASE UNCHANGED <<stack, done>>
        <3>1. Current \in OnStack /\ stack # <<>> /\ "extracted" \notin Cleaning
            <4>1. Len(stack) \in DOMAIN stack
                BY <2>1 DEF Ready, TypeOK
            <4> QED BY <2>1, <4>1 DEF Current, OnStack, Ready, Cleaning
        <3>2. \A p \in Pkg : <<"extracted", p>> \notin OnStack
            BY <2>1, <3>1 DEF StackOfGoal, Cleanings
        <3> QED BY <2>3, <3>2 DEF DownloadsToExtract, OnStack
    <2> QED BY <1>10, <2>2, <2>3 DEF Remove
<1>11. ASSUME NEW p \in Pkg, Dirclean(p)
       PROVE  DownloadsToExtract'
    BY <1>7, <1>11 DEF Dirclean, Cleaning
<1> QED BY <1>3, <1>4, <1>5, <1>6, <1>8, <1>9, <1>10, <1>11, Steps

TreeIsExtracted ==
    \A p \in Pkg \ Override : tree[p] # 0 => UpToDate("extracted", p) /\ UpToDate("downloaded", p)

LEMMA TouchKeepsExtracted ==
    ASSUME TypeOK, TreeIsExtracted, NEW p \in Pkg, NEW s \in Step, Due(s, p), Touch(s, p),
           s # "extracted", tree' = tree
    PROVE  TreeIsExtracted'
<1> SUFFICES ASSUME NEW q \in Pkg \ Override, tree[q] # 0
             PROVE  UpToDate("extracted", q)' /\ UpToDate("downloaded", q)'
    BY DEF TreeIsExtracted
<1>1. UpToDate("extracted", q) /\ UpToDate("downloaded", q)
    BY DEF TreeIsExtracted
<1>2. q = p => s # "downloaded"
    BY <1>1 DEF Due
<1>3. "downloaded" \notin {s} \/ q # p
    BY <1>2
<1>4. Normal("extracted", q) = {"downloaded"} /\ Normal("downloaded", q) = {}
    BY DEF Normal, InstallStep
<1>5. /\ stamp'[q] = IF q = p THEN stamp[q] \cup {s} ELSE stamp[q]
      /\ old'[q] = IF q = p THEN (old[q] \ {s}) \cup {d \in stamp[q] : s \in Normal(d, q)} ELSE old[q]
    BY DEF Touch, TypeOK
<1> QED BY <1>1, <1>2, <1>4, <1>5 DEF UpToDate

LEMMA NextIsExtracted ==
    ASSUME TypeOK, NothingDropped, NotTwice, Sources, DownloadsToExtract, TreeIsExtracted, [Next]_vars
    PROVE  TreeIsExtracted'
<1>1. CASE UNCHANGED <<stamp, old>> /\ \A p \in Pkg \ Override : tree[p] = 0 => tree'[p] = 0
    BY <1>1 DEF TreeIsExtracted, UpToDate
<1>2. CASE UNCHANGED vars \/ NextGoal \/ Finish \/ Descend \/ Skip \/ Rootfs \/ \E c \in Command : Invoke(c)
    BY <1>1, <1>2 DEF vars, disk, NextGoal, Finish, Descend, Skip, Rootfs, Invoke
<1>3. ASSUME NEW p \in Pkg, NEW rest \in SUBSET stamp[p], Wipe(p, rest)
      PROVE  TreeIsExtracted'
    BY <1>3 DEF Wipe, TreeIsExtracted, UpToDate, TypeOK
<1>4. CASE Stop
    <2>1. CASE UNCHANGED <<disk, src>>
        BY <1>1, <2>1 DEF disk
    <2>2. CASE Ready /\ Spoil(Current) /\ Current[1] = "dirclean"
        <3>1. Current[2] \in Pkg
            BY <2>2, StackTop DEF Target
        <3>2. \E rest \in SUBSET stamp[Current[2]] : Wipe(Current[2], rest)
            BY <2>2 DEF Spoil, InstallStep
        <3> QED BY <1>3, <3>1, <3>2
    <2>3. CASE Ready /\ Spoil(Current) /\ Current[1] # "dirclean"
        <3>1. UNCHANGED <<stamp, old>>
            BY <2>3 DEF Spoil, disk
        <3>2. tree' = tree \/ tree' = [tree EXCEPT ![Current[2]] = 0]
            BY <2>3 DEF Spoil, disk, InstallStep
        <3> QED BY <1>1, <3>1, <3>2 DEF TypeOK
    <2> QED BY <1>4, <2>1, <2>2, <2>3 DEF Stop
<1>5. CASE Fail
    BY <1>4, <1>5 DEF Fail
<1>6. ASSUME NEW p \in Pkg, Edit(p)
      PROVE  TreeIsExtracted'
    BY <1>1, <1>6 DEF Edit, TypeOK
<1>7. CASE Remove
    <2>1. CASE UNCHANGED <<stamp, old>>
        BY <1>1, <1>7, <2>1 DEF Remove
    <2>2. CASE line < Len(Removes(Current))
        <3> DEFINE p == Current[2]
                   x == Removes(Current)[line + 1]
        <3>1. Ready /\ Current[1] \in Cleaning \ {"dirclean"} /\ tree' = tree
            BY <1>7 DEF Remove
        <3>2. p \in Pkg /\ Current = <<Current[1], p>>
            BY <3>1, StackTop, CleaningIsOfPackage
        <3>3. line + 1 \in DOMAIN Removes(Current)
            BY <2>2, <3>1, <3>2, RemovesFacts DEF TypeOK
        <3>4. x \in Removed(Current[1], p)
            BY <3>2, <3>3 DEF Removed
        <3>5. x \notin {"extracted", "downloaded"}
            BY <3>1, <3>2, <3>4, RemovesFacts DEF Cleaning, InstallStep
        <3>6. stamp' = [stamp EXCEPT ![p] = @ \ {x}] /\ old' = [old EXCEPT ![p] = @ \ {x}]
            BY <1>7, <2>2 DEF Remove
        <3> HIDE DEF x
        <3> QED BY <3>1, <3>2, <3>5, <3>6 DEF TreeIsExtracted, UpToDate, TypeOK
    <2> QED BY <1>7, <2>1, <2>2 DEF Remove
<1>8. ASSUME NEW p \in Pkg, PkgStep(p)
      PROVE  TreeIsExtracted'
    <2>1. CASE Download(p)
        BY <2>1, TouchKeepsExtracted DEF Download, Step
    <2>2. CASE Build(p)
        BY <2>2, TouchKeepsExtracted DEF Build, Step
    <2>3. ASSUME NEW s \in Step, Prepare(s, p) PROVE TreeIsExtracted'
        BY <2>3, TouchKeepsExtracted DEF Prepare
    <2>4. ASSUME NEW s \in Step, Install(s, p) PROVE TreeIsExtracted'
        BY <2>4, TouchKeepsExtracted DEF Install, InstallStep
    <2>5. CASE Dirclean(p)
        BY <1>3, <2>5 DEF Dirclean
    <2>6. CASE Rsync(p)
        <3>1. Ready /\ Current = <<"rsynced", p>>
            BY <2>6 DEF Rsync, Due
        <3>2. p \in Override
            BY <3>1, StackTop DEF Sources
        <3>3. \A q \in Pkg \ Override : stamp'[q] = stamp[q] /\ old'[q] = old[q] /\ tree'[q] = tree[q]
            BY <2>6, <3>2 DEF Rsync, Touch, TypeOK
        <3> QED BY <3>3 DEF TreeIsExtracted, UpToDate
    <2>7. CASE Extract(p)
        <3>1. Ready /\ Current = <<"extracted", p>> /\ Touch("extracted", p) /\ tree' = [tree EXCEPT ![p] = 1]
            BY <2>7 DEF Extract, Due
        <3>2. Prereqs(<<"extracted", p>>) = {<<"downloaded", p>>}
            <4>1. Normal("extracted", p) = {"downloaded"} /\ OrderOnly("extracted", p) = {}
                BY DEF Normal, OrderOnly
            <4>2. Prereqs(<<"extracted", p>>) = (Normal("extracted", p) \X {p}) \cup OrderOnly("extracted", p)
                BY DEF Prereqs, Step
            <4> QED BY <4>1, <4>2
        <3>3. UpToDate("downloaded", p)
            BY <3>1, <3>2, StackTop, ReadyFacts DEF DownloadsToExtract
        <3>4. "extracted" \notin Normal("extracted", p) /\ "extracted" \notin Normal("downloaded", p)
            BY DEF Normal, InstallStep
        <3>5. \A q \in Pkg : /\ stamp'[q] = IF q = p THEN stamp[q] \cup {"extracted"} ELSE stamp[q]
                             /\ old'[q] = IF q = p THEN (old[q] \ {"extracted"})
                                                        \cup {d \in stamp[q] : "extracted" \in Normal(d, q)}
                                          ELSE old[q]
                             /\ q # p => tree'[q] = tree[q]
            BY <3>1 DEF Touch, TypeOK
        <3>6. UpToDate("extracted", p)' /\ UpToDate("downloaded", p)'
            BY <3>3, <3>4, <3>5 DEF UpToDate
        <3>7. \A q \in Pkg \ Override :
                  q # p /\ tree'[q] # 0 => UpToDate("extracted", q)' /\ UpToDate("downloaded", q)'
            BY <3>5 DEF TreeIsExtracted, UpToDate
        <3> QED BY <3>6, <3>7 DEF TreeIsExtracted
    <2> QED BY <1>8, <2>1, <2>2, <2>3, <2>4, <2>5, <2>6, <2>7 DEF PkgStep
<1> QED BY <1>2, <1>4, <1>5, <1>6, <1>7, <1>8 DEF Next, Make

Redo(p) == \E i \in DOMAIN cmd : cmd[i] \in {<<"rebuild", p>>, <<"reconfigure", p>>}

\* What is rebuilt is cleaned before make turns to any other target of it.
LEMMA RedoCleaned ==
    ASSUME TypeOK, DoneInOrder, GoalsLeft, StackOfGoal, CleaningAhead, CleansFirst(cmd), Running,
           NEW p \in Pkg, Redo(p), NEW t \in done \cup OnStack, t[2] = p, t[1] \notin Cleaning
    PROVE  <<"clean-for-rebuild", p>> \in done /\ <<"clean-for-reinstall", p>> \in done
<1>1. PICK i \in DOMAIN cmd : cmd[i] \in {<<"rebuild", p>>, <<"reconfigure", p>>}
    BY DEF Redo
<1> DEFINE ts == Expand(cmd[i])
<1>2. /\ cmd[i] \in Goal /\ Cleans(cmd[i]) /\ cmd[i][2] = p
      /\ 1 \in DOMAIN ts /\ ts[1] \in {<<"clean-for-rebuild", p>>, <<"clean-for-reconfigure", p>>}
    BY <1>1 DEF Goal, Cleans, Expand
<1>3. /\ Prereqs(<<"clean-for-reconfigure", p>>) = {<<"clean-for-rebuild", p>>}
      /\ Prereqs(<<"clean-for-rebuild", p>>) = {<<"clean-for-reinstall", p>>}
    BY DEF Prereqs, Step, InstallStep
<1>4. CASE ts[1] \in done
    BY <1>2, <1>3, <1>4 DEF DoneInOrder
<1>5. CASE ts[1] \notin done
    <2>1. PICK j \in DOMAIN goals : goals[j] = cmd[i]
        BY <1>2, <1>5 DEF GoalsLeft
    <2>2. goals # <<>> /\ 1 \in DOMAIN goals /\ goals[1] \in Goal /\ (j = 1 \/ j > 1)
        BY <2>1 DEF TypeOK
    <2>3. Untouched(goals[j])
        BY <1>2, <1>5, <2>1, <2>2 DEF CleaningAhead
    <2>4. t \in OnStack /\ stack # <<>>
        BY <1>2, <2>1, <2>3 DEF Untouched, OnStack
    <2>5. Of(goals[1], t)
        BY <2>4 DEF StackOfGoal
    <2>6. CASE j > 1
        <3>1. p \notin Along(goals[1])
            BY <1>2, <2>1, <2>2, <2>6 DEF CleaningAhead, CleansFirst
        <3> QED BY <2>5, <3>1, WorldAssumption DEF Of
    <2>7. CASE j = 1
        <3>1. Cleans(goals[1]) /\ Expand(goals[1])[1] \notin done
            BY <1>2, <1>5, <2>1, <2>7
        <3>2. Cleanings(goals[1], OnStack)
            BY <2>4, <3>1 DEF StackOfGoal
        <3> QED BY <2>4, <3>2 DEF Cleanings
    <2> QED BY <2>2, <2>6, <2>7
<1> QED BY <1>4, <1>5

\* So its sources are synchronised, it is compiled and installed once more.
LEMMA RedoNotSkipped ==
    ASSUME TypeOK, DoneInOrder, NotTwice, GoalsLeft, StackOfGoal, CleaningAhead, CleanedIsMissing, Sources,
           CleansFirst(cmd), Ready, NEW p \in Pkg, Redo(p),
           NEW s \in {"rsynced", "built"} \cup InstallStep, Current = <<s, p>>
    PROVE  ~UpToDate(s, p)
<1>1. Current \in OnStack /\ Current \notin done /\ Running
    BY StackTop DEF Ready
<1>2. s \notin Cleaning /\ s \in Step
    BY DEF Cleaning, Step, InstallStep
<1>3. <<"clean-for-rebuild", p>> \in done /\ <<"clean-for-reinstall", p>> \in done
    BY <1>1, <1>2, RedoCleaned
<1>4. "clean-for-rebuild" \in Cleaning \ {"dirclean"} /\ "clean-for-reinstall" \in Cleaning \ {"dirclean"}
    BY DEF Cleaning
<1>5. s = "rsynced" => p \in Override
    BY <1>1 DEF Sources
<1>6. s \in Removed("clean-for-rebuild", p) \/ s \in Removed("clean-for-reinstall", p)
    BY <1>4, <1>5, RemovesFacts
<1> QED BY <1>1, <1>3, <1>4, <1>6 DEF CleanedIsMissing, UpToDate

\* No build directory is removed after its package was rebuilt, or before.
LEMMA RedoNoDirclean ==
    ASSUME TypeOK, NotTwice, GoalsLeft, StackOfGoal, CleaningAhead, CleansFirst(cmd), Ready,
           NEW p \in Pkg, Redo(p)
    PROVE  Current # <<"dirclean", p>>
<1> SUFFICES ASSUME Current = <<"dirclean", p>> PROVE FALSE
    OBVIOUS
<1>1. goals # <<>> /\ goals[1][1] = "dirclean" /\ goals[1][2] = p
    BY CleansBeforeSteps DEF Cleaning
<1>2. 1 \in DOMAIN goals
    BY <1>1 DEF TypeOK
<1>3. PICK i \in DOMAIN cmd : cmd[i] = goals[1]
    BY <1>2 DEF GoalsLeft
<1>4. PICK k \in DOMAIN cmd : cmd[k] \in {<<"rebuild", p>>, <<"reconfigure", p>>}
    BY DEF Redo
<1>5. i \in Nat /\ k \in Nat /\ i # k /\ cmd[i] \in Goal /\ cmd[k] \in Goal
    BY <1>1, <1>3, <1>4 DEF TypeOK
<1>6. Cleans(cmd[i]) /\ Cleans(cmd[k]) /\ cmd[i][2] = p /\ cmd[k][2] = p
    BY <1>1, <1>3, <1>4 DEF Cleans
<1>7. p \in Along(cmd[i]) /\ p \in Along(cmd[k])
    BY <1>5, <1>6, AlongHasRoot DEF Cleans
<1>8. i < k \/ k < i
    BY <1>5
<1> QED BY <1>6, <1>7, <1>8 DEF CleansFirst

\* When the image is generated, what is rebuilt is installed.
LEMMA RedoBeforeImage ==
    ASSUME TypeOK, DoneInOrder, GoalsLeft, StackOfGoal, CleaningAhead, CleansFirst(cmd), Ready,
           Current[1] = "rootfs", NEW p \in Pkg, Redo(p), "target" \in Installs[p]
    PROVE  <<"target", p>> \in done
<1>1. stack # <<>> /\ Current \in OnStack /\ Current \in Target /\ Running
    BY StackTop DEF Ready
<1>2. Current[2] = World
    BY <1>1 DEF Target, Step, InstallStep, Cleaning
<1>3. goals # <<>> /\ 1 \in DOMAIN goals /\ goals[1] \in Goal /\ Of(goals[1], Current)
    BY <1>1 DEF StackOfGoal, TypeOK
<1>4. goals[1][1] = "all"
    BY <1>2, <1>3, AlongHasRoot, WorldAssumption DEF Of
<1>5. PICK i \in DOMAIN cmd : cmd[i] \in {<<"rebuild", p>>, <<"reconfigure", p>>}
    BY DEF Redo
<1>6. /\ cmd[i] \in Goal /\ Cleans(cmd[i]) /\ cmd[i][2] = p /\ cmd[i][1] # "all"
      /\ 2 \in DOMAIN Expand(cmd[i]) /\ Expand(cmd[i])[2] = <<"pkg", p>>
    BY <1>5 DEF Goal, Cleans, Expand
<1>7. <<"pkg", p>> \in done
    <2>1. CASE \E j \in DOMAIN goals : goals[j] = cmd[i]
        <3>1. PICK j \in DOMAIN goals : goals[j] = cmd[i]
            BY <2>1
        <3>2. j > 1
            BY <1>3, <1>4, <1>6, <3>1 DEF TypeOK
        <3>3. p \notin Along(goals[1])
            BY <1>3, <1>6, <3>1, <3>2 DEF CleaningAhead, CleansFirst
        <3> QED BY <1>4, <3>3 DEF Along
    <2>2. CASE \A k \in DOMAIN Expand(cmd[i]) : Expand(cmd[i])[k] \in done
        BY <1>6, <2>2
    <2> QED BY <1>1, <2>1, <2>2 DEF GoalsLeft
<1>8. "target" \in StepsOf(p)
    BY DEF StepsOf
<1> QED BY <1>7, <1>8, StepsAreDone

\* What make has redone of p is as new as the sources the command line found.
Since(p) ==
    /\ p \notin Override \/ <<"rsynced", p>> \in done => tree[p] >= started[p]
    /\ <<"built", p>> \in done => bin[p] >= started[p]
    /\ <<"target", p>> \in done => inst[p]["target"] >= started[p]
    /\ <<"rootfs", World>> \in done /\ "target" \in Installs[p] => image[p] >= started[p]

RedoneSince ==
    Running /\ CleansFirst(cmd) => \A p \in Pkg :
        /\ p \in Override => src[p] >= started[p]
        /\ Redo(p) => Since(p)

\* The invariants the step relies on
RedoInv ==
    /\ DoneInOrder /\ NotTwice /\ GoalsLeft /\ StackOfGoal /\ CleaningAhead /\ CleanedIsMissing
    /\ Sources /\ TreeIsExtracted

\* While make runs, its command line stays and sources only get newer.
LEMMA WhileRunning ==
    ASSUME TypeOK, [Next]_vars, Running'
    PROVE  \/ \E c \in Command : Invoke(c)
           \/ /\ Running /\ UNCHANGED <<cmd, started>>
              /\ \A p \in Pkg : src'[p] >= src[p]
<1>1. \A p \in Pkg : src[p] \in Int
    BY DEF TypeOK, Version
<1>2. CASE src' = src /\ Running /\ UNCHANGED <<cmd, started>>
    BY <1>1, <1>2
<1>3. CASE \E p \in Pkg : Edit(p)
    <2>1. Running /\ UNCHANGED <<cmd, started>>
        BY <1>3 DEF Edit, run, Running
    <2>2. PICK q \in Pkg : src' = src \/ src' = [src EXCEPT ![q] = src[q] + 1]
        BY <1>3 DEF Edit
    <2>3. \A p \in Pkg : src'[p] = src[p] \/ src'[p] = src[p] + 1
        BY <2>2 DEF TypeOK
    <2>4. \A p \in Pkg : src'[p] >= src[p]
        BY <1>1, <2>3
    <2> QED BY <2>1, <2>4
<1>4. CASE Skip \/ Remove \/ Rootfs \/ NextGoal \/ Descend \/ UNCHANGED vars
    BY <1>2, <1>4 DEF Skip, Remove, Rootfs, NextGoal, Descend, vars, disk, run, Close, Running
<1>5. CASE \E p \in Pkg : PkgStep(p)
    BY <1>2, <1>5 DEF PkgStep, Download, Extract, Rsync, Prepare, Build, Install, Dirclean, Touch, Wipe, Close,
                      run, Running, Due, Ready
<1>6. CASE Finish \/ Stop \/ Fail
    BY <1>6 DEF Finish, Stop, Fail, Running
<1> QED BY <1>3, <1>4, <1>5, <1>6 DEF Next, Make

LEMMA BuiltIsSynchronised ==
    ASSUME DoneInOrder, NEW p \in Override, p \in Pkg, Prereqs(<<"built", p>>) \subseteq done
    PROVE  <<"rsynced", p>> \in done
<1>1. Prereqs(<<"built", p>>) = (Normal("built", p) \X {p}) \cup OrderOnly("built", p)
    BY DEF Prereqs, Step
<1>2. <<"configured", p>> \in done
    BY <1>1 DEF Normal, InstallStep
<1>3. Prereqs(<<"configured", p>>) = (Normal("configured", p) \X {p}) \cup OrderOnly("configured", p)
    BY DEF Prereqs, Step
<1>4. <<"rsynced", p>> \in OrderOnly("configured", p)
    BY DEF OrderOnly
<1> QED BY <1>2, <1>3, <1>4 DEF DoneInOrder

LEMMA RecipeIsSince ==
    ASSUME TypeOK, NothingDropped, RedoInv, CleansFirst(cmd), NEW q \in Pkg, PkgStep(q), UNCHANGED started,
           NEW p \in Pkg, Redo(p), Since(p), p \in Override => src[p] >= started[p]
    PROVE  Since(p)'
<1>1. Ready /\ done' = done \cup {Current} /\ Current[2] = q
    BY CloseFacts DEF PkgStep, Download, Extract, Rsync, Prepare, Build, Install, Dirclean, Touch, Due
<1>2. /\ src[p] \in Int /\ tree[p] \in Int /\ bin[p] \in Int /\ inst[p]["target"] \in Int /\ image[p] \in Int
      /\ started[p] \in Nat
    BY DEF TypeOK, Version, InstallStep
<1>3. CASE /\ tree'[p] = tree[p] /\ bin'[p] = bin[p] /\ inst'[p]["target"] = inst[p]["target"] /\ image' = image
           /\ Current \notin {<<"rsynced", p>>, <<"built", p>>, <<"target", p>>, <<"rootfs", World>>}
    BY <1>1, <1>3 DEF Since
<1>4. Current # <<"rootfs", World>>
    BY <1>1, WorldAssumption
<1>5. CASE q # p
    <2>1. /\ tree'[p] = tree[p] /\ bin'[p] = bin[p] /\ inst'[p]["target"] = inst[p]["target"] /\ image' = image
        BY <1>5 DEF PkgStep, Download, Extract, Rsync, Prepare, Build, Install, Dirclean, Touch, Wipe, TypeOK
    <2> QED BY <1>1, <1>3, <1>4, <1>5, <2>1
<1> SUFFICES ASSUME q = p PROVE Since(p)'
    BY <1>5
<1>6. CASE Download(p) \/ \E s \in Step : Prepare(s, p)
    <2>1. /\ UNCHANGED <<tree, bin, inst, image>>
          /\ Current \in {<<"downloaded", p>>, <<"patched", p>>, <<"configured", p>>}
        BY <1>6 DEF Download, Prepare, Touch, Due
    <2> QED BY <1>3, <1>4, <2>1
<1>7. CASE Extract(p)
    <2>1. /\ UNCHANGED <<bin, inst, image>> /\ Current = <<"extracted", p>> /\ tree'[p] = 1
          /\ ~UpToDate("extracted", p)
        BY <1>7 DEF Extract, Touch, Due, TypeOK
    <2>2. p \notin Override /\ tree[p] = 0
        BY <1>1, <2>1, StackTop DEF RedoInv, Sources, TreeIsExtracted
    <2>3. tree'[p] >= started[p]
        BY <1>2, <2>1, <2>2 DEF Since
    <2> QED BY <1>1, <2>1, <2>2, <2>3 DEF Since
<1>8. CASE Rsync(p)
    <2>1. UNCHANGED <<bin, inst, image>> /\ Current = <<"rsynced", p>> /\ tree'[p] = src[p]
        BY <1>8 DEF Rsync, Touch, Due, TypeOK
    <2>2. p \in Override
        BY <1>1, <2>1, StackTop DEF RedoInv, Sources
    <2> QED BY <1>1, <2>1, <2>2 DEF Since
<1>9. CASE Build(p)
    <2>1. UNCHANGED <<tree, inst, image>> /\ Current = <<"built", p>> /\ bin'[p] = tree[p]
        BY <1>9 DEF Build, Touch, Due, TypeOK
    <2>2. p \in Override => <<"rsynced", p>> \in done
        BY <1>1, <2>1, BuiltIsSynchronised, ReadyFacts DEF RedoInv
    <2>3. tree[p] >= started[p]
        BY <2>2 DEF Since
    <2> QED BY <1>1, <2>1, <2>3 DEF Since
<1>10. ASSUME NEW s \in Step, Install(s, p)
       PROVE  Since(p)'
    <2>1. /\ UNCHANGED <<tree, bin, image>> /\ Current = <<s, p>> /\ s \in InstallStep
          /\ inst'[p] = [inst[p] EXCEPT ![s] = bin[p]]
        BY <1>10 DEF Install, Touch, Due, TypeOK
    <2>2. CASE s # "target"
        <3>1. inst'[p]["target"] = inst[p]["target"]
            BY <2>1, <2>2 DEF TypeOK
        <3>2. s # "rsynced" /\ s # "built"
            BY <2>1 DEF InstallStep
        <3> QED BY <1>3, <1>4, <2>1, <2>2, <3>1, <3>2
    <2>3. CASE s = "target"
        <3>1. inst'[p]["target"] = bin[p]
            BY <2>1, <2>3 DEF TypeOK, InstallStep
        <3>2. <<"built", p>> \in done
            <4>1. Prereqs(<<"target", p>>) = (Normal("target", p) \X {p}) \cup OrderOnly("target", p)
                BY DEF Prereqs, Step, InstallStep
            <4>2. "built" \in Normal("target", p)
                BY DEF Normal
            <4> QED BY <1>1, <2>1, <2>3, <4>1, <4>2, ReadyFacts
        <3> QED BY <1>1, <2>1, <2>3, <3>1, <3>2 DEF Since
    <2> QED BY <2>2, <2>3
<1>11. CASE Dirclean(p)
    BY <1>1, <1>11, RedoNoDirclean DEF Dirclean, RedoInv
<1> QED BY <1>6, <1>7, <1>8, <1>9, <1>10, <1>11 DEF PkgStep

LEMMA NextIsRedoneSince ==
    ASSUME TypeOK, TypeOK', NothingDropped, RedoInv, RedoneSince, [Next]_vars
    PROVE  RedoneSince'
<1> SUFFICES ASSUME Running', CleansFirst(cmd'), NEW p \in Pkg
             PROVE  /\ p \in Override => src'[p] >= started'[p]
                    /\ Redo(p)' => Since(p)'
    BY DEF RedoneSince
<1>0. /\ src[p] \in Int /\ src'[p] \in Int /\ tree[p] \in Int /\ started[p] \in Int
    BY DEF TypeOK, Version
<1>1. CASE \E c \in Command : Invoke(c)
    <2>1. UNCHANGED <<src, tree>> /\ done' = {} /\ started'[p] = IF p \in Override THEN src[p] ELSE tree[p]
        BY <1>1 DEF Invoke, disk
    <2> QED BY <1>0, <2>1 DEF Since
<1>2. CASE Running /\ UNCHANGED <<cmd, started>> /\ src'[p] >= src[p]
    <2>1. p \in Override => src[p] >= started[p]
        BY <1>2 DEF RedoneSince
    <2>2. p \in Override => src'[p] >= started'[p]
        BY <1>0, <1>2, <2>1
    <2> SUFFICES ASSUME Redo(p) PROVE Since(p)'
        BY <1>2, <2>2 DEF Redo
    <2>3. Since(p)
        BY <1>2 DEF RedoneSince
    <2>4. CASE UNCHANGED <<inst, bin, image, done>> /\ tree'[p] = tree[p]
        BY <1>2, <2>3, <2>4 DEF Since
    <2>5. CASE UNCHANGED vars \/ NextGoal \/ Descend \/ \E q \in Pkg : Edit(q)
        BY <1>2, <2>4, <2>5 DEF vars, disk, NextGoal, Descend, Edit, TypeOK
    <2>6. CASE Skip
        <3>1. /\ Ready /\ done' = done \cup {Current} /\ UNCHANGED <<tree, bin, inst, image>>
              /\ Current[1] \in Step => UpToDate(Current[1], Current[2])
              /\ Current[1] # "rootfs"
            BY <2>6, CloseFacts DEF Skip, disk, Step, InstallStep
        <3>2. \A s \in {"rsynced", "built"} \cup InstallStep : Current # <<s, p>>
            BY <1>2, <3>1, RedoNotSkipped DEF RedoInv, Step
        <3>3. Current \notin {<<"rsynced", p>>, <<"built", p>>, <<"target", p>>, <<"rootfs", World>>}
            BY <3>1, <3>2 DEF InstallStep
        <3> QED BY <1>2, <2>3, <3>1, <3>3 DEF Since
    <2>7. CASE Remove
        <3>1. /\ UNCHANGED <<tree, bin, inst, image>> /\ Ready /\ Current[1] \in Cleaning
              /\ done' = done \/ Close
            BY <2>7 DEF Remove
        <3>2. done' = done \/ done' = done \cup {Current}
            BY <3>1, CloseFacts
        <3>3. Current \notin {<<"rsynced", p>>, <<"built", p>>, <<"target", p>>, <<"rootfs", World>>}
            BY <3>1 DEF Cleaning
        <3> QED BY <1>2, <2>3, <3>1, <3>2, <3>3 DEF Since
    <2>8. CASE Rootfs
        <3>1. /\ Ready /\ Current[1] = "rootfs" /\ done' = done \cup {Current} /\ UNCHANGED <<tree, bin, inst>>
              /\ image'[p] = inst[p]["target"]
            BY <2>8, CloseFacts DEF Rootfs
        <3>2. "target" \in Installs[p] => <<"target", p>> \in done
            BY <1>2, <3>1, RedoBeforeImage DEF RedoInv
        <3> QED BY <1>2, <2>3, <3>1, <3>2 DEF Since
    <2>9. CASE \E q \in Pkg : PkgStep(q)
        BY <1>2, <2>1, <2>3, <2>9, RecipeIsSince
    <2>10. CASE Finish \/ Stop \/ Fail \/ \E c \in Command : Invoke(c)
        BY <1>2, <2>10 DEF Finish, Stop, Fail, Invoke, Running
    <2> QED BY <2>5, <2>6, <2>7, <2>8, <2>9, <2>10 DEF Next, Make
<1> QED BY <1>1, <1>2, WhileRunning

SeenAfterCleansFirst == CleansFirst(cmd) => RebuildReachesImage

LEMMA NextIsSeen ==
    ASSUME TypeOK, DoneInOrder, LastGoalDone, GoalsLeft, RedoneSince, SeenAfterCleansFirst, [Next]_vars
    PROVE  SeenAfterCleansFirst'
<1> SUFFICES ASSUME CleansFirst(cmd'), status' = "succeeded", EndsWithAll', NEW i \in DOMAIN cmd',
                    cmd'[i][1] \in {"rebuild", "reconfigure"}, "target" \in Installs[cmd'[i][2]]
             PROVE  image'[cmd'[i][2]] >= started'[cmd'[i][2]]
    BY DEF SeenAfterCleansFirst, RebuildReachesImage
<1>1. CASE Finish
    <2>1. UNCHANGED <<image, started, cmd>> /\ Running /\ goals = <<>>
        BY <1>1 DEF Finish, disk, run
    <2>2. EndsWithAll
        BY <2>1 DEF EndsWithAll
    <2>3. <<"rootfs", World>> \in done
        BY <2>1, <2>2, AllLeavesImage
    <2>4. cmd[i] \in Goal
        BY <2>1 DEF TypeOK
    <2>5. PICK p \in Pkg : p = cmd[i][2] /\ Redo(p)
        BY <2>1, <2>4 DEF Goal, Redo
    <2> QED BY <2>1, <2>3, <2>5 DEF RedoneSince, Since
<1>2. CASE status = "succeeded" /\ UNCHANGED <<image, run>>
    BY <1>2 DEF SeenAfterCleansFirst, RebuildReachesImage, EndsWithAll, run
<1> QED BY <1>1, <1>2, SuccessSteps

(***************************************************************************)
(* "make <pkg>-rebuild all" puts into the image the sources the developer  *)
(* had when typing it, or later ones, whatever failed or was interrupted   *)
(* before (<pkg>-clean-for-rebuild and <pkg>-rsync in package/pkg-         *)
(* generic.mk, the root filesystem rules in fs/common.mk).                 *)
(***************************************************************************)
THEOREM RebuildIsSeen == Spec => [](CleansFirst(cmd) => RebuildReachesImage)
<1>1. Init => /\ DoneInOrder /\ NotTwice /\ LastGoalDone /\ GoalsLeft /\ StackOfGoal /\ CleaningAhead
              /\ LineRemoved /\ CleanedIsMissing /\ Sources /\ DownloadsToExtract /\ TreeIsExtracted
              /\ RedoneSince /\ SeenAfterCleansFirst
    BY DEF Init, DoneInOrder, NotTwice, LastGoalDone, GoalsLeft, StackOfGoal, CleaningAhead, CleansFirst,
           LineRemoved, CleanedIsMissing, Sources, DownloadsToExtract, TreeIsExtracted, RedoneSince,
           SeenAfterCleansFirst, RebuildReachesImage, Running, OnStack
<1>2. TypeOK /\ StampsHonest /\ DoneInOrder /\ NothingDropped /\ [Next]_vars => DoneInOrder'
    BY NextIsInOrder
<1>3. TypeOK /\ NotTwice /\ [Next]_vars => NotTwice'
    BY NextIsNotTwice
<1>4. TypeOK /\ LastGoalDone /\ [Next]_vars => LastGoalDone'
    BY NextIsLastGoal
<1>5. TypeOK /\ GoalsLeft /\ [Next]_vars => GoalsLeft'
    BY NextIsGoalsLeft
<1>6. TypeOK /\ NotTwice /\ StackOfGoal /\ [Next]_vars => StackOfGoal'
    BY NextIsStackOfGoal
<1>7. TypeOK /\ NotTwice /\ StackOfGoal /\ CleaningAhead /\ [Next]_vars => CleaningAhead'
    BY NextIsCleaningAhead
<1>8. TypeOK /\ LineRemoved /\ [Next]_vars => LineRemoved'
    BY NextIsLineRemoved
<1>9. TypeOK /\ LineRemoved /\ CleanedIsMissing /\ [Next]_vars => CleanedIsMissing'
    BY NextIsMissing
<1>10. TypeOK /\ Sources /\ [Next]_vars => Sources'
    BY NextIsSources
<1>11. TypeOK /\ NotTwice /\ StackOfGoal /\ DownloadsToExtract /\ [Next]_vars => DownloadsToExtract'
    BY NextIsDownloads
<1>12. /\ TypeOK /\ NothingDropped /\ NotTwice /\ Sources /\ DownloadsToExtract /\ TreeIsExtracted
       /\ [Next]_vars
       => TreeIsExtracted'
    BY NextIsExtracted
<1>13. TypeOK /\ TypeOK' /\ NothingDropped /\ RedoInv /\ RedoneSince /\ [Next]_vars => RedoneSince'
    BY NextIsRedoneSince
<1>14. TypeOK /\ DoneInOrder /\ LastGoalDone /\ GoalsLeft /\ RedoneSince /\ SeenAfterCleansFirst /\ [Next]_vars
       => SeenAfterCleansFirst'
    BY NextIsSeen
<1>15. RedoInv <=> /\ DoneInOrder /\ NotTwice /\ GoalsLeft /\ StackOfGoal /\ CleaningAhead
                   /\ CleanedIsMissing /\ Sources /\ TreeIsExtracted
    BY DEF RedoInv
<1>16. SeenAfterCleansFirst => (CleansFirst(cmd) => RebuildReachesImage)
    BY DEF SeenAfterCleansFirst
<1> QED BY <1>1, <1>2, <1>3, <1>4, <1>5, <1>6, <1>7, <1>8, <1>9, <1>10, <1>11, <1>12, <1>13, <1>14, <1>15,
           <1>16, Typing, Honesty, NoneIsCircular, PTL DEF Spec

-----------------------------------------------------------------------------
(***************************************************************************)
(* The recipe of .stamp_patched.  The names ApplyPatches shares with       *)
(* PkgBuild stand for its own variables.                                   *)
(***************************************************************************)
CONSTANTS Patch, File, Touches, Dir, Content, Series, Calls, Fragile, MaxTries
VARIABLES rej, applied, misfit, pc, call, todo, hunks, failed, ignored, tries

Patches == INSTANCE ApplyPatches

AppendedTo(s, x) == Append(s, x)

\* A list with an element more, whatever the elements are
LEMMA OneMore ==
    ASSUME NEW T, NEW s \in Seq(T), NEW x, NEW U, T \subseteq U, x \in U
    PROVE  /\ s \in Seq(U)
           /\ AppendedTo(s, x) \in Seq(U)
           /\ Patches!ToSet(AppendedTo(s, x)) = Patches!ToSet(s) \cup {x}
<1>1. s \in Seq(U)
    OBVIOUS
<1>2. PICK t : t = AppendedTo(s, x)
    OBVIOUS
<1>3. /\ t \in Seq(U) /\ Len(s) \in Nat
      /\ DOMAIN s = 1..Len(s) /\ DOMAIN t = 1..(Len(s) + 1)
      /\ \A i \in 1..Len(s) : t[i] = s[i]
      /\ t[Len(s) + 1] = x
    BY <1>1, <1>2 DEF AppendedTo
<1>4. 1..(Len(s) + 1) = 1..Len(s) \cup {Len(s) + 1}
    BY <1>3
<1>5. {t[i] : i \in DOMAIN t} = {s[i] : i \in DOMAIN s} \cup {x}
    BY <1>3, <1>4
<1> QED BY <1>1, <1>2, <1>3, <1>5 DEF Patches!ToSet

ListsAre(T) == applied \in Seq(T) /\ tree \in [File -> Seq(T)]

\* A reject is of the patch at hand, which fails and ends the run; and that
\* patch is in the list before any hunk of it is in a file.
RejectsInv ==
    /\ rej \in BOOLEAN /\ failed \in BOOLEAN
    /\ pc = "scan" => ~rej
    /\ pc = "patch" /\ ~failed => ~rej

ListedInv ==
    /\ \E T : ListsAre(T)
    /\ pc = "patch" => Head(todo).is \in Patches!ToSet(applied)
    /\ Patches!AppliedIsListed

LEMMA StartFacts ==
    ASSUME NEW n, Patches!NextCall(n)
    PROVE  \/ pc' = "scan" /\ rej' = FALSE
           \/ pc' = "idle" /\ rej' = rej
BY DEF Patches!NextCall, Patches!Start, Patches!Touch

LEMMA LookingOn ==
    ASSUME Patches!EnterDir \/ Patches!Unpack \/ Patches!Skip
    PROVE  pc = "scan" /\ UNCHANGED <<tree, rej, applied, pc, failed>>
<1>1. CASE Patches!EnterDir
    BY <1>1 DEF Patches!EnterDir, Patches!Scanning, Patches!disk
<1>2. CASE Patches!Unpack
    BY <1>2 DEF Patches!Unpack, Patches!Scanning, Patches!disk
<1>3. CASE Patches!Skip
    BY <1>3 DEF Patches!Skip, Patches!Scanning, Patches!disk
<1> QED BY <1>1, <1>2, <1>3

LEMMA RejectsHold == Patches!Spec => []RejectsInv
<1>1. Patches!Init => RejectsInv
    BY DEF Patches!Init, RejectsInv
<1>2. RejectsInv /\ [Patches!Next]_Patches!vars => RejectsInv'
    <2> SUFFICES ASSUME RejectsInv, [Patches!Next]_Patches!vars
                 PROVE  RejectsInv'
        OBVIOUS
    <2> USE DEF RejectsInv
    <2>1. CASE Patches!Make
        BY <2>1, StartFacts DEF Patches!Make
    <2>2. CASE Patches!EnterDir \/ Patches!Unpack \/ Patches!Skip
        <3>1. UNCHANGED <<rej, pc, failed>>
            BY <2>2, LookingOn
        <3> QED BY <3>1
    <2>3. CASE Patches!Missing \/ Patches!PatchFails \/ Patches!Kill
        BY <2>3 DEF Patches!Missing, Patches!PatchFails, Patches!Kill, Patches!Fail
    <2>4. CASE Patches!Feed
        BY <2>4 DEF Patches!Feed, Patches!Scanning
    <2>5. CASE Patches!Hunk
        BY <2>5 DEF Patches!Hunk
    <2>6. CASE Patches!Patched
        BY <2>6 DEF Patches!Patched, Patches!disk
    <2>7. CASE Patches!EndCall
        <3>1. CASE rej
            BY <2>7, <3>1 DEF Patches!EndCall, Patches!Fail
        <3>2. CASE ~rej
            BY <2>7, <3>2, StartFacts DEF Patches!EndCall
        <3> QED BY <3>1, <3>2
    <2>8. CASE Patches!Correct \/ Patches!Reextract
        BY <2>8 DEF Patches!Correct, Patches!Reextract, Patches!disk
    <2>9. CASE UNCHANGED Patches!vars
        BY <2>9 DEF Patches!vars, Patches!disk
    <2> QED BY <2>1, <2>2, <2>3, <2>4, <2>5, <2>6, <2>7, <2>8, <2>9 DEF Patches!Next, Patches!Script
<1> QED BY <1>1, <1>2, PTL DEF Patches!Spec

(***************************************************************************)
(* Reject files the sources came with, or that an earlier run left, make   *)
(* no run fail: while the script goes from patch to patch there are none.  *)
(***************************************************************************)
THEOREM RejectsAreNew == Patches!Spec => []Patches!NoStaleReject
<1>1. RejectsInv => Patches!NoStaleReject
    BY DEF RejectsInv, Patches!NoStaleReject
<1> QED BY <1>1, RejectsHold, PTL

\* What leaves the files and the list alone
LEMMA ListedStutters ==
    ASSUME ListedInv, UNCHANGED <<tree, applied>>, pc' # "patch" \/ UNCHANGED <<pc, todo>>
    PROVE  ListedInv'
BY DEF ListedInv, ListsAre, Patches!AppliedIsListed

LEMMA FeedLists ==
    ASSUME ListedInv, Patches!Feed
    PROVE  ListedInv'
<1>1. PICK T : ListsAre(T)
    BY DEF ListedInv
<1>2. PICK p : p = Head(todo).is
    OBVIOUS
<1>3. /\ applied' = AppendedTo(applied, p)
      /\ tree' = tree /\ todo' = todo
    BY <1>2 DEF Patches!Feed, AppendedTo
<1>4. /\ applied' \in Seq(T \cup {p})
      /\ Patches!ToSet(applied') = Patches!ToSet(applied) \cup {p}
    BY <1>1, <1>3, OneMore DEF ListsAre
<1>5. \A f \in File : tree[f] \in Seq(T \cup {p})
    BY <1>1, OneMore DEF ListsAre
<1>6. ListsAre(T \cup {p})'
    BY <1>1, <1>3, <1>4, <1>5 DEF ListsAre
<1>7. Patches!ToSet(applied)' = Patches!ToSet(applied) \cup {p}
    BY <1>4 DEF Patches!ToSet
<1>8. Patches!AppliedIsListed'
    BY <1>3, <1>7 DEF ListedInv, Patches!AppliedIsListed, Patches!ToSet
<1> QED BY <1>2, <1>3, <1>6, <1>7, <1>8 DEF ListedInv

LEMMA HunkIsListed ==
    ASSUME ListedInv, Patches!Hunk
    PROVE  ListedInv'
<1>1. PICK T : ListsAre(T)
    BY DEF ListedInv
<1>2. PICK p : p = Head(todo).is
    OBVIOUS
<1>3. PICK g : /\ pc = "patch" /\ pc' = pc /\ applied' = applied /\ todo' = todo
               /\ \/ tree' = tree
                  \/ tree' = [tree EXCEPT ![g] = AppendedTo(@, p)]
    BY <1>2 DEF Patches!Hunk, AppendedTo
<1>4. CASE tree' = tree
    BY <1>3, <1>4, ListedStutters
<1>5. CASE tree' = [tree EXCEPT ![g] = AppendedTo(@, p)]
    <2>1. p \in Patches!ToSet(applied)
        BY <1>2, <1>3 DEF ListedInv
    <2>2. ASSUME NEW f \in File
          PROVE  /\ tree'[f] \in Seq(T \cup {p})
                 /\ Patches!ToSet(tree'[f]) \subseteq Patches!ToSet(tree[f]) \cup {p}
        <3>1. tree[f] \in Seq(T)
            BY <1>1 DEF ListsAre
        <3>2. tree'[f] = IF f = g THEN AppendedTo(tree[f], p) ELSE tree[f]
            BY <1>1, <1>5 DEF ListsAre
        <3> QED BY <3>1, <3>2, OneMore
    <2>3. applied \in Seq(T \cup {p})
        BY <1>1, OneMore DEF ListsAre
    <2>4. ListsAre(T \cup {p})'
        BY <1>1, <1>3, <1>5, <2>2, <2>3 DEF ListsAre
    <2>5. Patches!AppliedIsListed'
        <3>1. \A f \in File : Patches!ToSet(tree[f]) \subseteq Patches!ToSet(applied)
            BY DEF ListedInv, Patches!AppliedIsListed
        <3>2. \A f \in File : Patches!ToSet(tree'[f]) \subseteq Patches!ToSet(applied)
            BY <2>1, <2>2, <3>1
        <3>3. \A f \in File : Patches!ToSet(tree'[f]) \subseteq Patches!ToSet(applied')
            BY <1>3, <3>2
        <3> QED BY <3>3 DEF Patches!AppliedIsListed, Patches!ToSet
    <2>6. (pc = "patch" => Head(todo).is \in Patches!ToSet(applied))'
        BY <1>3 DEF ListedInv
    <2> QED BY <2>4, <2>5, <2>6 DEF ListedInv
<1> QED BY <1>3, <1>4, <1>5

\* A build directory that has just been extracted
LEMMA FreshIsListed ==
    ASSUME tree = [f \in File |-> <<>>], applied = <<>>, pc # "patch"
    PROVE  ListedInv
<1>1. ListsAre({})
    BY DEF ListsAre
<1>2. Patches!AppliedIsListed
    BY DEF Patches!AppliedIsListed, Patches!ToSet
<1> QED BY <1>1, <1>2 DEF ListedInv

LEMMA ListedHolds == Patches!Spec => []ListedInv
<1>1. Patches!Init => ListedInv
    BY FreshIsListed DEF Patches!Init, Patches!Fresh
<1>2. ListedInv /\ [Patches!Next]_Patches!vars => ListedInv'
    <2> SUFFICES ASSUME ListedInv, [Patches!Next]_Patches!vars
                 PROVE  ListedInv'
        OBVIOUS
    <2>1. CASE Patches!Make
        BY <2>1, ListedStutters, StartFacts DEF Patches!Make
    <2>2. CASE Patches!EnterDir \/ Patches!Unpack \/ Patches!Skip
        BY <2>2, LookingOn, ListedStutters
    <2>3. CASE Patches!Missing \/ Patches!PatchFails \/ Patches!Kill
        BY <2>3, ListedStutters DEF Patches!Missing, Patches!PatchFails, Patches!Kill, Patches!Fail
    <2>4. CASE Patches!Feed
        BY <2>4, FeedLists
    <2>5. CASE Patches!Hunk
        BY <2>5, HunkIsListed
    <2>6. CASE Patches!Patched
        BY <2>6, ListedStutters DEF Patches!Patched, Patches!disk
    <2>7. CASE Patches!EndCall
        <3>1. CASE rej
            BY <2>7, <3>1, ListedStutters DEF Patches!EndCall, Patches!Fail
        <3>2. CASE ~rej
            BY <2>7, <3>2, ListedStutters, StartFacts DEF Patches!EndCall
        <3> QED BY <3>1, <3>2
    <2>8. CASE Patches!Correct
        BY <2>8, ListedStutters DEF Patches!Correct, Patches!disk
    <2>9. CASE Patches!Reextract
        <3>1. (tree = [f \in File |-> <<>>])' /\ (applied = <<>>)' /\ (pc # "patch")'
            BY <2>9 DEF Patches!Reextract
        <3>2. ListsAre({})'
            BY <3>1 DEF ListsAre
        <3>3. Patches!AppliedIsListed'
            BY <3>1 DEF Patches!AppliedIsListed, Patches!ToSet
        <3> QED BY <3>1, <3>2, <3>3 DEF ListedInv
    <2>10. CASE UNCHANGED Patches!vars
        BY <2>10, ListedStutters DEF Patches!vars, Patches!disk
    <2> QED BY <2>1, <2>2, <2>3, <2>4, <2>5, <2>6, <2>7, <2>8, <2>9, <2>10 DEF Patches!Next, Patches!Script
<1> QED BY <1>1, <1>2, PTL DEF Patches!Spec

(***************************************************************************)
(* Every patch of which a hunk is in the build directory is listed in      *)
(* .applied_patches_list, wherever the script was killed.                  *)
(***************************************************************************)
THEOREM PatchesAreListed == Patches!Spec => []Patches!AppliedIsListed
<1>1. ListedInv => Patches!AppliedIsListed
    BY DEF ListedInv
<1> QED BY <1>1, ListedHolds, PTL
=============================================================================

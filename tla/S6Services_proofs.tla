------------------------- MODULE S6Services_proofs --------------------------
(***************************************************************************)
(* Proofs about S6Services, for any services, bundles, overlays and        *)
(* post-build scripts, and any history of partial builds, failures and     *)
(* changes of the configuration.                                           *)
(***************************************************************************)
EXTENDS S6Services, FiniteSetTheorems, TLAPS

Configuration ==
    /\ WithinAssumption /\ SkeletonAssumption /\ ServicesAssumption
    /\ PostBuildAssumption /\ TargetAssumption

Contents == [Bundle -> Seq(Name)]

(***************************************************************************)
(* Adding a service to a bundle.                                           *)
(***************************************************************************)
AddLast(c, s, b) == [c EXCEPT ![b] = Append(@, s)]

LEMMA AddIs ==
    ASSUME NEW c, NEW b, NEW s
    PROVE  Add(c, s, b) = IF Listed(c, b) \cap Within[s] # {} THEN c ELSE AddLast(c, s, b)
BY DEF Add, AddLast

LEMMA Appended ==
    ASSUME NEW c \in Contents, NEW b \in Bundle, NEW s \in Name
    PROVE  /\ AddLast(c, s, b) \in Contents
           /\ AddLast(c, s, b)[b] = Append(c[b], s)
           /\ Listed(AddLast(c, s, b), b) = Listed(c, b) \cup {s}
           /\ \A a \in Bundle : a # b => /\ AddLast(c, s, b)[a] = c[a]
                                        /\ Listed(AddLast(c, s, b), a) = Listed(c, a)
<1>0. PICK d : d = AddLast(c, s, b)
    OBVIOUS
<1>1. c[b] \in Seq(Name) /\ Append(c[b], s) \in Seq(Name)
    BY DEF Contents
<1>2. d[b] = Append(c[b], s) /\ \A a \in Bundle : a # b => d[a] = c[a]
    BY <1>0 DEF Contents, AddLast
<1>3. d \in Contents
    BY <1>0, <1>1 DEF Contents, AddLast
<1>4. /\ DOMAIN c[b] = 1..Len(c[b]) /\ DOMAIN d[b] = 1..(Len(c[b]) + 1) /\ Len(c[b]) \in Nat
      /\ \A i \in 1..Len(c[b]) : d[b][i] = c[b][i]
      /\ d[b][Len(c[b]) + 1] = s
    BY <1>1, <1>2
<1>5. 1..(Len(c[b]) + 1) = 1..Len(c[b]) \cup {Len(c[b]) + 1}
    BY <1>4
<1>6. Listed(d, b) = Listed(c, b) \cup {s}
    BY <1>4, <1>5 DEF Listed
<1>7. \A a \in Bundle : a # b => Listed(d, a) = Listed(c, a)
    BY <1>2 DEF Listed
<1> QED BY <1>0, <1>2, <1>3, <1>6, <1>7

LEMMA AddFacts ==
    ASSUME WithinAssumption, NEW c \in Contents, NEW b \in Bundle, NEW s \in Name
    PROVE  /\ Add(c, s, b) \in Contents
           /\ \A a \in Bundle : Listed(c, a) \subseteq Listed(Add(c, s, b), a)
           /\ \E n \in Within[s] : n \in Listed(Add(c, s, b), b)
<1>1. s \in Within[s]
    BY DEF WithinAssumption
<1>2. CASE Listed(c, b) \cap Within[s] # {}
    BY <1>2 DEF Add
<1>3. CASE Listed(c, b) \cap Within[s] = {}
    <2>1. Add(c, s, b) = AddLast(c, s, b)
        BY <1>3, AddIs
    <2> QED BY <1>1, <2>1, Appended
<1> QED BY <1>2, <1>3

\* No bundle lists a service twice.
Once(c) == \A b \in Bundle : Cardinality(Listed(c, b)) = Len(c[b])

LEMMA ListedIsFinite ==
    ASSUME NEW c \in Contents, NEW b \in Bundle
    PROVE  IsFiniteSet(Listed(c, b))
<1>1. c[b] \in Seq(Name) /\ Len(c[b]) \in Nat
    BY DEF Contents
<1>2. IsFiniteSet(1..Len(c[b]))
    BY <1>1, FS_Interval
<1>3. c[b] \in Surjection(1..Len(c[b]), Listed(c, b))
    BY <1>1 DEF Surjection, Listed
<1> QED BY <1>2, <1>3, FS_Surjection

LEMMA AddsOnce ==
    ASSUME WithinAssumption, NEW c \in Contents, Once(c), NEW b \in Bundle, NEW s \in Name
    PROVE  Once(Add(c, s, b))
<1>1. CASE Listed(c, b) \cap Within[s] # {}
    BY <1>1 DEF Add
<1>2. CASE Listed(c, b) \cap Within[s] = {}
    <2>1. s \notin Listed(c, b)
        BY <1>2 DEF WithinAssumption
    <2>2. Add(c, s, b) = AddLast(c, s, b)
        BY <1>2, AddIs
    <2>3. /\ Add(c, s, b)[b] = Append(c[b], s) /\ Listed(Add(c, s, b), b) = Listed(c, b) \cup {s}
          /\ \A a \in Bundle : a # b => /\ Add(c, s, b)[a] = c[a]
                                       /\ Listed(Add(c, s, b), a) = Listed(c, a)
        BY <2>2, Appended
    <2>4. Cardinality(Listed(Add(c, s, b), b)) = Cardinality(Listed(c, b)) + 1
        BY <2>1, <2>3, ListedIsFinite, FS_AddElement
    <2>5. Len(Add(c, s, b)[b]) = Len(c[b]) + 1
        BY <2>3 DEF Contents
    <2> QED BY <2>3, <2>4, <2>5 DEF Once
<1> QED BY <1>1, <1>2

-----------------------------------------------------------------------------
(***************************************************************************)
(* What each step does to the sources of the database.                     *)
(***************************************************************************)
LEMMA WantedIsInBundle ==
    ASSUME ServicesAssumption, NEW s \in Wants
    PROVE  s \in Name /\ Services[s] \in Bundle
BY DEF ServicesAssumption, Wants

LEMMA ScriptFacts ==
    ASSUME PostBuildAssumption, NEW i \in DOMAIN PostBuild
    PROVE  /\ PostBuild[i][1] = "enable" => PostBuild[i][2] \in Name /\ PostBuild[i][3] \in Bundle
           /\ PostBuild[i][1] # "enable" => PostBuild[i] = <<"compile">>
<1>1. PostBuild[i] \in {<<"compile">>} \cup ({"enable"} \X Name \X Bundle)
    BY DEF PostBuildAssumption
<1> QED BY <1>1

LEMMA ContentsSteps ==
    ASSUME Configuration, TypeOK, [Next]_vars
    PROVE  \/ contents' = contents
           \/ contents' = Skeleton
           \/ contents' = [b \in Bundle |-> <<>>]
           \/ \E s \in Name, b \in Bundle : contents' = Add(contents, s, b)
<1>1. CASE AddService
    <2>1. PICK s \in todo : contents' = Add(contents, s, Services[s])
        BY <1>1 DEF AddService
    <2>2. s \in Wants
        BY DEF TypeOK
    <2> QED BY <2>1, <2>2, WantedIsInBundle DEF Configuration
<1>2. CASE RenderDhcp
    BY <1>2 DEF RenderDhcp, Configuration, SkeletonAssumption, TargetAssumption, TypeOK
<1>3. CASE PostBuildScript
    BY <1>3, ScriptFacts DEF PostBuildScript, RunScript, Configuration
<1>4. CASE InstallSkeleton \/ InterruptSkeleton
    BY <1>4 DEF InstallSkeleton, InterruptSkeleton
<1>5. CASE \/ Make \/ Busybox \/ BeginServices \/ CopyService \/ EndServices \/ BuildServiceDb
           \/ CopyOverlay \/ Rootfs \/ Fail \/ Reinstall \/ Reconfigure \/ UNCHANGED vars
    BY <1>5 DEF Make, Busybox, BeginServices, CopyService, EndServices, BuildServiceDb,
           CopyOverlay, Rootfs, Fail, Reinstall, Reconfigure, vars, target
<1> QED BY <1>1, <1>2, <1>3, <1>4, <1>5 DEF Next

LEMMA EmptyContents ==
    /\ [b \in Bundle |-> <<>>] \in Contents
    /\ Once([b \in Bundle |-> <<>>])
<1> DEFINE e == [b \in Bundle |-> <<>>]
<1>1. e \in Contents /\ \A b \in Bundle : e[b] = <<>>
    BY DEF Contents
<1> HIDE DEF e
<1>2. \A b \in Bundle : Listed(e, b) = {} /\ Len(e[b]) = 0
    BY <1>1 DEF Listed
<1>3. Once(e)
    BY <1>2, FS_EmptySet DEF Once
<1> QED BY <1>1, <1>3 DEF e

(***************************************************************************)
(* The types of the variables.                                             *)
(***************************************************************************)
LEMMA NextContents ==
    ASSUME Configuration, TypeOK, [Next]_vars
    PROVE  contents' \in Contents
<1>1. contents \in Contents /\ Skeleton \in Contents /\ WithinAssumption
    BY DEF Configuration, SkeletonAssumption, Contents, TypeOK
<1> QED BY <1>1, ContentsSteps, AddFacts, EmptyContents

LEMMA NextSource ==
    ASSUME Configuration, TypeOK, [Next]_vars
    PROVE  source' \subseteq Name
<1>1. CASE InstallSkeleton
    <2>1. \A b \in Bundle : Listed(Skeleton, b) \subseteq Name
        BY DEF Configuration, SkeletonAssumption, Listed
    <2> QED BY <1>1, <2>1 DEF InstallSkeleton
<1>2. CASE CopyService
    BY <1>2, WantedIsInBundle DEF CopyService, TypeOK, Configuration
<1>3. CASE RenderDhcp \/ CopyOverlay \/ InterruptSkeleton
    BY <1>3 DEF RenderDhcp, CopyOverlay, InterruptSkeleton, TypeOK, Configuration, TargetAssumption
<1>4. CASE PostBuildScript
    BY <1>4 DEF PostBuildScript, RunScript, TypeOK
<1>5. CASE \/ Make \/ Busybox \/ BeginServices \/ AddService \/ EndServices \/ BuildServiceDb
           \/ Rootfs \/ Fail \/ Reinstall \/ Reconfigure \/ UNCHANGED vars
    BY <1>5 DEF Make, Busybox, BeginServices, AddService, EndServices, BuildServiceDb, Rootfs,
           Fail, Reinstall, Reconfigure, vars, target, TypeOK
<1> QED BY <1>1, <1>2, <1>3, <1>4, <1>5 DEF Next

LEMMA NextDb ==
    ASSUME TypeOK, [Next]_vars
    PROVE  db'.source \subseteq Name /\ image'.source \subseteq Name
<1>1. db.source \subseteq Name /\ image.source \subseteq Name /\ source \subseteq Name
    BY DEF TypeOK
<1>2. db' \in {db, NoDb, Compiled(source, contents)} /\ image' \in {image, db}
    <2>1. CASE \/ Make \/ Busybox \/ BeginServices \/ AddService \/ EndServices \/ CopyService
               \/ RenderDhcp \/ CopyOverlay \/ Fail \/ Reinstall \/ Reconfigure \/ UNCHANGED vars
        BY <2>1 DEF Make, Busybox, BeginServices, AddService, EndServices, CopyService, RenderDhcp,
               CopyOverlay, Fail, Reinstall, Reconfigure, vars, target
    <2>2. CASE InstallSkeleton \/ InterruptSkeleton \/ Rootfs
        BY <2>2 DEF InstallSkeleton, InterruptSkeleton, Rootfs, target
    <2>3. CASE BuildServiceDb \/ PostBuildScript
        BY <2>3 DEF BuildServiceDb, PostBuildScript, RunScript, Compile
    <2> QED BY <2>1, <2>2, <2>3 DEF Next
<1> QED BY <1>1, <1>2 DEF NoDb, Compiled

LEMMA NextKeepsTypes ==
    ASSUME Configuration, TypeOK, [Next]_vars
    PROVE  TypeOK'
<1>1. contents' \in Contents /\ source' \subseteq Name /\ {db'.source, image'.source} \subseteq SUBSET Name
    BY NextContents, NextSource, NextDb
<1> DEFINE Rest == /\ installed' \subseteq Package /\ dhcp' \in DhcpChoices
                   /\ list' \subseteq Wants /\ todo' \subseteq list'
                   /\ script' \in Nat
                   /\ pc' = "post-build" => script' \in 1..(Len(PostBuild) + 1)
<1>2. CASE PostBuildScript
    <2>1. DOMAIN PostBuild = 1..Len(PostBuild) /\ Len(PostBuild) \in Nat
        BY DEF Configuration, PostBuildAssumption
    <2>2. script' = script + 1 /\ script \in DOMAIN PostBuild /\ UNCHANGED <<installed, dhcp, list>>
        BY <1>2 DEF PostBuildScript, RunScript
    <2>3. todo' = todo \/ todo' = {}
        BY <1>2 DEF PostBuildScript, RunScript, Compile, Stop
    <2> QED BY <1>1, <2>1, <2>2, <2>3 DEF TypeOK, Contents
<1>3. CASE Make \/ Busybox \/ InstallSkeleton \/ InterruptSkeleton
    <2>1. Rest
        BY <1>3 DEF Make, Busybox, InstallSkeleton, InterruptSkeleton, Stop, TypeOK, Package
    <2> QED BY <1>1, <2>1 DEF TypeOK, Contents
<1>4. CASE BeginServices \/ CopyService \/ AddService \/ EndServices
    <2>1. Rest
        BY <1>4 DEF BeginServices, CopyService, AddService, EndServices, TypeOK, Package
    <2> QED BY <1>1, <2>1 DEF TypeOK, Contents
<1>5. CASE RenderDhcp \/ BuildServiceDb \/ CopyOverlay
    <2>1. Rest
        <3>1. CASE RenderDhcp
            BY <3>1 DEF RenderDhcp, TypeOK
        <3>2. CASE BuildServiceDb
            <4>1. pc' \in {"overlay", "idle"} /\ (todo' = todo \/ todo' = {})
                BY <3>2 DEF BuildServiceDb, Compile, Stop
            <4> QED BY <3>2, <4>1 DEF BuildServiceDb, TypeOK
        <3>3. CASE CopyOverlay
            <4>1. Len(PostBuild) \in Nat /\ 1 \in 1..(Len(PostBuild) + 1)
                BY DEF Configuration, PostBuildAssumption
            <4> QED BY <3>3, <4>1 DEF CopyOverlay, TypeOK
        <3> QED BY <1>5, <3>1, <3>2, <3>3
    <2> QED BY <1>1, <2>1 DEF TypeOK, Contents
<1>6. CASE Rootfs \/ Fail \/ Reinstall \/ Reconfigure \/ UNCHANGED vars
    <2>1. Rest
        BY <1>6 DEF Rootfs, Fail, Reinstall, Reconfigure, Stop, vars, TypeOK
    <2> QED BY <1>1, <2>1 DEF TypeOK, Contents
<1> QED BY <1>2, <1>3, <1>4, <1>5, <1>6 DEF Next

LEMMA InitTypes == Configuration /\ Init => TypeOK
BY EmptyContents DEF Init, TypeOK, NoDb, Contents

(***************************************************************************)
(* The variables keep their types whatever packages are installed again,   *)
(* wherever make is interrupted and whatever post-build.sh enables; a      *)
(* script that is to run is one of BR2_ROOTFS_POST_BUILD_SCRIPT or the end *)
(* of them.                                                                *)
(***************************************************************************)
THEOREM Typing == ASSUME Configuration PROVE Spec => []TypeOK
<1>1. Init => TypeOK
    BY InitTypes
<1>2. TypeOK /\ [Next]_vars => TypeOK'
    BY NextKeepsTypes
<1> QED BY <1>1, <1>2, PTL DEF Spec

-----------------------------------------------------------------------------
(***************************************************************************)
(* No service twice.                                                       *)
(***************************************************************************)
LEMMA NextIsOnce ==
    ASSUME Configuration, TypeOK, NoServiceTwice, [Next]_vars
    PROVE  NoServiceTwice'
<1>1. contents \in Contents /\ Once(contents) /\ Once(Skeleton) /\ WithinAssumption
    BY DEF Configuration, SkeletonAssumption, Contents, TypeOK, NoServiceTwice, Once
<1>2. Once(contents')
    BY <1>1, ContentsSteps, AddsOnce, EmptyContents
<1> QED BY <1>2 DEF Once, NoServiceTwice, Listed

(***************************************************************************)
(* S6_ADD_SERVICE and the hooks that repeat its grep and echo name no      *)
(* service twice in a contents file, however often the packages are        *)
(* installed and the image is finalized.                                   *)
(***************************************************************************)
THEOREM NoneTwice == ASSUME Configuration PROVE Spec => []NoServiceTwice
<1>1. Init => TypeOK /\ NoServiceTwice
    BY InitTypes, EmptyContents DEF Init, NoServiceTwice, Once
<1>2. TypeOK /\ [Next]_vars => TypeOK'
    BY NextKeepsTypes
<1>3. TypeOK /\ NoServiceTwice /\ [Next]_vars => NoServiceTwice'
    BY NextIsOnce
<1> QED BY <1>1, <1>2, <1>3, PTL DEF Spec

-----------------------------------------------------------------------------
(***************************************************************************)
(* The database is current.                                                *)
(***************************************************************************)
DbInv ==
    /\ pc = "overlay" => db = Compiled(source, contents)
    /\ pc = "post-build" /\ (IF script = 1 THEN Overlay = {} ELSE PostBuild[script - 1] = <<"compile">>) =>
           db = Compiled(source, contents)

LEMMA NextIsDb ==
    ASSUME Configuration, TypeOK, DbInv, [Next]_vars
    PROVE  DbInv'
<1>1. CASE pc' \notin {"overlay", "post-build"}
    BY <1>1 DEF DbInv
<1>2. CASE \/ Make \/ Busybox \/ InstallSkeleton \/ InterruptSkeleton \/ BeginServices
           \/ CopyService \/ AddService \/ EndServices \/ RenderDhcp \/ Rootfs \/ Fail
           \/ Reinstall \/ Reconfigure
    BY <1>1, <1>2 DEF Make, Busybox, InstallSkeleton, InterruptSkeleton, BeginServices, CopyService,
           AddService, EndServices, RenderDhcp, Rootfs, Fail, Reinstall, Reconfigure, Stop
<1>3. CASE UNCHANGED vars
    BY <1>3 DEF vars, target, DbInv, Compiled
<1>4. CASE BuildServiceDb
    <2>1. CASE Compiles(source, contents)
        BY <1>4, <2>1 DEF BuildServiceDb, Compile, DbInv, Compiled
    <2>2. CASE ~Compiles(source, contents)
        BY <1>1, <1>4, <2>2 DEF BuildServiceDb, Compile, Stop
    <2> QED BY <2>1, <2>2
<1>5. CASE CopyOverlay
    <2>1. pc = "overlay" /\ pc' = "post-build" /\ script' = 1 /\ source' = source \cup Overlay
          /\ contents' = contents /\ db' = db
        BY <1>5 DEF CopyOverlay
    <2>2. Overlay = {} => source' = source
        BY <2>1
    <2> QED BY <2>1, <2>2 DEF DbInv, Compiled
<1>6. CASE PostBuildScript
    <2>1. /\ pc = "post-build" /\ script \in DOMAIN PostBuild /\ script' = script + 1
          /\ script \in Nat \ {0} /\ source' = source
        BY <1>6 DEF PostBuildScript, RunScript, TypeOK
    <2>2. script' # 1 /\ script' - 1 = script
        BY <2>1
    <2>3. CASE PostBuild[script][1] = "enable"
        <3>1. PostBuild[script] # <<"compile">> /\ pc' = pc
            BY <1>6, <2>3 DEF PostBuildScript, RunScript
        <3> QED BY <2>1, <2>2, <3>1 DEF DbInv
    <2>4. CASE PostBuild[script][1] # "enable"
        <3>1. Compile("post-build") /\ contents' = contents
            BY <1>6, <2>4 DEF PostBuildScript, RunScript
        <3>2. pc' = "idle" \/ (pc' = "post-build" /\ db' = Compiled(source, contents))
            BY <3>1 DEF Compile, Stop
        <3> QED BY <2>1, <3>1, <3>2 DEF DbInv, Compiled
    <2> QED BY <2>3, <2>4
<1> QED BY <1>2, <1>3, <1>4, <1>5, <1>6 DEF Next

LEMMA LastIsCompiled ==
    ASSUME Configuration, CompilesLast, TypeOK, DbInv
    PROVE  DbIsCurrent
<1> SUFFICES ASSUME ImageNext PROVE db = Compiled(source, contents)
    BY DEF DbIsCurrent
<1>1. Len(PostBuild) \in Nat /\ (Len(PostBuild) = 0 <=> PostBuild = <<>>)
    BY DEF Configuration, PostBuildAssumption
<1>2. pc = "post-build" /\ script = Len(PostBuild) + 1
    BY <1>1 DEF ImageNext, TypeOK
<1>3. script - 1 = Len(PostBuild) /\ (script = 1 <=> PostBuild = <<>>)
    BY <1>1, <1>2
<1> QED BY <1>2, <1>3 DEF DbInv, CompilesLast

(***************************************************************************)
(* What the image takes is compiled from what the target directory holds   *)
(* by then, when the last of the post-build scripts compiles the database  *)
(* again (or there is neither a script nor an overlay).                    *)
(***************************************************************************)
THEOREM Current == ASSUME Configuration, CompilesLast PROVE Spec => []DbIsCurrent
<1>1. Init => TypeOK /\ DbInv
    BY InitTypes DEF Init, DbInv
<1>2. TypeOK /\ [Next]_vars => TypeOK'
    BY NextKeepsTypes
<1>3. TypeOK /\ DbInv /\ [Next]_vars => DbInv'
    BY NextIsDb
<1>4. TypeOK /\ DbInv => DbIsCurrent
    BY LastIsCompiled
<1> QED BY <1>1, <1>2, <1>3, <1>4, PTL DEF Spec

-----------------------------------------------------------------------------
(***************************************************************************)
(* What is in the target directory by the end of the packages stays there  *)
(* until the image is made: the hooks and the scripts only add.            *)
(***************************************************************************)
LEMMA NextGrows ==
    ASSUME Configuration, TypeOK, [Next]_vars, ~InstallSkeleton, ~InterruptSkeleton
    PROVE  /\ source \subseteq source'
           /\ \A b \in Bundle : Listed(contents, b) \subseteq Listed(contents', b)
<1>1. contents \in Contents /\ WithinAssumption /\ ServicesAssumption
    BY DEF Configuration, Contents, TypeOK
<1>2. CASE AddService
    <2>1. PICK s \in todo : contents' = Add(contents, s, Services[s]) /\ source' = source
        BY <1>2 DEF AddService
    <2>2. s \in Wants
        BY DEF TypeOK
    <2> QED BY <1>1, <2>1, <2>2, WantedIsInBundle, AddFacts
<1>3. CASE RenderDhcp
    <2>1. dhcp \in Name /\ "setup-net" \in Bundle
        BY DEF Configuration, SkeletonAssumption, TargetAssumption, TypeOK
    <2> QED BY <1>1, <1>3, <2>1, AddFacts DEF RenderDhcp
<1>4. CASE PostBuildScript
    <2>1. source' = source
        BY <1>4 DEF PostBuildScript, RunScript
    <2>2. \/ contents' = contents
          \/ \E s \in Name, b \in Bundle : contents' = Add(contents, s, b)
        BY <1>4, ScriptFacts DEF PostBuildScript, RunScript, Configuration
    <2> QED BY <1>1, <2>1, <2>2, AddFacts
<1>5. CASE CopyService \/ CopyOverlay
    BY <1>5 DEF CopyService, CopyOverlay
<1>6. CASE \/ Make \/ Busybox \/ BeginServices \/ EndServices \/ BuildServiceDb
           \/ Rootfs \/ Fail \/ Reinstall \/ Reconfigure \/ UNCHANGED vars
    BY <1>6 DEF Make, Busybox, BeginServices, EndServices, BuildServiceDb, Rootfs, Fail, Reinstall,
           Reconfigure, vars, target
<1> QED BY <1>2, <1>3, <1>4, <1>5, <1>6 DEF Next

Finalizing == {"build db", "overlay", "post-build"}

There(s, c, wanted) == \A w \in wanted : w \in s /\ w \in Listed(c, Services[w])

EnabledInv ==
    /\ pc \in Finalizing => installed = Package
    /\ "services" \in installed /\ ~behind => There(source, contents, Wants)
    /\ pc = "services" => There(source, contents, list \ todo)
    /\ pc \in {"overlay", "post-build"} /\ ~behind => There(db.source, db.contents, Wants)

LEMMA ThereGrows ==
    ASSUME ServicesAssumption, NEW s, NEW c, NEW t, NEW d, NEW wanted \in SUBSET Wants,
           There(s, c, wanted), s \subseteq t,
           \A b \in Bundle : Listed(c, b) \subseteq Listed(d, b)
    PROVE  There(t, d, wanted)
BY WantedIsInBundle DEF There

LEMMA DbSteps ==
    ASSUME [Next]_vars, pc' \in {"overlay", "post-build"}
    PROVE  \/ /\ pc \in {"overlay", "post-build"} /\ db' = db
           \/ /\ pc \in {"build db", "post-build"} /\ db' = Compiled(source, contents)
              /\ UNCHANGED <<installed, source, contents, dhcp, behind>>
<1>1. CASE BuildServiceDb
    BY <1>1 DEF BuildServiceDb, Compile, Stop
<1>2. CASE PostBuildScript
    BY <1>2 DEF PostBuildScript, RunScript, Compile, Stop
<1>3. CASE CopyOverlay \/ UNCHANGED vars
    BY <1>3 DEF CopyOverlay, vars, target
<1>4. CASE \/ Make \/ Busybox \/ InstallSkeleton \/ InterruptSkeleton \/ BeginServices
           \/ CopyService \/ AddService \/ EndServices \/ RenderDhcp \/ Rootfs \/ Fail
           \/ Reinstall \/ Reconfigure
    BY <1>4 DEF Make, Busybox, InstallSkeleton, InterruptSkeleton, BeginServices, CopyService,
           AddService, EndServices, RenderDhcp, Rootfs, Fail, Reinstall, Reconfigure, Stop
<1> QED BY <1>1, <1>2, <1>3, <1>4 DEF Next

\* From the hooks to the image, nothing but the target directory changes.
LEMMA FinalizingSteps ==
    ASSUME [Next]_vars, pc' \in Finalizing
    PROVE  /\ UNCHANGED <<installed, dhcp, behind>>
           /\ pc \in Finalizing \/ RenderDhcp
           /\ ~InstallSkeleton /\ ~InterruptSkeleton
<1>1. CASE BuildServiceDb \/ CopyOverlay \/ UNCHANGED vars
    BY <1>1 DEF BuildServiceDb, CopyOverlay, vars, target, InstallSkeleton, InterruptSkeleton, Finalizing
<1>2. CASE PostBuildScript
    BY <1>2 DEF PostBuildScript, RunScript, InstallSkeleton, InterruptSkeleton, Finalizing
<1>3. CASE RenderDhcp
    BY <1>3 DEF RenderDhcp, InstallSkeleton, InterruptSkeleton, Finalizing, Stop
<1>4. CASE \/ Make \/ Busybox \/ InstallSkeleton \/ InterruptSkeleton \/ BeginServices
           \/ CopyService \/ AddService \/ EndServices \/ Rootfs \/ Fail
           \/ Reinstall \/ Reconfigure
    BY <1>4 DEF Make, Busybox, InstallSkeleton, InterruptSkeleton, BeginServices, CopyService,
           AddService, EndServices, Rootfs, Fail, Reinstall, Reconfigure, Stop, Finalizing
<1> QED BY <1>1, <1>2, <1>3, <1>4 DEF Next

LEMMA NextKeepsEnabled ==
    ASSUME Configuration, WantsAlone, TypeOK, EnabledInv, [Next]_vars
    PROVE  EnabledInv'
<1>0. ServicesAssumption /\ list \subseteq Wants
    BY DEF Configuration, TypeOK
<1>1. pc' \in Finalizing => installed' = Package
    BY FinalizingSteps DEF EnabledInv, RenderDhcp
<1>2. pc' = "services" => There(source', contents', list' \ todo')
    <2> SUFFICES ASSUME pc' = "services" PROVE There(source', contents', list' \ todo')
        OBVIOUS
    <2>1. CASE BeginServices
        BY <2>1 DEF BeginServices, There
    <2>2. CASE CopyService
        <3>1. pc = "services" /\ list' \ todo' = list \ todo
            BY <2>2 DEF CopyService
        <3>2. ~InstallSkeleton /\ ~InterruptSkeleton
            BY <3>1 DEF InstallSkeleton, InterruptSkeleton
        <3> QED BY <1>0, <3>1, <3>2, NextGrows, ThereGrows DEF EnabledInv
    <2>3. CASE AddService
        <3>1. PICK s \in todo \cap source : /\ contents' = Add(contents, s, Services[s])
                                            /\ todo' = todo \ {s}
            BY <2>3 DEF AddService
        <3>2. pc = "services" /\ list' = list /\ source' = source
            BY <2>3 DEF AddService
        <3>3. ~InstallSkeleton /\ ~InterruptSkeleton
            BY <3>2 DEF InstallSkeleton, InterruptSkeleton
        <3>4. There(source', contents', list \ todo)
            BY <1>0, <3>2, <3>3, NextGrows, ThereGrows DEF EnabledInv
        <3>5. s \in Wants /\ s \in Name /\ Services[s] \in Bundle
            BY <1>0, WantedIsInBundle DEF TypeOK
        <3>6. s \in Listed(contents', Services[s])
            <4>1. \E n \in Within[s] : n \in Listed(Add(contents, s, Services[s]), Services[s])
                BY <3>5, AddFacts DEF Configuration, TypeOK, Contents
            <4> QED BY <3>1, <3>5, <4>1 DEF WantsAlone
        <3> QED BY <3>1, <3>2, <3>4, <3>6 DEF There
    <2>4. CASE UNCHANGED vars
        BY <2>4 DEF vars, target, EnabledInv, There, Listed
    <2>5. CASE \/ Make \/ Busybox \/ InstallSkeleton \/ InterruptSkeleton \/ EndServices
               \/ RenderDhcp \/ BuildServiceDb \/ CopyOverlay \/ PostBuildScript \/ Rootfs \/ Fail
               \/ Reinstall \/ Reconfigure
        BY <2>5 DEF Make, Busybox, InstallSkeleton, InterruptSkeleton, EndServices, RenderDhcp,
               BuildServiceDb, CopyOverlay, PostBuildScript, RunScript, Compile, Rootfs, Fail, Reinstall,
               Reconfigure, Stop
    <2> QED BY <2>1, <2>2, <2>3, <2>4, <2>5 DEF Next
<1>3. "services" \in installed' /\ ~behind' => There(source', contents', Wants)
    <2> SUFFICES ASSUME "services" \in installed', ~behind' PROVE There(source', contents', Wants)
        OBVIOUS
    <2>1. CASE EndServices
        <3>1. list = Wants /\ todo = {} /\ pc = "services" /\ source' = source /\ contents' = contents
            BY <2>1 DEF EndServices, target
        <3> QED BY <3>1 DEF EnabledInv, There
    <2>2. CASE InstallSkeleton \/ InterruptSkeleton
        <3>1. "services" \in installed
            BY <2>2 DEF InstallSkeleton, InterruptSkeleton
        <3>2. behind' = (behind \/ "services" \in installed)
            BY ONLY <2>2, Zenon DEF InstallSkeleton, InterruptSkeleton
        <3> QED BY <3>1, <3>2, Zenon
    <2>3. CASE /\ ~EndServices /\ ~InstallSkeleton /\ ~InterruptSkeleton
        <3> DEFINE Complete == "services" \in installed /\ ~behind
        <3> DEFINE Gentle == \/ Make \/ Busybox \/ BeginServices \/ CopyService \/ AddService
                             \/ RenderDhcp \/ BuildServiceDb \/ CopyOverlay \/ PostBuildScript
        <3>1. Gentle => behind' = behind
            BY Zenon DEF Make, Busybox, BeginServices, CopyService, AddService, RenderDhcp,
               BuildServiceDb, CopyOverlay, PostBuildScript, RunScript
        <3>2. Gentle => installed' = installed \/ installed' = installed \cup {"busybox"}
            BY DEF Make, Busybox, BeginServices, CopyService, AddService, RenderDhcp,
               BuildServiceDb, CopyOverlay, PostBuildScript, RunScript
        <3>3. Gentle => Complete
            <4>1. Gentle => "services" \in installed
                BY ONLY <3>2, "services" \in installed'
            <4> QED BY <3>1, <4>1, Zenon
        <3>4. Rootfs \/ Fail \/ Reinstall \/ Reconfigure \/ UNCHANGED vars => Complete
            BY DEF Rootfs, Fail, Reinstall, Reconfigure, vars
        <3>5. Complete
            BY <2>3, <3>3, <3>4 DEF Next
        <3>6. There(source, contents, Wants)
            BY <3>5 DEF EnabledInv
        <3>7. source \subseteq source' /\ \A b \in Bundle : Listed(contents, b) \subseteq Listed(contents', b)
            BY <2>3, NextGrows
        <3> QED BY <1>0, <3>6, <3>7, ThereGrows
    <2> QED BY <2>1, <2>2, <2>3
<1>4. pc' \in {"overlay", "post-build"} /\ ~behind' => There(db'.source, db'.contents, Wants)
    <2> SUFFICES ASSUME pc' \in {"overlay", "post-build"}, ~behind'
                 PROVE  There(db'.source, db'.contents, Wants)
        OBVIOUS
    <2>1. UNCHANGED behind
        BY FinalizingSteps DEF Finalizing
    <2>2. CASE pc \in {"overlay", "post-build"} /\ db' = db
        BY <2>1, <2>2 DEF EnabledInv
    <2>3. CASE pc \in {"build db", "post-build"} /\ db' = Compiled(source, contents)
        <3>1. There(source, contents, Wants)
            BY <2>1, <2>3 DEF EnabledInv, Finalizing, Package
        <3> QED BY <2>3, <3>1 DEF Compiled
    <2> QED BY <2>2, <2>3, DbSteps
<1> QED BY <1>1, <1>2, <1>3, <1>4 DEF EnabledInv, There, Listed

(***************************************************************************)
(* An enabled service is in the database of the image and in its bundle,   *)
(* in every build that ends: neither its failed or repeated installation,  *)
(* nor a hook, nor a script takes it away. grep must not find its name in  *)
(* that of another service, as it would not add it then.                   *)
(***************************************************************************)
THEOREM Enabled == ASSUME Configuration, WantsAlone PROVE Spec => []EnabledIsThere
<1>1. Init => TypeOK /\ EnabledInv
    BY InitTypes DEF Init, EnabledInv, Finalizing
<1>2. TypeOK /\ [Next]_vars => TypeOK'
    BY NextKeepsTypes
<1>3. TypeOK /\ EnabledInv /\ [Next]_vars => EnabledInv'
    BY NextKeepsEnabled
<1>4. EnabledInv => EnabledIsThere
    BY DEF EnabledInv, EnabledIsThere, ImageNext, There
<1> QED BY <1>1, <1>2, <1>3, <1>4, PTL DEF Spec

-----------------------------------------------------------------------------
(***************************************************************************)
(* The DHCP client.                                                        *)
(***************************************************************************)
SetUp(s, c) == dhcp \in s /\ \E n \in Within[dhcp] : n \in Listed(c, "setup-net")

DhcpInv ==
    /\ pc \in Finalizing => SetUp(source, contents)
    /\ pc \in {"overlay", "post-build"} => SetUp(db.source, db.contents)

LEMMA NextKeepsDhcp ==
    ASSUME Configuration, TypeOK, DhcpInv, [Next]_vars
    PROVE  DhcpInv'
<1>1. WithinAssumption /\ "setup-net" \in Bundle /\ dhcp \in Name /\ contents \in Contents
    BY DEF Configuration, SkeletonAssumption, TargetAssumption, TypeOK, Contents
<1>2. ASSUME pc' \in Finalizing
      PROVE  dhcp' \in source' /\ \E n \in Within[dhcp'] : n \in Listed(contents', "setup-net")
    <2>1. CASE RenderDhcp
        BY <1>1, <2>1, AddFacts DEF RenderDhcp
    <2>2. CASE pc \in Finalizing
        BY <1>1, <1>2, <2>2, FinalizingSteps, NextGrows DEF DhcpInv, SetUp
    <2> QED BY <1>2, <2>1, <2>2, FinalizingSteps
<1>3. ASSUME pc' \in {"overlay", "post-build"}
      PROVE  /\ dhcp' \in db'.source
             /\ \E n \in Within[dhcp'] : n \in Listed(db'.contents, "setup-net")
    <2>1. dhcp' = dhcp
        BY <1>3, FinalizingSteps DEF Finalizing
    <2>2. CASE pc \in {"overlay", "post-build"} /\ db' = db
        BY <2>1, <2>2 DEF DhcpInv, SetUp
    <2>3. CASE pc \in {"build db", "post-build"} /\ db' = Compiled(source, contents)
        BY <2>1, <2>3 DEF DhcpInv, SetUp, Compiled, Finalizing
    <2> QED BY <1>3, <2>2, <2>3, DbSteps
<1> QED BY <1>2, <1>3 DEF DhcpInv, SetUp, Listed

(***************************************************************************)
(* The DHCP client of the configuration is in the database of the image,   *)
(* and it or one that has its name in its own is set up with the network:  *)
(* S6_LINUX_INIT_SKELETON_INSTALL_DHCPC runs in every build, before the    *)
(* database is compiled.                                                   *)
(***************************************************************************)
THEOREM Dhcp == ASSUME Configuration PROVE Spec => []DhcpIsThere
<1>1. Init => TypeOK /\ DhcpInv
    BY InitTypes DEF Init, DhcpInv, Finalizing
<1>2. TypeOK /\ [Next]_vars => TypeOK'
    BY NextKeepsTypes
<1>3. TypeOK /\ DhcpInv /\ [Next]_vars => DhcpInv'
    BY NextKeepsDhcp
<1>4. DhcpInv => DhcpIsThere
    BY DEF DhcpInv, DhcpIsThere, ImageNext, SetUp
<1> QED BY <1>1, <1>2, <1>3, <1>4, PTL DEF Spec

(***************************************************************************)
(* The four together: what the image boots with is the database of the     *)
(* services that the packages, hooks, overlays and scripts of the build    *)
(* put into the target directory.                                          *)
(***************************************************************************)
THEOREM InDb ==
    ASSUME Configuration, CompilesLast, WantsAlone
    PROVE  Spec => []ServicesInDb
<1>1. DbIsCurrent /\ NoServiceTwice /\ EnabledIsThere /\ DhcpIsThere => ServicesInDb
    BY DEF ServicesInDb
<1> QED BY Current, NoneTwice, Enabled, Dhcp, <1>1, PTL
=============================================================================

----------------------------- MODULE S6Services -----------------------------
(***************************************************************************)
(* How the s6-rc services get into the image.  The packages                *)
(* s6-linux-init-skeleton and s6-linux-init-services fill etc/s6-rc/source *)
(* in the target directory; the finalize hooks of the skeleton add the     *)
(* DHCP client and compile the database; overlays and post-build scripts   *)
(* (custom/board) add services and compile it again.  make may fail or be  *)
(* interrupted anywhere, and packages may be installed again.              *)
(***************************************************************************)
EXTENDS Naturals, Sequences, FiniteSets

CONSTANTS
    Bundle,         \* names of the bundles of services
    Skeleton,       \* the contents file of each bundle in the skeleton
    Services,       \* bundle of each service of s6-linux-init-services that
                    \* the configuration enables, or NoBundle
    Httpd,          \* the one whose switch is in the .config of busybox
    DhcpChoices,    \* the services the DHCP client may be rendered as
    Overlay,        \* services in the root filesystem overlays
    PostBuild,      \* post-build scripts in their order: <<"compile">>, or
                    \* <<"enable", service, bundle>>
    Within,         \* the names each name occurs in, as grep sees it
    NoBundle

Package == {"busybox", "skeleton", "services"}
Name == DOMAIN Within

WithinAssumption == \A n \in Name : n \in Within[n] /\ Within[n] \subseteq Name
Listed(c, b) == {c[b][i] : i \in DOMAIN c[b]}

SkeletonAssumption ==
    /\ Skeleton \in [Bundle -> Seq(Name)]
    /\ \A b \in Bundle : Cardinality(Listed(Skeleton, b)) = Len(Skeleton[b])
    /\ "setup-net" \in Bundle
ServicesAssumption ==
    /\ \A s \in DOMAIN Services : s \in Name /\ Services[s] \in Bundle \cup {NoBundle}
    /\ Httpd \in DOMAIN Services
PostBuildAssumption ==
    PostBuild \in Seq({<<"compile">>} \cup ({"enable"} \X Name \X Bundle))
TargetAssumption == DhcpChoices \subseteq Name /\ Overlay \subseteq Name

\* Of the scripts of a board, the last compiles the database again.
CompilesLast ==
    IF PostBuild = <<>> THEN Overlay = {} ELSE PostBuild[Len(PostBuild)] = <<"compile">>

VARIABLES
    installed,  \* packages with their .stamp_target_installed
    bbconfig,   \* busybox has been configured: its .config is there
    dhcp,       \* BR2_SYSTEM_DHCP
    source,     \* services with a directory in etc/s6-rc/source
    contents,   \* sequence of names in the contents file of each bundle
    db,         \* etc/s6-rc/compiled: what it was compiled from, or NoDb
    image,      \* the same in the root filesystem image
    pc,         \* what make does next
    script,     \* the post-build script that runs next, or 0
    list,       \* S6_LINUX_INIT_SERVICES_LIST, as it was parsed
    todo,       \* services the installation has yet to copy
    behind      \* the skeleton went back to the start under the services, or
                \* they were installed without all that are enabled

target == <<source, contents, db>>
vars == <<installed, bbconfig, dhcp, target, image, pc, script, list, todo, behind>>

NoDb == [source |-> {}, contents |-> <<>>]
Compiled(s, c) == [source |-> s, contents |-> c]

Wants == {s \in DOMAIN Services : Services[s] # NoBundle}

\* No other name has that of a service of the package in it.
WantsAlone == \A s \in Wants : Within[s] = {s}

Init ==
    /\ installed = {} /\ bbconfig = FALSE
    /\ dhcp \in DhcpChoices
    /\ source = {} /\ contents = [b \in Bundle |-> <<>>]
    /\ db = NoDb /\ image = NoDb
    /\ pc = "idle" /\ script = 0 /\ list = {} /\ todo = {} /\ behind = FALSE

-----------------------------------------------------------------------------
\* S6_ADD_SERVICE and its like: grep -q finds s in any name it occurs in.
Add(c, s, b) ==
    IF Listed(c, b) \cap Within[s] # {} THEN c
    ELSE [c EXCEPT ![b] = Append(@, s)]

\* s6-rc-compile refuses a bundle that contains what has no directory.
Compiles(s, c) == \A b \in Bundle : Listed(c, b) \subseteq s

Stop ==
    /\ pc' = "idle"
    /\ todo' = {}

\* make parses the makefiles: grep looks for CONFIG_HTTPD in the .config.
Make ==
    /\ pc = "idle"
    /\ list' = IF bbconfig THEN Wants ELSE Wants \ {Httpd}
    /\ pc' = "packages"
    /\ todo' = {}
    /\ UNCHANGED <<installed, bbconfig, dhcp, target, image, behind, script>>

\* Configuring, building and installing busybox.
Busybox ==
    /\ pc = "packages" /\ "busybox" \notin installed
    /\ bbconfig' = TRUE
    /\ installed' \in {installed, installed \cup {"busybox"}}
    /\ IF installed' = installed THEN Stop ELSE UNCHANGED <<pc, todo>>
    /\ UNCHANGED <<dhcp, target, image, list, behind, script>>

\* rm -rf etc/s6-rc, then cp -a files/*
InstallSkeleton ==
    /\ pc = "packages" /\ "skeleton" \notin installed
    /\ source' = UNION {Listed(Skeleton, b) : b \in Bundle}
    /\ contents' = Skeleton
    /\ db' = NoDb
    /\ installed' = installed \cup {"skeleton"}
    /\ behind' = (behind \/ "services" \in installed)
    /\ UNCHANGED <<bbconfig, dhcp, image, pc, list, todo, script>>

\* Killed after rm -rf
InterruptSkeleton ==
    /\ pc = "packages" /\ "skeleton" \notin installed
    /\ source' = {} /\ contents' = [b \in Bundle |-> <<>>] /\ db' = NoDb
    /\ behind' = (behind \/ "services" \in installed)
    /\ Stop
    /\ UNCHANGED <<installed, bbconfig, dhcp, image, list, script>>

BeginServices ==
    /\ pc = "packages" /\ "skeleton" \in installed /\ "services" \notin installed
    /\ todo' = list
    /\ pc' = "services"
    /\ UNCHANGED <<installed, bbconfig, dhcp, target, image, list, behind, script>>

\* cp -a of the service and of its logger
CopyService ==
    /\ pc = "services"
    /\ \E s \in todo \ source :
          /\ source' = source \cup {s}
          /\ UNCHANGED <<installed, bbconfig, dhcp, contents, db, image, pc, list,
                         todo, behind, script>>

AddService ==
    /\ pc = "services"
    /\ \E s \in todo \cap source :
          /\ contents' = Add(contents, s, Services[s])
          /\ todo' = todo \ {s}
    /\ UNCHANGED <<installed, bbconfig, dhcp, source, db, image, pc, list, behind, script>>

EndServices ==
    /\ pc = "services" /\ todo = {}
    /\ installed' = installed \cup {"services"}
    /\ behind' = (list # Wants)
    /\ pc' = "packages"
    /\ UNCHANGED <<bbconfig, dhcp, target, image, list, todo, script>>

-----------------------------------------------------------------------------
RenderDhcp ==
    /\ pc = "packages" /\ installed = Package
    /\ source' = source \cup {dhcp}
    /\ contents' = Add(contents, dhcp, "setup-net")
    /\ pc' = "build db"
    /\ UNCHANGED <<installed, bbconfig, dhcp, db, image, list, todo, behind, script>>

\* rm -rf compiled, s6-rc-compile
Compile(next) ==
    IF Compiles(source, contents)
    THEN db' = Compiled(source, contents) /\ pc' = next /\ todo' = todo
    ELSE db' = NoDb /\ Stop

BuildServiceDb ==
    /\ pc = "build db"
    /\ Compile("overlay")
    /\ UNCHANGED <<installed, bbconfig, dhcp, source, contents, image, list, behind, script>>

CopyOverlay ==
    /\ pc = "overlay"
    /\ source' = source \cup Overlay
    /\ pc' = "post-build" /\ script' = 1
    /\ UNCHANGED <<installed, bbconfig, dhcp, contents, db, image, list, todo, behind>>

RunScript(command) ==
    /\ \/ /\ command[1] = "enable"
          /\ contents' = Add(contents, command[2], command[3])
          /\ UNCHANGED <<db, pc, todo>>
       \/ command[1] = "compile" /\ Compile("post-build") /\ UNCHANGED contents
    /\ script' = script + 1
    /\ UNCHANGED <<installed, bbconfig, dhcp, source, image, list, behind>>

\* Mutant: the scripts run last to first
PostBuildBackwards ==
    /\ pc = "post-build" /\ script \in DOMAIN PostBuild
    /\ RunScript(PostBuild[Len(PostBuild) + 1 - script])

PostBuildScript ==
    /\ pc = "post-build" /\ script \in DOMAIN PostBuild
    /\ RunScript(PostBuild[script])

ImageNext == pc = "post-build" /\ script > Len(PostBuild)

Rootfs ==
    /\ ImageNext
    /\ image' = db
    /\ Stop
    /\ UNCHANGED <<installed, bbconfig, dhcp, target, script, list, behind>>

\* Any recipe may fail, and make may be interrupted.
Fail ==
    /\ pc # "idle"
    /\ Stop
    /\ UNCHANGED <<installed, bbconfig, dhcp, target, image, list, behind, script>>

-----------------------------------------------------------------------------
\* make <pkg>-reinstall, -rebuild and -reconfigure remove the stamp.
Reinstall ==
    /\ pc = "idle"
    /\ \E p \in installed : installed' = installed \ {p}
    /\ UNCHANGED <<bbconfig, dhcp, target, image, pc, list, todo, behind, script>>

Reconfigure ==
    /\ pc = "idle"
    /\ dhcp' \in DhcpChoices
    /\ UNCHANGED <<installed, bbconfig, target, image, pc, list, todo, behind, script>>

Next ==
    \/ Make \/ Busybox \/ InstallSkeleton \/ InterruptSkeleton \/ BeginServices
    \/ CopyService \/ AddService \/ EndServices \/ RenderDhcp \/ BuildServiceDb
    \/ CopyOverlay \/ PostBuildScript \/ Rootfs \/ Fail \/ Reinstall \/ Reconfigure

Spec == Init /\ [][Next]_vars

-----------------------------------------------------------------------------
TypeOK ==
    /\ installed \subseteq Package
    /\ dhcp \in DhcpChoices
    /\ source \subseteq Name
    /\ contents \in [Bundle -> Seq(Name)]
    /\ {db.source, image.source} \subseteq SUBSET Name
    /\ list \subseteq Wants /\ todo \subseteq list
    /\ script \in Nat
    /\ pc = "post-build" => script \in 1..(Len(PostBuild) + 1)

(***************************************************************************)
(* What goes into an image is compiled from the services that are in the   *)
(* target directory by then, those of the overlays and post-build scripts  *)
(* included.                                                               *)
(***************************************************************************)
DbIsCurrent == ImageNext => db = Compiled(source, contents)

(***************************************************************************)
(* No contents file names a service twice, however often packages are      *)
(* installed and finalized.                                                *)
(***************************************************************************)
NoServiceTwice ==
    \A b \in Bundle : Cardinality(Listed(contents, b)) = Len(contents[b])

(***************************************************************************)
(* Every service that is enabled is in the database of the image, and in   *)
(* its bundle, unless the installation of the services missed one or the   *)
(* skeleton was installed again after it.                                  *)
(***************************************************************************)
EnabledIsThere ==
    ImageNext /\ ~behind =>
        \A s \in Wants : s \in db.source /\ s \in Listed(db.contents, Services[s])

(***************************************************************************)
(* The DHCP client of the configuration is set up with the network; unless *)
(* grep found its name in that of a client rendered before, as in the name *)
(* of a VLAN on the same interface.                                        *)
(***************************************************************************)
DhcpIsThere ==
    ImageNext =>
        /\ dhcp \in db.source
        /\ \E s \in Within[dhcp] : s \in Listed(db.contents, "setup-net")

\* All of this
ServicesInDb == DbIsCurrent /\ NoServiceTwice /\ EnabledIsThere /\ DhcpIsThere
=============================================================================

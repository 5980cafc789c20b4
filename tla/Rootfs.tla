------------------------------- MODULE Rootfs -------------------------------
(***************************************************************************)
(* The root filesystem images (fs/common.mk): one recipe per format, run   *)
(* one after the other over the same target directory, fakeroot script,    *)
(* users table and device table.  Each may fail or be killed between any   *)
(* two of its commands, and make is run again with another configuration.  *)
(*                                                                         *)
(* fakeroot keeps the owners and devices for one script; in the target     *)
(* directory itself a device is an empty file.                             *)
(***************************************************************************)
EXTENDS Makedevs

CONSTANTS
    Formats,    \* TARGETS_ROOTFS, in the order make builds them
    Warning,    \* TARGET_DIR_WARNING_FILE
    Uid,        \* the ids mkusers gives users, or the skeleton has
    InSkeleton, \* the users of the skeleton
    Target,     \* the target directory before the first image
    Configs     \* what may be configured: the lines of the users tables (a
                \* user, its home, whether its uid is generated), those of
                \* BR2_ROOTFS_DEVICE_TABLE and of the packages' permissions

NoTable == <<[type |-> "none"]>>

\* All above what is there are directories.
Whole(fs) == \A p, q \in Path : Is(fs, p) /\ IsStrictPrefix(q, p) => fs[q].kind = "d"

Component == UNION {ToSet(p) : p \in Path}
PathAssumption == \A p \in Path : p \in Seq(Component) /\ p # <<>> /\ (Parent(p) # <<>> => Parent(p) \in Path)

FormatsAssumption == Formats \in Seq(ToSet(Formats)) /\ Formats # <<>>

\* It belongs to who builds, that is, under fakeroot to root, and holds more
\* than the warning.
TargetAssumption ==
    /\ Target = [p \in Path |-> Node(Target[p].kind, Target[p].mode, 0, 0, <<0, 0>>)]
    /\ \A p \in Path : Target[p].kind \in {"d", "f"} \/ Target[p] = NoNode
    /\ Whole(Target)
    /\ Warning \in Path /\ Parent(Warning) = <<>> /\ Target[Warning].kind = "f"
    /\ \E p \in Path : p # Warning /\ Is(Target, p)

\* Nothing is configured to be where the warning is; a device is given a mode.
UserAssumption(l) ==
    l.user \in DOMAIN Uid /\ l.home \in Path /\ ~IsPrefix(Warning, l.home) /\ l.auto \in BOOLEAN

LineAssumption(l) ==
    /\ l.type \in {"d", "f", "r"} => l.path \in Path
    /\ l.type \in Devices => l.mode # NoMode /\ \A n \in Nodes(l) : n.path \in Path \ {Warning}
    /\ l.type = "d" => ~IsPrefix(Warning, l.path)

ConfigsAssumption ==
    \A c \in Configs :
        /\ c.users \in Seq(ToSet(c.users)) /\ \A l \in ToSet(c.users) : UserAssumption(l)
        /\ c.devices \in Seq(ToSet(c.devices)) /\ c.permissions \in Seq(ToSet(c.permissions))
        /\ \A l \in ToSet(c.devices) \cup ToSet(c.permissions) : LineAssumption(l)

RootfsAssumption == PathAssumption /\ FormatsAssumption /\ TargetAssumption /\ ConfigsAssumption

VARIABLES
    conf,       \* the configuration
    target,     \* the target directory; accounts is its etc/passwd and etc/group
    utable,     \* _users_table.txt; dtable is _device_table.txt, or NoTable
    script,     \* _fakeroot.fs
    pc, todo,   \* the next command of the recipe; the formats yet to build
    left,       \* what is left of the script while it runs
    before,     \* what fake, the target directory as fakeroot shows it, was
                \* when the script began, owned by root
    image       \* the images in images/: the paths in them

files == <<target, accounts, utable, dtable, script>>
devs == <<read, ret>>
vars == <<conf, files, pc, todo, left, fake, before, image, devs>>

NoImage == {}

Init ==
    /\ conf \in Configs
    /\ target = Target
    /\ accounts = [u \in InSkeleton |-> Uid[u]]
    /\ utable = <<>> /\ dtable = NoTable /\ script = <<>>
    /\ pc = "off" /\ todo = <<>>
    /\ left = <<>> /\ fake = Target /\ before = Target
    /\ read = 0 /\ ret = 0
    /\ image = [f \in ToSet(Formats) |-> NoImage]

\* make, once the target directory is finalized
Make ==
    /\ pc = "off"
    /\ conf' \in Configs
    /\ pc' = "clean" /\ todo' = Formats
    /\ UNCHANGED <<files, left, fake, before, image, devs>>

Go(next) == pc' = next /\ UNCHANGED <<conf, todo, left, fake, before, image, devs>>

\* rm -f of the script, the warning and the users table, then the two first
\* lines of the script
Clean ==
    /\ pc = "clean"
    /\ script' = <<>> /\ utable' = <<>>
    /\ target' = [target EXCEPT ![Warning] = NoNode]
    /\ UNCHANGED <<accounts, dtable>>
    /\ Go("chown")

Chown ==
    /\ pc = "chown"
    /\ script' = Append(script, [do |-> "chown", of |-> <<>>])
    /\ UNCHANGED <<target, accounts, utable, dtable>>
    /\ Go("users")

\* cat and printf into the users table
UsersTable ==
    /\ pc = "users"
    /\ utable' = utable \o conf.users
    /\ UNCHANGED <<target, accounts, dtable, script>>
    /\ Go("mkusers")

\* mkusers adds the users whose uid is given, then those it generates one for,
\* each in the order of the table.
AddedBefore(i, j) == IF utable[i].auto = utable[j].auto THEN i < j ELSE utable[j].auto

\* The accounts and the homes: mkdir -p fails where a file is in the way.
AddUsers ==
    LET Of(p) == {l \in ToSet(utable) : IsPrefix(p, l.home)}
    IN  /\ \A p \in Path : Of(p) # {} /\ Is(target, p) => IsDir(target, p)
        /\ accounts' = [u \in DOMAIN accounts \cup {l.user : l \in ToSet(utable)} |-> Uid[u]]
        /\ target' = [p \in Path |-> IF Of(p) # {} /\ ~Is(target, p) THEN Node("d", 493, 0, 0, <<0, 0>>)
                                     ELSE target[p]]

\* Mutant: the users are added in one pass over the table
MkUsersOnePass ==
    /\ pc = "mkusers"
    /\ AddUsers
    /\ script' = script \o [i \in DOMAIN utable |-> [do |-> "home", of |-> utable[i]]]
    /\ UNCHANGED <<utable, dtable>>
    /\ Go("devices")

\* A chown of each home, as the user is added
MkUsers ==
    /\ pc = "mkusers"
    /\ AddUsers
    /\ \E order \in SetToSeqs(DOMAIN utable) :
          /\ \A i, j \in DOMAIN order : i < j => AddedBefore(order[i], order[j])
          /\ script' = script \o [i \in DOMAIN order |-> [do |-> "home", of |-> utable[order[i]]]]
    /\ UNCHANGED <<utable, dtable>>
    /\ Go("devices")

\* Mutant: the device table grows
DeviceTableGrows ==
    /\ pc = "devices" /\ conf.devices # NoTable
    /\ dtable' = (IF dtable = NoTable THEN <<>> ELSE dtable) \o conf.devices
    /\ UNCHANGED <<target, accounts, utable, script>>
    /\ Go("permissions")

\* cat > _device_table.txt, if there are device tables to begin with
DeviceTable ==
    /\ pc = "devices" /\ conf.devices # NoTable
    /\ dtable' = conf.devices
    /\ UNCHANGED <<target, accounts, utable, script>>
    /\ Go("permissions")

NoDeviceTable ==
    /\ pc = "devices" /\ conf.devices = NoTable
    /\ UNCHANGED files
    /\ Go("command")

\* PACKAGES_PERMISSIONS_TABLE, and makedevs in the script
Permissions ==
    /\ pc = "permissions"
    /\ dtable' = dtable \o conf.permissions
    /\ script' = Append(script, [do |-> "makedevs", of |-> <<>>])
    /\ UNCHANGED <<target, accounts, utable>>
    /\ Go("command")

Command ==
    /\ pc = "command"
    /\ script' = Append(script, [do |-> "image", of |-> Head(todo)])
    /\ UNCHANGED <<target, accounts, utable, dtable>>
    /\ Go("fakeroot")

-----------------------------------------------------------------------------
\* What is in the target directory of what fakeroot shows, and the reverse:
\* what it does not know belongs to root.
Real(n) ==
    IF n.kind \in {"c", "b", "p"} THEN Node("f", n.mode, 0, 0, <<0, 0>>)
    ELSE Node(n.kind, n.mode, 0, 0, <<0, 0>>)
Shows(fs) == target' = [p \in Path |-> Real(fs[p])] /\ fake' = fs

\* The script is over: what fakeroot knew is forgotten.
Over == left' = <<>> /\ fake' = Target /\ before' = Target /\ read' = 0 /\ ret' = 0

Fakeroot ==
    /\ pc = "fakeroot"
    /\ left' = script
    /\ fake' = target /\ before' = target
    /\ pc' = "script"
    /\ UNCHANGED <<conf, files, todo, image, devs>>

Running(what) == pc = "script" /\ left # <<>> /\ Head(left).do = what

Continue == left' = Tail(left) /\ UNCHANGED <<conf, accounts, utable, dtable, script, pc, todo, before>>

\* chown -h -R 0:0
ChownAll ==
    /\ Running("chown")
    /\ Shows([p \in Path |-> [fake[p] EXCEPT !.uid = 0, !.gid = 0]])
    /\ UNCHANGED <<image, devs>>
    /\ Continue

\* chown -h -R of a home directory
ChownHome ==
    /\ Running("home")
    /\ LET l == Head(left).of
           id == Uid[l.user]
           mine == {p \in Below(l.home) : Is(fake, p)}
       IN  Shows([p \in Path |-> IF p \in mine THEN [fake[p] EXCEPT !.uid = id, !.gid = id] ELSE fake[p]])
    /\ UNCHANGED <<image, devs>>
    /\ Continue

MakedevsLine ==
    /\ Running("makedevs")
    /\ ReadLine
    /\ target' = [p \in Path |-> Real(fake'[p])]
    /\ UNCHANGED <<conf, accounts, utable, dtable, script, pc, todo, left, before, image>>

\* set -e: a failure of makedevs is one of the script and of the recipe.
MakedevsEnd ==
    /\ Running("makedevs") /\ read = Len(dtable)
    /\ IF ret = 0 THEN Continue
       ELSE pc' = "failed" /\ UNCHANGED <<conf, accounts, utable, dtable, script, todo, left, before>>
    /\ UNCHANGED <<target, fake, image, devs>>

\* The command of the format writes the image.
WriteImage ==
    /\ Running("image")
    /\ image' = [image EXCEPT ![Head(left).of] = {p \in Path : Is(fake, p)}]
    /\ UNCHANGED <<target, fake, devs>>
    /\ Continue

\* The warning is put back, the script and the device table are removed.
Restore ==
    /\ pc = "script" /\ left = <<>>
    /\ target' = [target EXCEPT ![Warning] = Target[Warning]]
    /\ script' = <<>> /\ dtable' = NoTable
    /\ todo' = Tail(todo)
    /\ pc' = IF Len(todo) = 1 THEN "made" ELSE "clean"
    /\ Over
    /\ UNCHANGED <<conf, accounts, utable, image>>

\* make ends well.
End ==
    /\ pc = "made"
    /\ pc' = "off"
    /\ UNCHANGED <<conf, files, todo, left, fake, before, image, devs>>

\* A command fails, or make is interrupted, between two commands or two lines
\* of makedevs; the image it was at is removed or cut short.
Stop ==
    /\ pc \notin {"off", "made"}
    /\ pc' = "off" /\ Over
    /\ \/ image' = image
       \/ image' = [image EXCEPT ![Head(todo)] = NoImage]
    /\ UNCHANGED <<conf, files, todo>>

Next ==
    \/ Make \/ Clean \/ Chown \/ UsersTable \/ MkUsers \/ DeviceTable \/ NoDeviceTable
    \/ Permissions \/ Command \/ Fakeroot \/ ChownAll \/ ChownHome \/ MakedevsLine
    \/ MakedevsEnd \/ WriteImage \/ Restore \/ End \/ Stop

Spec == Init /\ [][Next]_vars

-----------------------------------------------------------------------------
\* What the users table makes of a file system.  Where homes are below each
\* other, a path belongs to the user of the last line whose home it is in; of
\* one whose uid is generated, if there is such a line.
Owned(fs) ==
    [p \in Path |->
        LET over == {i \in DOMAIN utable : IsPrefix(utable[i].home, p)}
            auto == {i \in over : utable[i].auto}
            id == Uid[utable[Max(IF auto # {} THEN auto ELSE over)].user]
        IN  IF over = {} \/ ~Is(fs, p) THEN fs[p] ELSE [fs[p] EXCEPT !.uid = id, !.gid = id]]

\* Whatever failed or was left behind before, an image that is written holds
\* the target directory with the owners, modes and devices of the tables that
\* are configured now.
ImageAsTables ==
    Running("image") =>
        IF conf.devices = NoTable THEN fake = Owned(before)
        ELSE LET table == conf.devices \o conf.permissions
             IN  AsTable(Owned(before), fake, table, Len(table))

\* After a successful make there are all images, none with the warning about
\* the target directory, which has it again.
ImagesAreWhole ==
    pc = "made" =>
        /\ \A f \in ToSet(Formats) : image[f] # NoImage /\ Warning \notin image[f]
        /\ Is(target, Warning)
=============================================================================

------------------------------- MODULE MkUsers ------------------------------
(***************************************************************************)
(* support/scripts/mkusers: the users table of the packages, applied to    *)
(* /etc/group and /etc/passwd of the target directory in five passes over  *)
(* its lines.  Every root filesystem image runs it again on the same       *)
(* target directory, and so does make after an interruption.               *)
(*                                                                         *)
(* A password entry is a uid and a gid.  Home directories, shells and      *)
(* passwords, on which no decision about ids depends, are left out.        *)
(***************************************************************************)
EXTENDS Integers, Sequences, FiniteSets, SequencesExt, FiniteSetsExt

CONSTANTS
    User,       \* user names other than "-" that the skeleton does not have
    Group,      \* group names
    MinId, MaxId,       \* MIN_GID and MIN_UID, MAX_GID and MAX_UID
    Skeleton,   \* gid of the groups of the skeleton, None for the others
    Tables      \* users tables to consider: sequences of lines

None == 0 - 2           \* there is no such group or user
Automatic == 0 - 1           \* "-1" in the table
NoUser == "-"           \* the line only creates a group
Id == {None} \cup Nat

Line == [username : User \cup {NoUser, "root"}, uid : {Automatic} \cup Nat,
         group : Group, gid : {Automatic} \cup Nat, groups : Seq(Group),
         home : BOOLEAN]     \* FALSE: "/" or a relative path

RangeAssumption == MinId \in Nat \ {0} /\ MaxId \in Nat /\ MinId <= MaxId
SkeletonAssumption ==
    /\ Skeleton \in [Group -> Id]
    /\ \A g, h \in Group : Skeleton[g] = Skeleton[h] => g = h \/ Skeleton[g] = None
SkeletonOutside == \A g \in Group : Skeleton[g] \notin MinId..MaxId
TablesAssumption == \A t \in Tables : t \in Seq(Line)

VARIABLES
    table,      \* the users table
    gid,        \* /etc/group: gid of each group
    member,     \* and the users it lists
    uid, ugid,  \* /etc/passwd: uid and main gid of each user
    pc,         \* "idle", or the pass
    line,       \* the line this pass has come to
    queue,      \* additional groups of the line it has yet to add
    rc,         \* of the last run; None when it was killed or there was none
    last        \* what /etc/group and /etc/passwd were after the last success

files == <<gid, member, uid, ugid>>
vars == <<table, files, pc, line, queue, rc, last>>

Pass == <<"groups", "auto_groups", "more_groups", "users", "auto_users">>

Init ==
    /\ table \in Tables
    /\ gid = Skeleton
    /\ member = [g \in Group |-> {}]
    /\ uid = [u \in User |-> None]
    /\ ugid = [u \in User |-> None]
    /\ pc = "idle" /\ line = 1 /\ queue = <<>>
    /\ rc = None
    /\ last = <<>>

-----------------------------------------------------------------------------
Name(ids, i) == {n \in DOMAIN ids : ids[n] = i}

\* Mutant: the last id of the range is taken to be free
GenerateLast(ids, n) ==
    IF ids[n] # None THEN ids[n]
    ELSE Min({i \in MinId..MaxId : Name(ids, i) = {} \/ i = MaxId})

\* Mutant: what exists gets a new id
GenerateNew(ids, n) ==
    Min({i \in MinId..(MaxId + 1) : Name(ids, i) = {} \/ i = MaxId + 1})

\* The lowest free id of the range; MaxId + 1 when there is none.
Generate(ids, n) ==
    IF ids[n] # None THEN ids[n]
    ELSE Min({i \in MinId..(MaxId + 1) : Name(ids, i) = {} \/ i = MaxId + 1})

Wanted(ids, n, i) == IF i = Automatic THEN Generate(ids, n) ELSE i

\* check_user_validity.  An id that two groups have names them both.
Valid(l) ==
    LET others(names, n) == names # {} /\ names # {n}
    IN  /\ l.username # "root"
        /\ l.gid # 0
        /\ l.gid # Automatic =>
              /\ ~others(Name(gid, l.gid), l.group)
              /\ gid[l.group] \in {None, l.gid}
              /\ ugid[l.username] \in {None, l.gid}
        /\ l.uid # 0
        /\ l.uid # Automatic =>
              /\ ~others(Name(uid, l.uid), l.username)
              /\ uid[l.username] \in {None, l.uid}
        /\ ~others(Name(gid, ugid[l.username]) \ Name(gid, None), l.group)

Running == pc # "idle"

Here == table[line]

Mine ==
    CASE pc = "groups" -> Here.gid # Automatic
      [] pc = "auto_groups" -> Here.gid = Automatic
      [] pc = "more_groups" -> TRUE
      [] pc = "users" -> Here.username # NoUser /\ Here.uid # Automatic
      [] pc = "auto_users" -> Here.username # NoUser /\ Here.uid = Automatic

\* What the pass does with the line is done.
Advance ==
    /\ line' = line + 1
    /\ queue' = IF pc = "more_groups" /\ line < Len(table)
                THEN table[line + 1].groups ELSE <<>>

Exit(code) ==
    /\ pc' = "idle"
    /\ rc' = code
    /\ line' = 1 /\ queue' = <<>>

-----------------------------------------------------------------------------
Run ==
    /\ pc = "idle"
    /\ pc' = Pass[1]
    /\ rc' = None
    /\ UNCHANGED <<table, files, line, queue, last>>

EndPass ==
    /\ Running /\ line > Len(table)
    /\ IF pc = "auto_users"
       THEN Exit(0) /\ last' = files
       ELSE /\ pc' = Pass[(CHOOSE i \in 1..4 : Pass[i] = pc) + 1]
            /\ line' = 1
            /\ queue' = IF pc' = "more_groups" /\ table # <<>>
                        THEN table[1].groups ELSE <<>>
            /\ UNCHANGED <<rc, last>>
    /\ UNCHANGED <<table, files>>

Skip ==
    /\ Running /\ line <= Len(table)
    /\ Mine => pc = "more_groups" /\ queue = <<>>
    /\ Advance
    /\ UNCHANGED <<table, files, pc, rc, last>>

\* The group this pass adds next, and the gid it wants.
GroupDue ==
    IF ~Running \/ line > Len(table) \/ ~Mine THEN {}
    ELSE IF pc \in {"groups", "auto_groups"} THEN {<<Here.group, Here.gid>>}
    ELSE IF pc = "more_groups" /\ queue # <<>> THEN {<<Head(queue), Automatic>>}
    ELSE {}

NoIdLeft(ids, n, want) == want = Automatic /\ ids[n] = None /\ Generate(ids, n) > MaxId

\* add_one_group: the new entry replaces the old one and has no members.
AddGroup ==
    \E d \in GroupDue :
        /\ ~NoIdLeft(gid, d[1], d[2])
        /\ gid' = [gid EXCEPT ![d[1]] = Wanted(gid, d[1], d[2])]
        /\ member' = [member EXCEPT ![d[1]] = {}]
        /\ IF pc = "more_groups"
           THEN queue' = Tail(queue) /\ line' = line
           ELSE Advance
        /\ UNCHANGED <<table, uid, ugid, pc, rc, last>>

NoGid ==
    /\ \E d \in GroupDue : NoIdLeft(gid, d[1], d[2])
    /\ Exit(1)
    /\ UNCHANGED <<table, files, last>>

\* Killed after sed, before printf: the entry is gone.
KilledInGroup ==
    \E d \in GroupDue :
        /\ ~NoIdLeft(gid, d[1], d[2])
        /\ gid' = [gid EXCEPT ![d[1]] = None]
        /\ member' = [member EXCEPT ![d[1]] = {}]
        /\ Exit(None)
        /\ UNCHANGED <<table, uid, ugid, last>>

UserDue == pc \in {"users", "auto_users"} /\ line <= Len(table) /\ Mine

\* add_one_user: the new entry replaces the old one.  get_gid is asked only then.
AddUser ==
    LET u == Here.username
    IN  /\ UserDue /\ Valid(Here) /\ ~NoIdLeft(uid, u, Here.uid) /\ Here.home
        /\ uid' = [uid EXCEPT ![u] = Wanted(uid, u, Here.uid)]
        /\ ugid' = [ugid EXCEPT ![u] = gid[Here.group]]
        /\ member' = [g \in Group |->
              IF g \in ToSet(Here.groups) THEN member[g] \cup {u} ELSE member[g]]
        /\ Advance
        /\ UNCHANGED <<table, gid, pc, rc, last>>

Refuse ==
    /\ UserDue
    /\ Valid(Here) => NoIdLeft(uid, Here.username, Here.uid)
    /\ Exit(1)
    /\ UNCHANGED <<table, files, last>>

\* The old entry is gone when the home directory is refused, or mkusers killed.
LoseUser ==
    /\ UserDue /\ Valid(Here) /\ ~NoIdLeft(uid, Here.username, Here.uid)
    /\ uid' = [uid EXCEPT ![Here.username] = None]
    /\ ugid' = [ugid EXCEPT ![Here.username] = None]
    /\ IF Here.home THEN Exit(None) ELSE Exit(1)
    /\ UNCHANGED <<table, gid, member, last>>

Kill ==
    /\ Running
    /\ Exit(None)
    /\ UNCHANGED <<table, files, last>>

Next ==
    \/ Run \/ EndPass \/ Skip \/ AddGroup \/ NoGid \/ AddUser \/ Refuse
    \/ KilledInGroup \/ LoseUser \/ Kill

Spec == Init /\ [][Next]_vars

-----------------------------------------------------------------------------
TypeOK ==
    /\ gid \in [Group -> Id] /\ member \in [Group -> SUBSET User]
    /\ uid \in [User -> Id] /\ ugid \in [User -> Id]
    /\ \A u \in User : (uid[u] = None) <=> (ugid[u] = None)
    /\ pc \in {"idle"} \cup {Pass[i] : i \in 1..5}
    /\ line \in 1..(Len(table) + 1)
    /\ queue \in Seq(Group)
    /\ rc \in {None, 0, 1}

Creates(l) == l.username # NoUser

(***************************************************************************)
(* After a success the table is what it says: each user has the uid its    *)
(* line gives, is in the group of its line and in the additional ones, and *)
(* a generated id is in the range, however often mkusers was killed or run *)
(* on the directory before.                                                *)
(***************************************************************************)
AsTable ==
    rc = 0 =>
        \A i \in DOMAIN table :
            LET l == table[i]
            IN  /\ gid[l.group] # None
                /\ \A g \in ToSet(l.groups) : gid[g] # None
                /\ Creates(l) =>
                      /\ uid[l.username] = l.uid
                            \/ (l.uid = Automatic /\ uid[l.username] \in MinId..MaxId)
                            \/ \E j \in DOMAIN table : /\ table[j].username = l.username
                                                       /\ table[j].uid = uid[l.username]
                      /\ ugid[l.username] = gid[l.group]
                      /\ l.gid \in {Automatic, gid[l.group]}
                      /\ \A g \in ToSet(l.groups) : l.username \in member[g]

(***************************************************************************)
(* No two users share a uid, and no two groups a generated gid.            *)
(***************************************************************************)
GeneratedIsUnique ==
    /\ \A u, v \in User : uid[u] = uid[v] => u = v \/ uid[u] = None
    /\ \A g, h \in Group :
          g # h /\ gid[g] = gid[h] =>
              \/ gid[g] = None
              \/ \E i \in DOMAIN table : table[i].group \in {g, h} /\ table[i].gid = gid[g]

(***************************************************************************)
(* A second run on the same target directory, for another image or after   *)
(* an interruption, ends with the same ids and members as the last that    *)
(* succeeded; unless a kill made a group of the skeleton lose its gid,     *)
(* which can make others swap theirs.                                      *)
(***************************************************************************)
Given(g) == \E i \in DOMAIN table : table[i].group = g /\ table[i].gid # Automatic

SkeletonKept == \A g \in Group : Skeleton[g] # None /\ ~Given(g) => gid[g] = Skeleton[g]

RepeatsLast == rc' = 0 /\ last # <<>> /\ SkeletonKept => last' = last

(***************************************************************************)
(* mkusers refuses a table that gives no ids only for a user that is in    *)
(* two groups, is called root or has a bad home, or when the range is used *)
(* up; unless a kill made a group of the skeleton lose its gid.            *)
(***************************************************************************)
RefusedForReason ==
    /\ rc = 1 /\ SkeletonKept
    /\ \A i \in DOMAIN table : table[i].gid = Automatic /\ table[i].uid = Automatic
    =>  \/ \E i \in DOMAIN table : table[i].username = "root" \/ ~table[i].home
        \/ \E i, j \in DOMAIN table :
              /\ Creates(table[i]) /\ table[i].username = table[j].username
              /\ table[i].group # table[j].group
        \/ MinId..MaxId \subseteq {gid[g] : g \in Group}
        \/ MinId..MaxId \subseteq {uid[u] : u \in User}
=============================================================================

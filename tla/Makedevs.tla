------------------------------ MODULE Makedevs ------------------------------
(***************************************************************************)
(* makedevs (package/makedevs/makedevs.c), one line of its device table    *)
(* after the other.  It runs under fakeroot, which keeps the owners and    *)
(* the devices.                                                            *)
(*                                                                         *)
(* A file system is a function from Path to nodes; a path is the sequence  *)
(* of its components, a component a name and a number, or NoNumber.  The   *)
(* fields of a line end at the first "-": the numbers after it are 0.      *)
(***************************************************************************)
EXTENDS Integers, SequencesExt

CONSTANTS
    Path,       \* the paths that matter, with all their prefixes
    MaxNumber   \* the largest number a line may hold, 0xfffff

VARIABLES
    accounts,   \* PASSWD_PATH and GROUP_PATH
    dtable,     \* the table
    fake,       \* the file system
    read,       \* the lines that were read; all, once the program has ended
    ret         \* what it will exit with

NoNumber == 0 - 1
NoMode == 0 - 1     \* "-1": the mode is left as it is
AllModes == 4095    \* 07777
OpenModes == 511    \* 0777

NoNode == [kind |-> "none", mode |-> 0, uid |-> 0, gid |-> 0, dev |-> <<0, 0>>]
Node(kind, mode, uid, gid, dev) == [kind |-> kind, mode |-> mode, uid |-> uid, gid |-> gid, dev |-> dev]

Is(fs, p) == fs[p] # NoNode
Parent(p) == Front(p)
IsDir(fs, p) == p = <<>> \/ fs[p].kind = "d"
Below(p) == {q \in Path : IsPrefix(p, q)}

Number(l, i) == IF i <= Len(l.numbers) THEN l.numbers[i] ELSE 0
Major(l) == Number(l, 1)
Minor(l) == Number(l, 2)
Start(l) == Number(l, 3)
Increment(l) == Number(l, 4)
Count(l) == Number(l, 5)
Invalid(l) == \E i \in DOMAIN l.numbers : l.numbers[i] > MaxNumber

\* get_ug_id: a number is taken as it is, a name must be in the file.
Known(id) == id[1] = "name" => id[2] \in DOMAIN accounts
IdOf(id) == IF id[1] = "number" THEN id[2] ELSE accounts[id[2]]

-----------------------------------------------------------------------------
\* bb_make_directory with FILEUTILS_RECUR: the directories above that are
\* missing get all the modes the umask, which is 0, allows; with a mode of -1
\* the directory itself gets every bit there is.
MakeDirectory(fs, p, mode) ==
    IF \E q \in Path : IsStrictPrefix(q, p) /\ Is(fs, q) /\ ~IsDir(fs, q) THEN fs
    ELSE [q \in Path |->
            IF Is(fs, q) \/ ~IsPrefix(q, p) THEN fs[q]
            ELSE Node("d", IF q # p THEN OpenModes ELSE IF mode = NoMode THEN AllModes ELSE mode,
                      0, 0, <<0, 0>>)]

\* chown, then chmod unless the mode is -1
Set(n, l) ==
    [n EXCEPT !.uid = IdOf(l.user), !.gid = IdOf(l.group), !.mode = IF l.mode = NoMode THEN @ ELSE l.mode]

Types == {"d", "f", "r", "c", "b", "p"}
Devices == {"c", "b", "p"}

\* The nodes a line stands for: one, or as many as it says, with numbers
Numbered(p, n) == Append(Parent(p), <<Last(p)[1], n>>)
Nodes(l) ==
    IF Count(l) = 0 THEN {[path |-> l.path, dev |-> <<Major(l), Minor(l)>>]}
    ELSE {[path |-> Numbered(l.path, Start(l) + i), dev |-> <<Major(l), Minor(l) + i * Increment(l)>>] :
            i \in 0..(Count(l) - 1)}

\* fakeroot's mknod makes an empty file, of one that is there already too.
CanMknod(p) == IsDir(fake, Parent(p)) /\ fake[p].kind # "d"

\* mknod and chown; where mknod fails, chmod is tried all the same.
Mknod(n, l) ==
    IF CanMknod(n.path) THEN Node(l.type, l.mode, IdOf(l.user), IdOf(l.group), n.dev)
    ELSE [fake[n.path] EXCEPT !.mode = IF Is(fake, n.path) THEN l.mode ELSE @]

-----------------------------------------------------------------------------
\* A turn of the loop of main, by the line that is read: what it leaves, and
\* whether it is an error.  The loop goes on after an error.
Current == dtable[read + 1]

Turn(fs, error) ==
    /\ fake' = fs
    /\ ret' = IF error THEN 1 ELSE ret
    /\ read' = read + 1

Reads == read < Len(dtable)
Applies(types) ==
    Reads /\ Current.type \in types /\ ~Invalid(Current) /\ Known(Current.group) /\ Known(Current.user)

Comment == Reads /\ Current.type = "comment" /\ Turn(fake, FALSE)

InvalidLine == Reads /\ Current.type # "comment" /\ Invalid(Current) /\ Turn(fake, TRUE)

\* bb_error_msg_and_die: the rest of the table is not read.
UnknownName ==
    /\ Reads /\ Current.type # "comment" /\ ~Invalid(Current)
    /\ ~Known(Current.group) \/ ~Known(Current.user)
    /\ read' = Len(dtable) /\ ret' = 1
    /\ UNCHANGED fake

DirLine ==
    /\ Applies({"d"})
    /\ LET l == Current
           made == MakeDirectory(fake, l.path, l.mode)
       IN  IF Is(made, l.path) THEN Turn([made EXCEPT ![l.path] = Set(@, l)], FALSE) ELSE Turn(made, TRUE)

FileLine ==
    /\ Applies({"f"})
    /\ LET l == Current
       IN  IF fake[l.path].kind = "f" THEN Turn([fake EXCEPT ![l.path] = Set(@, l)], FALSE) ELSE Turn(fake, TRUE)

RecursiveLine ==
    /\ Applies({"r"})
    /\ LET l == Current
       IN  Turn([q \in Path |-> IF q \in Below(l.path) /\ Is(fake, l.path) /\ Is(fake, q)
                                THEN Set(fake[q], l) ELSE fake[q]],
                ~Is(fake, l.path))

NodeLine ==
    /\ Applies(Devices)
    /\ LET l == Current
       IN  Turn([q \in Path |-> IF \E n \in Nodes(l) : n.path = q
                                THEN Mknod(CHOOSE n \in Nodes(l) : n.path = q, l) ELSE fake[q]],
                \E n \in Nodes(l) : ~CanMknod(n.path))

\* A type there is none of
OtherLine == Applies({Current.type} \ (Types \cup {"comment"})) /\ Turn(fake, TRUE)

ReadLine ==
    \/ Comment \/ InvalidLine \/ UnknownName \/ OtherLine
    \/ DirLine \/ FileLine \/ RecursiveLine \/ NodeLine

-----------------------------------------------------------------------------
\* The paths a line is about: of type r, all that is below
Named(l) ==
    CASE l.type = "comment" -> {}
      [] l.type = "r" -> Below(l.path)
      [] l.type \in Devices -> {n.path : n \in Nodes(l)}
      [] OTHER -> {l.path}

\* The paths that are there because of it
Makes(l, p) ==
    \/ l.type = "d" /\ IsPrefix(p, l.path)
    \/ l.type \in Devices /\ p \in Named(l)

\* What is there after n lines of a table, and the lines that were about it
There(before, table, n, p) == Is(before, p) \/ \E i \in 1..n : Makes(table[i], p)
About(before, table, n, p) == {i \in 1..n : p \in Named(table[i]) /\ There(before, table, i, p)}

\* What the first n lines of a table make of a file system.  What is there has
\* the owner the last line about it says, and the mode of the last that gives
\* one; it is the device of the last line for devices, or what it was, or a
\* directory.  A directory no line is about is one on the way to another.
AsTable(before, after, table, n) ==
    \A p \in Path :
        LET about == About(before, table, n, p)
            modes == {i \in about : table[i].mode # NoMode}
            devices == {i \in about : table[i].type \in Devices}
        IN  IF ~There(before, table, n, p) THEN after[p] = NoNode
            ELSE /\ Is(after, p)
                 /\ <<after[p].uid, after[p].gid>> =
                        IF about = {} THEN <<before[p].uid, before[p].gid>>
                        ELSE <<IdOf(table[Max(about)].user), IdOf(table[Max(about)].group)>>
                 /\ after[p].mode \in
                        IF modes # {} THEN {table[Max(modes)].mode}
                        ELSE IF Is(before, p) THEN {before[p].mode} ELSE {OpenModes, AllModes}
                 /\ IF devices # {}
                    THEN /\ after[p].kind = table[Max(devices)].type
                         /\ [path |-> p, dev |-> after[p].dev] \in Nodes(table[Max(devices)])
                    ELSE /\ after[p].kind = IF Is(before, p) THEN before[p].kind ELSE "d"
                         /\ after[p].dev = before[p].dev
=============================================================================

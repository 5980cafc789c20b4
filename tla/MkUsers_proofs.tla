--------------------------- MODULE MkUsers_proofs ----------------------------
(***************************************************************************)
(* What mkusers makes of /etc/group and /etc/passwd, for any table, any    *)
(* range and any skeleton, however often it is killed and run again: ids   *)
(* are unique, the table is obeyed, every success gives the same, and a    *)
(* failure has its reason in the table.                                    *)
(***************************************************************************)
EXTENDS MkUsers, WellFoundedInduction, TLAPS

LEMMA LeastOf ==
    ASSUME NEW S, S \subseteq Nat, S # {}
    PROVE  Min(S) \in S /\ \A y \in S : Min(S) <= y
<1> DEFINE Less == {p \in Nat \X Nat : p[1] < p[2]}
<1>1. IsWellFoundedOn(Less, Nat)
  BY NatLessThanWellFounded DEF OpToRel
<1>2. \A x, y \in Nat : y < x => <<y, x>> \in Less
  OBVIOUS
<1> HIDE DEF Less
<1>3. PICK x \in S : \A y \in S : <<y, x>> \notin Less
  BY <1>1, WFMin
<1>4. \A y \in S : x <= y
  <2> SUFFICES ASSUME NEW y \in S PROVE x <= y
    OBVIOUS
  <2>1. x \in Nat /\ y \in Nat /\ ~(y < x)
    BY <1>2, <1>3
  <2> QED BY <2>1
<1> QED BY <1>4 DEF Min

(***************************************************************************)
(* get_next_gid and its like: what exists keeps its id, what is new gets   *)
(* one that is free, if there is one.                                      *)
(***************************************************************************)
LEMMA GenerateFree ==
    ASSUME RangeAssumption, NEW ids, NEW n, ids[n] = None
    PROVE  /\ Generate(ids, n) \in Nat /\ MinId <= Generate(ids, n)
           /\ Generate(ids, n) <= MaxId => Name(ids, Generate(ids, n)) = {}
           /\ \A i \in MinId..MaxId : i < Generate(ids, n) => Name(ids, i) # {}
<1> DEFINE S == {i \in MinId..(MaxId + 1) : Name(ids, i) = {} \/ i = MaxId + 1}
<1>1. MinId..(MaxId + 1) \subseteq Nat /\ MaxId + 1 \in MinId..(MaxId + 1)
  BY DEF RangeAssumption
<1>0. S \subseteq Nat /\ MaxId + 1 \in S
  BY <1>1
<1>2. Min(S) \in S /\ \A y \in S : Min(S) <= y
  BY <1>0, LeastOf
<1>3. Generate(ids, n) = Min(S)
  BY DEF Generate
<1>4. \A i \in S : MinId <= i /\ (i <= MaxId => Name(ids, i) = {})
  BY DEF RangeAssumption
<1>5. \A i \in MinId..MaxId : Name(ids, i) = {} => i \in S
  BY DEF RangeAssumption
<1>6. \A i \in MinId..MaxId : i < Min(S) => Name(ids, i) # {}
  BY <1>0, <1>2, <1>5 DEF RangeAssumption
<1> HIDE DEF S
<1> QED BY <1>0, <1>2, <1>3, <1>4, <1>6 DEF RangeAssumption

LEMMA WantedIsNew ==
    ASSUME RangeAssumption, NEW D, NEW ids \in [D -> Id], NEW n \in D,
           NEW i \in {Automatic} \cup Nat, ~NoIdLeft(ids, n, i)
    PROVE  /\ Wanted(ids, n, i) \in Nat
           /\ \/ Wanted(ids, n, i) = i
              \/ Wanted(ids, n, i) = ids[n]
              \/ \A m \in D : ids[m] # Wanted(ids, n, i)
<1>1. CASE i = Automatic /\ ids[n] = None
  <2>1. Generate(ids, n) <= MaxId
    BY <1>1, GenerateFree DEF NoIdLeft, RangeAssumption
  <2> QED BY <1>1, <2>1, GenerateFree DEF Wanted, Name
<1>2. CASE i = Automatic /\ ids[n] # None
  BY <1>2 DEF Wanted, Generate, Id
<1>3. CASE i # Automatic
  BY <1>3 DEF Wanted
<1> QED BY <1>1, <1>2, <1>3

-----------------------------------------------------------------------------
Typed ==
    /\ table \in Seq(Line)
    /\ gid \in [Group -> Id] /\ member \in [Group -> SUBSET User]
    /\ uid \in [User -> Id] /\ ugid \in [User -> Id]
    /\ queue \in Seq(Group)
    /\ line \in Nat \ {0}

LEMMA TypedInit ==
    ASSUME SkeletonAssumption, TablesAssumption, Init
    PROVE  Typed
  BY DEF Init, Typed, SkeletonAssumption, TablesAssumption, Id, None

\* What a line that is there asks for
LEMMA LineTyped ==
    ASSUME Typed, NEW k \in 1..Len(table)
    PROVE  /\ table[k] \in Line /\ k \in DOMAIN table
           /\ table[k].groups \in Seq(Group)
           /\ table[k].group \in Group /\ table[k].gid \in {Automatic} \cup Nat
           /\ table[k].uid \in {Automatic} \cup Nat
           /\ table[k].username \in User \cup {NoUser, "root"}
<1>1. table[k] \in Line /\ k \in DOMAIN table
  BY DEF Typed
<1> QED BY <1>1 DEF Line

LEMMA AdvanceTyped ==
    ASSUME Typed, line <= Len(table), Advance
    PROVE  queue' \in Seq(Group) /\ line' \in Nat \ {0}
<1>1. Len(table) \in Nat /\ line \in Nat \ {0}
  BY DEF Typed
<1>2. line < Len(table) => line + 1 \in 1..Len(table)
  BY <1>1
<1>3. line < Len(table) => table[line + 1].groups \in Seq(Group)
  BY <1>2, LineTyped
<1>4. queue' \in Seq(Group)
  BY <1>3 DEF Advance
<1>5. line' \in Nat \ {0}
  BY <1>1 DEF Advance
<1> QED BY <1>4, <1>5

LEMMA GroupTyped ==
    ASSUME Typed, NEW d, d \in GroupDue
    PROVE  /\ d[1] \in Group /\ d[2] \in {Automatic} \cup Nat
           /\ d[2] # Automatic => /\ line \in DOMAIN table
                                  /\ table[line].group = d[1] /\ table[line].gid = d[2]
           /\ line <= Len(table)
           /\ pc = "more_groups" => Tail(queue) \in Seq(Group)
<1>1. ~(line > Len(table)) /\ line \in Nat \ {0} /\ Len(table) \in Nat
  BY DEF GroupDue, Typed
<1>2. line \in 1..Len(table) /\ line <= Len(table)
  BY <1>1
<1>3. CASE pc \in {"groups", "auto_groups"}
  <2>1. d = <<Here.group, Here.gid>>
    BY <1>3 DEF GroupDue
  <2>2. d[1] = table[line].group /\ d[2] = table[line].gid
    BY <2>1 DEF Here
  <2>3. pc # "more_groups"
    BY <1>3
  <2> QED BY <1>2, <2>2, <2>3, LineTyped
<1>4. CASE pc = "more_groups"
  <2>1. d = <<Head(queue), Automatic>> /\ queue # <<>>
    BY <1>4 DEF GroupDue
  <2>2. Head(queue) \in Group /\ Tail(queue) \in Seq(Group)
    BY <2>1 DEF Typed
  <2>3. d[1] = Head(queue) /\ d[2] = Automatic
    BY <2>1
  <2> QED BY <1>2, <2>2, <2>3
<1>5. pc \in {"groups", "auto_groups", "more_groups"}
  BY DEF GroupDue
<1> QED BY <1>3, <1>4, <1>5

LEMMA UserTyped ==
    ASSUME Typed, UserDue, Valid(Here)
    PROVE  /\ line <= Len(table) /\ Here.username \in User
           /\ Here.uid \in {Automatic} \cup Nat /\ Here.group \in Group
<1>1. line \in 1..Len(table) /\ line <= Len(table)
  BY DEF UserDue, Typed
<1>2. Here.username \notin {NoUser, "root"}
  BY DEF UserDue, Mine, Valid
<1> QED BY <1>1, <1>2, LineTyped DEF Here

LEMMA TypedNext ==
    ASSUME RangeAssumption, Typed, [Next]_vars
    PROVE  Typed'
<1>1. <<>> \in Seq(Group) /\ 1 \in Nat \ {0} /\ None \in Id
  BY DEF Id
<1>2. CASE Run BY <1>2 DEF Run, Typed, files
<1>3. CASE EndPass
  <2>1. UNCHANGED <<table, gid, member, uid, ugid>>
    BY <1>3 DEF EndPass, files
  <2>2. line' = 1
    BY <1>3 DEF EndPass, Exit
  <2>3. queue' \in Seq(Group)
    <3>1. CASE table = <<>>
      BY <1>3, <1>1, <3>1 DEF EndPass, Exit
    <3>2. CASE table # <<>>
      <4>1. 1 \in 1..Len(table)
        BY <3>2 DEF Typed
      <4>2. table[1].groups \in Seq(Group)
        BY <4>1, LineTyped
      <4> QED BY <1>3, <1>1, <4>2 DEF EndPass, Exit
    <3> QED BY <3>1, <3>2
  <2> QED BY <1>1, <2>1, <2>2, <2>3 DEF Typed
<1>4. CASE Skip
  <2>1. queue' \in Seq(Group) /\ line' \in Nat \ {0}
    BY <1>4, AdvanceTyped DEF Skip
  <2> QED BY <1>4, <2>1 DEF Skip, Typed, files
<1>5. CASE AddGroup
  <2>1. PICK d : /\ d \in GroupDue /\ ~NoIdLeft(gid, d[1], d[2])
                 /\ gid' = [gid EXCEPT ![d[1]] = Wanted(gid, d[1], d[2])]
                 /\ member' = [member EXCEPT ![d[1]] = {}]
                 /\ IF pc = "more_groups" THEN queue' = Tail(queue) /\ line' = line ELSE Advance
                 /\ UNCHANGED <<table, uid, ugid>>
    BY <1>5 DEF AddGroup
  <2>2. d[1] \in Group /\ d[2] \in {Automatic} \cup Nat
    BY <2>1, GroupTyped
  <2>3. gid \in [Group -> Id] /\ Nat \subseteq Id
    BY DEF Typed, Id
  <2>4. Wanted(gid, d[1], d[2]) \in Id
    BY <2>1, <2>2, <2>3, WantedIsNew
  <2>5. queue' \in Seq(Group) /\ line' \in Nat \ {0}
    BY <2>1, GroupTyped, AdvanceTyped DEF Typed
  <2> QED BY <2>1, <2>2, <2>4, <2>5 DEF Typed
<1>6. CASE NoGid BY <1>6, <1>1 DEF NoGid, Exit, Typed, files
<1>7. CASE AddUser
  <2>1. UserDue /\ Valid(Here) /\ ~NoIdLeft(uid, Here.username, Here.uid) /\ Advance
    BY <1>7 DEF AddUser
  <2>2. Here.username \in User /\ Here.uid \in {Automatic} \cup Nat /\ Here.group \in Group /\ line <= Len(table)
    BY <2>1, UserTyped
  <2>3. Wanted(uid, Here.username, Here.uid) \in Id
    <3>1. uid \in [User -> Id] /\ Nat \subseteq Id
      BY DEF Typed, Id
    <3> QED BY <2>1, <2>2, <3>1, WantedIsNew
  <2>4. queue' \in Seq(Group) /\ line' \in Nat \ {0}
    BY <2>1, <2>2, AdvanceTyped
  <2>5. member' \in [Group -> SUBSET User]
    BY <1>7, <2>2 DEF AddUser, Typed
  <2>6. uid' \in [User -> Id] /\ ugid' \in [User -> Id]
    BY <1>7, <2>2, <2>3 DEF AddUser, Typed
  <2> QED BY <1>7, <2>4, <2>5, <2>6 DEF AddUser, Typed
<1>8. CASE Refuse BY <1>8, <1>1 DEF Refuse, Exit, Typed, files
<1>9. CASE KilledInGroup
  <2>1. PICK d : d \in GroupDue /\ gid' = [gid EXCEPT ![d[1]] = None] /\ member' = [member EXCEPT ![d[1]] = {}]
    BY <1>9 DEF KilledInGroup
  <2>2. gid' \in [Group -> Id] /\ member' \in [Group -> SUBSET User]
    BY <1>1, <2>1 DEF Typed
  <2> QED BY <1>9, <1>1, <2>2 DEF KilledInGroup, Exit, Typed
<1>10. CASE LoseUser BY <1>10, <1>1 DEF LoseUser, Exit, Typed
<1>11. CASE Kill BY <1>11, <1>1 DEF Kill, Exit, Typed, files
<1>12. CASE UNCHANGED vars BY <1>12 DEF vars, files, Typed
<1> QED BY <1>2, <1>3, <1>4, <1>5, <1>6, <1>7, <1>8, <1>9, <1>10, <1>11, <1>12 DEF Next

-----------------------------------------------------------------------------
(***************************************************************************)
(* GeneratedIsUnique is inductive: an id that is given out is what the     *)
(* table says (and checked, for a user), what was there, or free.          *)
(***************************************************************************)
LEMMA UniqueInit ==
    ASSUME SkeletonAssumption, Init
    PROVE  GeneratedIsUnique
  BY DEF Init, GeneratedIsUnique, SkeletonAssumption

LEMMA UniqueNext ==
    ASSUME RangeAssumption, Typed, GeneratedIsUnique, [Next]_vars
    PROVE  GeneratedIsUnique'
<1> USE DEF GeneratedIsUnique
<1>1. CASE UNCHANGED <<table, gid, uid>>
  BY <1>1
<1>2. CASE Run \/ EndPass \/ Skip \/ NoGid \/ Refuse \/ Kill \/ UNCHANGED vars
  BY <1>1, <1>2 DEF Run, EndPass, Skip, NoGid, Refuse, Kill, vars, files
<1>3. CASE AddGroup
  <2>1. PICK d : /\ d \in GroupDue /\ ~NoIdLeft(gid, d[1], d[2])
                 /\ gid' = [gid EXCEPT ![d[1]] = Wanted(gid, d[1], d[2])]
                 /\ UNCHANGED <<table, uid>>
    BY <1>3 DEF AddGroup
  <2>2. /\ d[1] \in Group /\ d[2] \in {Automatic} \cup Nat
        /\ d[2] # Automatic => /\ line \in DOMAIN table
                               /\ table[line].group = d[1] /\ table[line].gid = d[2]
    BY <2>1, GroupTyped
  <2> DEFINE w == Wanted(gid, d[1], d[2])
  <2>3. /\ w \in Nat
        /\ w = d[2] \/ w = gid[d[1]] \/ \A h \in Group : gid[h] # w
    BY <2>1, <2>2, WantedIsNew DEF Typed
  <2>4. \A h \in Group : gid'[h] = IF h = d[1] THEN w ELSE gid[h]
    BY <2>1 DEF Typed
  <2> HIDE DEF w
  <2>5. w = d[2] => \E i \in DOMAIN table : table[i].group = d[1] /\ table[i].gid = w
    BY <2>2, <2>3 DEF Automatic
  <2>6. ASSUME NEW g \in Group, NEW h \in Group, g # h, gid'[g] = gid'[h]
        PROVE  \/ gid'[g] = None
               \/ \E i \in DOMAIN table : table[i].group \in {g, h} /\ table[i].gid = gid'[g]
    <3>1. CASE g # d[1] /\ h # d[1]
      BY <2>4, <2>6, <3>1
    <3>2. CASE w = d[2] /\ d[1] \in {g, h}
      BY <2>4, <2>5, <2>6, <3>2
    <3>3. CASE w = gid[d[1]]
      BY <2>4, <2>6, <3>3
    <3>4. CASE (\A k \in Group : gid[k] # w) /\ d[1] \in {g, h}
      BY <2>4, <2>6, <3>4
    <3> QED BY <2>3, <3>1, <3>2, <3>3, <3>4
  <2> QED BY <2>1, <2>6
<1>4. CASE AddUser
  <2>1. /\ UserDue /\ Valid(Here) /\ ~NoIdLeft(uid, Here.username, Here.uid)
        /\ uid' = [uid EXCEPT ![Here.username] = Wanted(uid, Here.username, Here.uid)]
        /\ UNCHANGED <<table, gid>>
    BY <1>4 DEF AddUser
  <2>2. Here.username \in User /\ Here.uid \in {Automatic} \cup Nat
    BY <2>1, UserTyped
  <2> DEFINE w == Wanted(uid, Here.username, Here.uid)
  <2>3. w = Here.uid \/ w = uid[Here.username] \/ \A v \in User : uid[v] # w
    BY <2>1, <2>2, WantedIsNew DEF Typed
  <2>4. \A v \in User : uid'[v] = IF v = Here.username THEN w ELSE uid[v]
    BY <2>1 DEF Typed
  <2>5. w \in Nat
    BY <2>1, <2>2, WantedIsNew DEF Typed
  <2> HIDE DEF w
  <2>6. w = Here.uid => \A v \in User : v # Here.username => uid[v] # w
    <3> SUFFICES ASSUME w = Here.uid PROVE \A v \in User : v # Here.username => uid[v] # w
      OBVIOUS
    <3>1. Here.uid # Automatic
      BY <2>5 DEF Automatic
    <3>2. Name(uid, Here.uid) \subseteq {Here.username}
      BY <2>1, <3>1 DEF Valid
    <3> QED BY <3>2 DEF Name, Typed
  <2>7. ASSUME NEW u \in User, NEW v \in User, uid'[u] = uid'[v] PROVE u = v \/ uid'[u] = None
    BY <2>3, <2>4, <2>6, <2>7
  <2> QED BY <2>1, <2>7
<1>5. CASE KilledInGroup
  <2>1. \A g \in Group : gid'[g] \in {gid[g], None}
    BY <1>5 DEF KilledInGroup, Typed
  <2> QED BY <1>5, <2>1 DEF KilledInGroup
<1>6. CASE LoseUser
  <2>1. \A u \in User : uid'[u] \in {uid[u], None}
    BY <1>6 DEF LoseUser, Typed
  <2> QED BY <1>6, <2>1 DEF LoseUser
<1> QED BY <1>2, <1>3, <1>4, <1>5, <1>6 DEF Next

(***************************************************************************)
(* No two users have one uid, and no two groups one gid that the table     *)
(* does not give them, after any number of runs and kills.                 *)
(***************************************************************************)
THEOREM Unique ==
    ASSUME RangeAssumption, SkeletonAssumption, TablesAssumption
    PROVE  Spec => []GeneratedIsUnique
<1>1. Init => Typed /\ GeneratedIsUnique
  BY TypedInit, UniqueInit
<1>2. Typed /\ GeneratedIsUnique /\ [Next]_vars => (Typed /\ GeneratedIsUnique)'
  BY TypedNext, UniqueNext
<1> QED BY <1>1, <1>2, PTL DEF Spec

-----------------------------------------------------------------------------
(***************************************************************************)
(* How many lines of the table a pass of the current run is through: all   *)
(* of them when a later pass runs, or the run has succeeded.               *)
(***************************************************************************)
Passes == {"groups", "auto_groups", "more_groups", "users", "auto_users"}

Later(p) ==
    CASE p = "groups" -> {"auto_groups", "more_groups", "users", "auto_users"}
      [] p = "auto_groups" -> {"more_groups", "users", "auto_users"}
      [] p = "more_groups" -> {"users", "auto_users"}
      [] p = "users" -> {"auto_users"}
      [] OTHER -> {}

Through(p) ==
    IF pc = p THEN line - 1
    ELSE IF rc = 0 \/ pc \in Later(p) THEN Len(table) ELSE 0

Control ==
    /\ pc \in {"idle"} \cup Passes
    /\ line \in 1..(Len(table) + 1)
    /\ IF Running THEN rc = None ELSE line = 1
    /\ rc \in {None, 0, 1}

LEMMA PassIs ==
    /\ Pass[1] = "groups"
    /\ \A p \in Passes \ {"auto_users"} : \A q :
          q = Pass[(CHOOSE i \in 1..4 : Pass[i] = p) + 1] =>
              /\ p = "groups" => q = "auto_groups"
              /\ p = "auto_groups" => q = "more_groups"
              /\ p = "more_groups" => q = "users"
              /\ p = "users" => q = "auto_users"
<1>0. /\ Pass[1] = "groups" /\ Pass[2] = "auto_groups" /\ Pass[3] = "more_groups"
      /\ Pass[4] = "users" /\ Pass[5] = "auto_users"
  BY DEF Pass
<1> SUFFICES ASSUME NEW p \in Passes \ {"auto_users"}, NEW q,
                    q = Pass[(CHOOSE i \in 1..4 : Pass[i] = p) + 1]
             PROVE  /\ p = "groups" => q = "auto_groups"
                    /\ p = "auto_groups" => q = "more_groups"
                    /\ p = "more_groups" => q = "users"
                    /\ p = "users" => q = "auto_users"
  BY <1>0
<1>1. PICK k : k = (CHOOSE i \in 1..4 : Pass[i] = p)
  OBVIOUS
<1>2. \E i \in 1..4 : Pass[i] = p
  BY <1>0 DEF Passes
<1>3. k \in 1..4 /\ Pass[k] = p
  BY <1>1, <1>2
<1>4. /\ p = "groups" => k = 1
      /\ p = "auto_groups" => k = 2
      /\ p = "more_groups" => k = 3
      /\ p = "users" => k = 4
  BY <1>0, <1>3
<1>5. q = Pass[k + 1]
  BY <1>1
<1> QED BY <1>0, <1>4, <1>5

LEMMA ThroughIs ==
    ASSUME Typed, Control
    PROVE  /\ \A p \in Passes : Through(p) \in 0..Len(table)
           /\ Running => Through(pc) = line - 1
           /\ rc = 0 => \A p \in Passes : Through(p) = Len(table)
<1>1. Len(table) \in Nat /\ line \in 1..(Len(table) + 1)
  BY DEF Typed, Control
<1>2. \A p \in Passes : Through(p) \in 0..Len(table)
  BY <1>1 DEF Through
<1>3. Running => Through(pc) = line - 1
  BY DEF Through
<1>4. rc = 0 => pc = "idle"
  BY DEF Control, Running, None
<1>5. rc = 0 => \A p \in Passes : Through(p) = Len(table)
  BY <1>4 DEF Through, Passes
<1> QED BY <1>2, <1>3, <1>5

\* A step to the next line
LEMMA StepOn ==
    ASSUME Typed, Control, Running, line <= Len(table), line' = line + 1, UNCHANGED <<table, pc, rc>>
    PROVE  /\ Control'
           /\ \A p \in Passes : Through(p)' = IF p = pc THEN line ELSE Through(p)
<1>1. Len(table) \in Nat /\ line \in 1..(Len(table) + 1)
  BY DEF Typed, Control
<1> QED BY <1>1 DEF Through, Control, Running

LEMMA StayOn ==
    ASSUME Control, UNCHANGED <<table, pc, rc, line>>
    PROVE  /\ Control'
           /\ \A p \in Passes : Through(p)' = Through(p)
BY DEF Through, Control, Running

\* The beginning and the end of a run
LEMMA StepOut ==
    ASSUME Typed, Control, table' = table, line' = 1,
           \/ pc' = "idle" /\ rc' \in {None, 1}
           \/ pc' = "groups" /\ rc' = None
    PROVE  /\ Control'
           /\ \A p \in Passes : Through(p)' = 0
<1>1. Len(table) \in Nat
  BY DEF Typed
<1>2. rc' # 0 /\ line' - 1 = 0
  BY DEF None
<1>3. \A p \in Passes : pc' \notin Later(p)
  BY DEF Later, Passes
<1>4. \A p \in Passes : Through(p)' = 0
  BY <1>2, <1>3 DEF Through
<1>5. Control'
  BY <1>1 DEF Control, Running, Passes, None
<1> QED BY <1>4, <1>5

LEMMA StepPass ==
    ASSUME Typed, Control, EndPass
    PROVE  /\ Control'
           /\ \A p \in Passes : Through(p)' = Through(p)
<1>1. /\ Len(table) \in Nat /\ line = Len(table) + 1 /\ table' = table /\ line' = 1
      /\ pc \in Passes /\ rc = None
  BY DEF Typed, Control, EndPass, Running, Exit
<1>2. CASE pc = "auto_users"
  <2>1. pc' = "idle" /\ rc' = 0
    BY <1>2 DEF EndPass, Exit
  <2>2. \A p \in Passes : Through(p) = Len(table)
    BY <1>1, <1>2 DEF Through, Later, Passes
  <2>3. \A p \in Passes : Through(p)' = Len(table)
    BY <1>1, <2>1 DEF Through, Passes
  <2> QED BY <1>1, <2>1, <2>2, <2>3 DEF Control, Running
<1>3. CASE pc # "auto_users"
  <2>1. /\ pc' = Pass[(CHOOSE i \in 1..4 : Pass[i] = pc) + 1]
        /\ rc' = None
    BY <1>1, <1>3 DEF EndPass
  <2>2. /\ pc = "groups" => pc' = "auto_groups"
        /\ pc = "auto_groups" => pc' = "more_groups"
        /\ pc = "more_groups" => pc' = "users"
        /\ pc = "users" => pc' = "auto_users"
    BY <1>1, <1>3, <2>1, PassIs
  <2>3. rc # 0 /\ rc' # 0 /\ line - 1 = Len(table) /\ line' - 1 = 0
    BY <1>1, <2>1 DEF None
  <2>4. CASE pc = "groups"
    BY <1>1, <2>1, <2>2, <2>3, <2>4 DEF Through, Later, Passes, Control, Running
  <2>5. CASE pc = "auto_groups"
    BY <1>1, <2>1, <2>2, <2>3, <2>5 DEF Through, Later, Passes, Control, Running
  <2>6. CASE pc = "more_groups"
    BY <1>1, <2>1, <2>2, <2>3, <2>6 DEF Through, Later, Passes, Control, Running
  <2>7. CASE pc = "users"
    BY <1>1, <2>1, <2>2, <2>3, <2>7 DEF Through, Later, Passes, Control, Running
  <2> QED BY <1>1, <1>3, <2>4, <2>5, <2>6, <2>7 DEF Passes
<1> QED BY <1>2, <1>3

LEMMA ControlNext ==
    ASSUME Typed, Control, [Next]_vars
    PROVE  Control'
<1>1. CASE Skip
  BY <1>1, StepOn DEF Skip, Advance
<1>2. CASE AddGroup
  <2>1. line <= Len(table) /\ Running
    BY <1>2, GroupTyped DEF AddGroup, GroupDue
  <2> QED BY <1>2, <2>1, StepOn, StayOn DEF AddGroup, Advance
<1>3. CASE AddUser
  BY <1>3, StepOn DEF AddUser, Advance, UserDue, Running
<1>4. CASE EndPass
  BY <1>4, StepPass
<1>5. CASE Run \/ NoGid \/ KilledInGroup \/ Refuse \/ LoseUser \/ Kill
  <2>1. table' = table
    BY <1>5 DEF Run, NoGid, KilledInGroup, Refuse, LoseUser, Kill
  <2>2. CASE Run
    <3>1. line' = 1 /\ pc' = "groups" /\ rc' = None
      BY <2>2, PassIs DEF Run, Control, Running
    <3> QED BY <2>1, <3>1, StepOut
  <2>3. CASE NoGid \/ KilledInGroup \/ Refuse \/ LoseUser \/ Kill
    BY <2>1, <2>3, StepOut DEF NoGid, KilledInGroup, Refuse, LoseUser, Kill, Exit
  <2> QED BY <1>5, <2>2, <2>3
<1>6. CASE UNCHANGED vars
  BY <1>6, StayOn DEF vars
<1> QED BY <1>1, <1>2, <1>3, <1>4, <1>5, <1>6 DEF Next

-----------------------------------------------------------------------------
(***************************************************************************)
(* What the passes have done: the groups of the lines they are through are *)
(* there, and the users are as AsTable says.  Of the additional groups of  *)
(* the line that more_groups is at, the queue has those that are not.      *)
(***************************************************************************)
Rest(s, n) == [k \in 1..(Len(s) - n) |-> s[n + k]]

LEMMA RestIs ==
    ASSUME NEW S, NEW s \in Seq(S), NEW n \in 0..Len(s)
    PROVE  /\ Rest(s, n) \in Seq(S) /\ Len(Rest(s, n)) = Len(s) - n
           /\ Rest(s, 0) = s
           /\ Rest(s, n) = <<>> => n = Len(s)
           /\ Rest(s, n) # <<>> => /\ n + 1 \in 1..Len(s)
                                   /\ Head(Rest(s, n)) = s[n + 1]
                                   /\ Tail(Rest(s, n)) = Rest(s, n + 1)
<1>1. Len(s) \in Nat /\ \A k \in 1..(Len(s) - n) : n + k \in 1..Len(s) /\ s[n + k] \in S
  OBVIOUS
<1>2. Rest(s, n) \in Seq(S) /\ Len(Rest(s, n)) = Len(s) - n
  BY <1>1 DEF Rest
<1>3. \A k \in 1..(Len(s) - n) : Rest(s, n)[k] = s[n + k]
  BY DEF Rest
<1>4. Rest(s, 0) = s
  BY DEF Rest
<1>5. Rest(s, n) = <<>> => n = Len(s)
  BY <1>1, <1>2
<1>6. ASSUME Rest(s, n) # <<>>
      PROVE  /\ n + 1 \in 1..Len(s)
             /\ Head(Rest(s, n)) = s[n + 1]
             /\ Tail(Rest(s, n)) = Rest(s, n + 1)
  <2>1. n + 1 \in 1..Len(s) /\ 1 \in 1..(Len(s) - n)
    BY <1>1, <1>2, <1>6
  <2>2. Head(Rest(s, n)) = s[n + 1]
    BY <1>2, <1>3, <1>6, <2>1
  <2>3. PICK r : r = Rest(s, n)
    OBVIOUS
  <2>4. r \in Seq(S) /\ r # <<>> /\ Len(r) = Len(s) - n
    BY <1>2, <1>6, <2>3
  <2>5. PICK t : t = Rest(s, n + 1)
    OBVIOUS
  <2>6. n + 1 \in 0..Len(s) /\ \A k \in 1..(Len(s) - (n + 1)) : (n + 1) + k \in 1..Len(s)
    BY <1>1, <2>1
  <2>7. t = [k \in 1..(Len(s) - (n + 1)) |-> s[(n + 1) + k]]
    BY <2>5 DEF Rest
  <2>8. t \in Seq(S) /\ Len(t) = Len(s) - (n + 1)
    BY <2>6, <2>7
  <2>9. Tail(r) \in Seq(S) /\ Len(Tail(r)) = Len(t)
    BY <2>4, <2>8
  <2>10. \A k \in 1..Len(t) : Tail(r)[k] = t[k]
    <3> SUFFICES ASSUME NEW k \in 1..Len(t) PROVE Tail(r)[k] = t[k]
      OBVIOUS
    <3>1. k + 1 \in 1..(Len(s) - n) /\ n + (k + 1) = (n + 1) + k
      BY <2>8
    <3>2. r[k + 1] = s[n + (k + 1)]
      BY <1>3, <2>3, <3>1
    <3>3. Tail(r)[k] = r[k + 1]
      BY <2>4, <2>8
    <3> QED BY <2>7, <2>8, <3>1, <3>2, <3>3
  <2>11. Tail(r) = t
    <3>1. PICK u : u = Tail(r)
      OBVIOUS
    <3>2. u \in Seq(S) /\ t \in Seq(S) /\ Len(u) = Len(t) /\ \A k \in 1..Len(t) : u[k] = t[k]
      BY <2>8, <2>9, <2>10, <3>1
    <3>3. u = t
      BY <3>2
    <3> QED BY <3>1, <3>3
  <2> QED BY <2>1, <2>2, <2>3, <2>5, <2>11
<1> QED BY <1>2, <1>4, <1>5, <1>6

GroupsThere ==
    /\ \A i \in 1..Through("groups") : table[i].gid # Automatic => gid[table[i].group] # None
    /\ \A i \in 1..Through("auto_groups") : table[i].gid = Automatic => gid[table[i].group] # None
    /\ \A i \in 1..Through("more_groups") :
          \A k \in DOMAIN table[i].groups : gid[table[i].groups[k]] # None
    /\ pc = "more_groups" /\ line <= Len(table) =>
          \E n \in 0..Len(Here.groups) : /\ queue = Rest(Here.groups, n)
                                         /\ \A k \in 1..n : gid[Here.groups[k]] # None

\* A step to the next line, after which all that the pass has asked for is there
LEMMA GroupsOn ==
    ASSUME Typed, Control, GroupsThere, Running, line <= Len(table), Advance, UNCHANGED <<table, pc, rc>>,
           \A g \in Group : gid[g] # None => gid'[g] # None,
           pc = "groups" /\ Here.gid # Automatic => gid'[Here.group] # None,
           pc = "auto_groups" /\ Here.gid = Automatic => gid'[Here.group] # None,
           pc = "more_groups" => \A k \in DOMAIN Here.groups : gid'[Here.groups[k]] # None
    PROVE  GroupsThere'
<1>0. Len(table) \in Nat /\ line \in 1..Len(table) /\ line' = line + 1
  BY DEF Typed, Control, Advance
<1>1. \A p \in Passes : Through(p)' = IF p = pc THEN line ELSE Through(p)
  BY <1>0, StepOn
<1>2. \A p \in Passes : Through(p) \in 0..Len(table) /\ (pc = p => Through(p) = line - 1)
  BY ThroughIs DEF Passes, Running
<1>3. \A i \in 1..Len(table) : /\ table[i].group \in Group
                               /\ table[i].groups \in Seq(Group)
                               /\ \A k \in DOMAIN table[i].groups : table[i].groups[k] \in Group
  <2> SUFFICES ASSUME NEW i \in 1..Len(table) PROVE table[i].group \in Group /\ table[i].groups \in Seq(Group)
    OBVIOUS
  <2> QED BY LineTyped
<1>4. \A p \in Passes : \A i \in 1..Through(p)' : i \in 1..Len(table) /\ (i \in 1..Through(p) \/ (p = pc /\ i = line))
  <2> SUFFICES ASSUME NEW p \in Passes, NEW i \in 1..Through(p)'
               PROVE  i \in 1..Len(table) /\ (i \in 1..Through(p) \/ (p = pc /\ i = line))
    OBVIOUS
  <2>1. CASE p = pc
    BY <1>0, <1>1, <1>2, <2>1
  <2>2. CASE p # pc
    BY <1>0, <1>1, <1>2, <2>2
  <2> QED BY <2>1, <2>2
<1>5. \A i \in 1..Through("groups")' : table'[i].gid # Automatic => gid'[table'[i].group] # None
  BY <1>3, <1>4 DEF GroupsThere, Passes, Here
<1>6. \A i \in 1..Through("auto_groups")' : table'[i].gid = Automatic => gid'[table'[i].group] # None
  BY <1>3, <1>4 DEF GroupsThere, Passes, Here
<1>7. \A i \in 1..Through("more_groups")' :
          \A k \in DOMAIN table'[i].groups : gid'[table'[i].groups[k]] # None
  BY <1>3, <1>4 DEF GroupsThere, Passes, Here
<1>8. ASSUME pc' = "more_groups", line' <= Len(table')
      PROVE  \E n \in 0..Len(Here.groups)' : /\ queue' = Rest(Here.groups, n)'
                                             /\ \A k \in 1..n : gid'[Here'.groups[k]] # None
  <2>1. queue' = table[line + 1].groups /\ line + 1 \in 1..Len(table) /\ pc = "more_groups" /\ line < Len(table)
    BY <1>0, <1>8 DEF Advance
  <2>2. Here' = table[line + 1]
    BY <1>0 DEF Here
  <2>3. queue' = Rest(table[line + 1].groups, 0)
    BY <1>3, <2>1, RestIs
  <2>4. 0 \in 0..Len(table[line + 1].groups)
    BY <1>3, <2>1
  <2> QED BY <2>2, <2>3, <2>4
<1> QED BY <1>5, <1>6, <1>7, <1>8 DEF GroupsThere

LEMMA GroupsNext ==
    ASSUME RangeAssumption, Typed, Control, GroupsThere, [Next]_vars
    PROVE  GroupsThere'
<1>0. Len(table) \in Nat /\ line \in 1..(Len(table) + 1) /\ (pc = "idle" => line = 1)
  BY DEF Typed, Control, Running
<1>1. CASE Run \/ NoGid \/ KilledInGroup \/ Refuse \/ LoseUser \/ Kill
  <2>1. /\ table' = table /\ line' = 1 /\ pc' # "more_groups"
        /\ \/ pc' = "idle" /\ rc' \in {None, 1}
           \/ pc' = "groups" /\ rc' = None
    BY <1>0, <1>1, PassIs DEF Run, NoGid, KilledInGroup, Refuse, LoseUser, Kill, Exit
  <2>2. \A p \in Passes : Through(p)' = 0
    BY <2>1, StepOut
  <2> QED BY <2>1, <2>2 DEF GroupsThere, Passes
<1>2. CASE UNCHANGED vars
  BY <1>2 DEF vars, files, GroupsThere, Through, Here
<1>3. CASE EndPass
  <2>1. \A p \in Passes : Through(p)' = Through(p)
    BY <1>3, StepPass
  <2>2. table' = table /\ gid' = gid /\ line' = 1
    BY <1>3 DEF EndPass, files, Exit
  <2>3. ASSUME pc' = "more_groups", line' <= Len(table')
        PROVE  \E n \in 0..Len(Here.groups)' : /\ queue' = Rest(Here.groups, n)'
                                               /\ \A k \in 1..n : gid'[Here'.groups[k]] # None
    <3>1. table # <<>> /\ 1 \in 1..Len(table)
      BY <1>0, <2>2, <2>3
    <3>2. queue' = table[1].groups /\ Here' = table[1]
      BY <1>3, <2>2, <2>3, <3>1 DEF EndPass, Exit, Here
    <3>3. table[1].groups \in Seq(Group)
      BY <3>1, LineTyped
    <3>4. queue' = Rest(table[1].groups, 0) /\ 0 \in 0..Len(table[1].groups)
      BY <3>2, <3>3, RestIs
    <3> QED BY <3>2, <3>4
  <2> QED BY <2>1, <2>2, <2>3 DEF GroupsThere, Passes
<1>4. CASE Skip
  <2>1. /\ Running /\ line <= Len(table) /\ Advance /\ UNCHANGED <<table, pc, rc>> /\ gid' = gid
        /\ Mine => pc = "more_groups" /\ queue = <<>>
    BY <1>4 DEF Skip, files
  <2>2. line \in 1..Len(table) /\ Here.groups \in Seq(Group)
    BY <1>0, <2>1, LineTyped DEF Here
  <2>3. pc = "more_groups" => \A k \in DOMAIN Here.groups : gid[Here.groups[k]] # None
    <3> SUFFICES ASSUME pc = "more_groups" PROVE \A k \in DOMAIN Here.groups : gid[Here.groups[k]] # None
      OBVIOUS
    <3>1. PICK n \in 0..Len(Here.groups) : /\ queue = Rest(Here.groups, n)
                                           /\ \A k \in 1..n : gid[Here.groups[k]] # None
      BY <2>1 DEF GroupsThere
    <3>2. queue = <<>>
      BY <2>1 DEF Mine
    <3>3. n = Len(Here.groups)
      BY <2>2, <3>1, <3>2, RestIs
    <3> QED BY <2>2, <3>1, <3>3
  <2>4. ~(pc = "groups" /\ Here.gid # Automatic) /\ ~(pc = "auto_groups" /\ Here.gid = Automatic)
    BY <2>1 DEF Mine
  <2> QED BY <2>1, <2>3, <2>4, GroupsOn
<1>5. CASE AddUser
  <2>1. Running /\ line <= Len(table) /\ Advance /\ UNCHANGED <<table, pc, rc>> /\ gid' = gid /\ pc \in {"users", "auto_users"}
    BY <1>5 DEF AddUser, UserDue, Running
  <2> QED BY <2>1, GroupsOn
<1>6. CASE AddGroup
  <2>1. PICK d : /\ d \in GroupDue /\ ~NoIdLeft(gid, d[1], d[2])
                 /\ gid' = [gid EXCEPT ![d[1]] = Wanted(gid, d[1], d[2])]
                 /\ IF pc = "more_groups" THEN queue' = Tail(queue) /\ line' = line ELSE Advance
                 /\ UNCHANGED <<table, pc, rc>>
    BY <1>6 DEF AddGroup
  <2>2. d[1] \in Group /\ d[2] \in {Automatic} \cup Nat /\ line <= Len(table) /\ Running
    BY <2>1, GroupTyped DEF GroupDue
  <2>3. gid'[d[1]] # None /\ \A g \in Group : gid[g] # None => gid'[g] # None
    <3>1. Wanted(gid, d[1], d[2]) \in Nat
      BY <2>1, <2>2, WantedIsNew DEF Typed
    <3>2. Wanted(gid, d[1], d[2]) # None
      BY <3>1 DEF None
    <3> QED BY <2>1, <2>2, <3>2 DEF Typed
  <2>4. CASE pc # "more_groups"
    <3>1. pc \in {"groups", "auto_groups"} /\ d[1] = Here.group
      BY <2>1, <2>4 DEF GroupDue
    <3> QED BY <2>1, <2>2, <2>3, <2>4, <3>1, GroupsOn
  <2>5. CASE pc = "more_groups"
    <3>1. d[1] = Head(queue) /\ queue # <<>> /\ line' = line /\ queue' = Tail(queue)
      BY <2>1, <2>5 DEF GroupDue
    <3>2. \A p \in Passes : Through(p)' = Through(p)
      BY <2>1, <3>1, StayOn
    <3>3. \A p \in Passes : \A i \in 1..Through(p) : i \in 1..Len(table)
      BY <1>0, ThroughIs
    <3>4. \A i \in 1..Len(table) : /\ table[i].group \in Group
                                   /\ table[i].groups \in Seq(Group)
                                   /\ \A k \in DOMAIN table[i].groups : table[i].groups[k] \in Group
      <4> SUFFICES ASSUME NEW i \in 1..Len(table) PROVE table[i].group \in Group /\ table[i].groups \in Seq(Group)
        OBVIOUS
      <4> QED BY LineTyped
    <3>5. Here' = Here /\ Here.groups \in Seq(Group) /\ \A k \in DOMAIN Here.groups : Here.groups[k] \in Group
      BY <1>0, <2>1, <2>2, <3>1, <3>4 DEF Here
    <3>6. PICK n \in 0..Len(Here.groups) : /\ queue = Rest(Here.groups, n)
                                           /\ \A k \in 1..n : gid[Here.groups[k]] # None
      BY <2>2, <2>5 DEF GroupsThere
    <3>7. n + 1 \in 1..Len(Here.groups) /\ d[1] = Here.groups[n + 1] /\ queue' = Rest(Here.groups, n + 1)
      BY <3>1, <3>5, <3>6, RestIs
    <3>8. \A k \in 1..(n + 1) : gid'[Here.groups[k]] # None
      <4> SUFFICES ASSUME NEW k \in 1..(n + 1) PROVE gid'[Here.groups[k]] # None
        OBVIOUS
      <4>1. k \in DOMAIN Here.groups /\ (k = n + 1 \/ k \in 1..n)
        BY <3>5, <3>7
      <4> QED BY <2>3, <3>5, <3>6, <3>7, <4>1
    <3>9. \E m \in 0..Len(Here.groups)' : /\ queue' = Rest(Here.groups, m)'
                                          /\ \A k \in 1..m : gid'[Here'.groups[k]] # None
      BY <3>5, <3>7, <3>8
    <3>10. /\ \A i \in 1..Through("groups") : table[i].gid # Automatic => gid'[table[i].group] # None
           /\ \A i \in 1..Through("auto_groups") : table[i].gid = Automatic => gid'[table[i].group] # None
           /\ \A i \in 1..Through("more_groups") :
                 \A k \in DOMAIN table[i].groups : gid'[table[i].groups[k]] # None
      BY <2>3, <3>3, <3>4 DEF GroupsThere, Passes
    <3> QED BY <2>1, <3>2, <3>9, <3>10 DEF GroupsThere, Passes
  <2> QED BY <2>4, <2>5
<1> QED BY <1>1, <1>2, <1>3, <1>4, <1>5, <1>6 DEF Next

(***************************************************************************)
(* A line of the table whose user is as it says                            *)
(***************************************************************************)
Served(l) ==
    /\ l.username \in User
    /\ uid[l.username] # None /\ l.uid \in {Automatic, uid[l.username]}
    /\ ugid[l.username] = gid[l.group] /\ gid[l.group] # None
    /\ l.gid \in {Automatic, gid[l.group]}
    /\ \A g \in ToSet(l.groups) : l.username \in member[g]

UsersServed ==
    /\ \A i \in 1..Through("users") : Creates(table[i]) /\ table[i].uid # Automatic => Served(table[i])
    /\ \A i \in 1..Through("auto_users") : Creates(table[i]) /\ table[i].uid = Automatic => Served(table[i])

\* A uid is from the table, or from the range.
UidFrom(u, i) == i \in MinId..MaxId \/ \E j \in DOMAIN table : table[j].username = u /\ table[j].uid = i

UidsFrom == \A u \in User : uid[u] # None => UidFrom(u, uid[u])

\* When users are added, all groups are there.
LEMMA GroupsPassed ==
    ASSUME Typed, Control, GroupsThere, pc \in {"users", "auto_users"}, NEW i \in 1..Len(table)
    PROVE  /\ gid[table[i].group] # None
           /\ \A k \in DOMAIN table[i].groups : gid[table[i].groups[k]] # None
<1>1. /\ Through("groups") = Len(table) /\ Through("auto_groups") = Len(table)
      /\ Through("more_groups") = Len(table)
  BY DEF Through, Later
<1> QED BY <1>1 DEF GroupsThere

LEMMA UserAdded ==
    ASSUME RangeAssumption, Typed, Control, GroupsThere, UidsFrom, AddUser
    PROVE  \E u \in User, w \in Nat :
              /\ u = Here.username /\ w = Wanted(uid, u, Here.uid)
              /\ ~NoIdLeft(uid, u, Here.uid)
              /\ uid' = [uid EXCEPT ![u] = w] /\ ugid' = [ugid EXCEPT ![u] = gid[Here.group]]
              /\ uid[u] # None => w = uid[u]
              /\ \A h \in Group : gid[h] = ugid[u] /\ gid[h] # None => h = Here.group
              /\ UidFrom(u, w)
              /\ w # None /\ Here.uid \in {Automatic, w}
              /\ gid[Here.group] # None /\ Here.gid \in {Automatic, gid[Here.group]}
              /\ Here.group \in Group
<1>1. /\ UserDue /\ Valid(Here) /\ ~NoIdLeft(uid, Here.username, Here.uid)
      /\ uid' = [uid EXCEPT ![Here.username] = Wanted(uid, Here.username, Here.uid)]
      /\ ugid' = [ugid EXCEPT ![Here.username] = gid[Here.group]]
  BY DEF AddUser
<1>2. Here.username \in User /\ Here.uid \in {Automatic} \cup Nat /\ Here.group \in Group /\ line <= Len(table)
  BY <1>1, UserTyped
<1>3. line \in 1..Len(table)
  BY <1>2 DEF Typed
<1>4. gid[Here.group] # None
  BY <1>1, <1>3, GroupsPassed DEF UserDue, Here
<1> DEFINE u == Here.username
           w == Wanted(uid, u, Here.uid)
<1>5. w \in Nat
  BY <1>1, <1>2, WantedIsNew DEF Typed
<1>6. Here.uid # Automatic => w = Here.uid
  BY DEF Wanted
<1>7. uid[u] # None => w = uid[u]
  <2>1. CASE Here.uid = Automatic
    BY <2>1 DEF Wanted, Generate
  <2>2. CASE Here.uid # Automatic
    BY <1>1, <1>6, <2>2 DEF Valid
  <2> QED BY <2>1, <2>2
<1>8. \A h \in Group : gid[h] = ugid[u] /\ gid[h] # None => h = Here.group
  <2> SUFFICES ASSUME NEW h \in Group, gid[h] = ugid[u], gid[h] # None PROVE h = Here.group
    OBVIOUS
  <2>1. h \in Name(gid, ugid[u]) \ Name(gid, None)
    BY DEF Name, Typed
  <2>2. Name(gid, ugid[u]) \ Name(gid, None) \in {{}, {Here.group}}
    BY <1>1 DEF Valid
  <2> QED BY <2>1, <2>2
<1>9. Here.gid \in {Automatic, gid[Here.group]}
  BY <1>1, <1>4 DEF Valid
<1>10. UidFrom(u, w)
  <2>1. CASE Here.uid # Automatic
    BY <1>3, <1>6, <2>1 DEF UidFrom, Here, Typed
  <2>2. CASE Here.uid = Automatic /\ uid[u] = None
    <3>1. w = Generate(uid, u)
      BY <2>2 DEF Wanted
    <3>2. w <= MaxId /\ MinId <= w
      BY <1>1, <1>5, <2>2, <3>1, GenerateFree DEF NoIdLeft, RangeAssumption
    <3> QED BY <1>5, <3>2 DEF UidFrom, RangeAssumption
  <2>3. CASE uid[u] # None
    BY <1>2, <1>7, <2>3 DEF UidsFrom
  <2> QED BY <2>1, <2>2, <2>3
<1> HIDE DEF u, w
<1>11. w # None
  BY <1>5 DEF None
<1>12. /\ uid' = [uid EXCEPT ![u] = w] /\ ugid' = [ugid EXCEPT ![u] = gid[Here.group]]
       /\ u \in User /\ u = Here.username /\ w = Wanted(uid, u, Here.uid)
       /\ ~NoIdLeft(uid, u, Here.uid) /\ Here.uid \in {Automatic, w}
  BY <1>1, <1>2, <1>6 DEF u, w
<1> QED BY <1>2, <1>4, <1>5, <1>7, <1>8, <1>9, <1>10, <1>11, <1>12

\* What has been done for a line is not undone in the run.
LEMMA ServedStays ==
    ASSUME RangeAssumption, Typed, Control, GroupsThere, UidsFrom, AddUser, NEW l \in Line, Served(l)
    PROVE  Served(l)'
<1>1. PICK u \in User, w \in Nat :
              /\ u = Here.username
              /\ uid' = [uid EXCEPT ![u] = w] /\ ugid' = [ugid EXCEPT ![u] = gid[Here.group]]
              /\ uid[u] # None => w = uid[u]
              /\ \A h \in Group : gid[h] = ugid[u] /\ gid[h] # None => h = Here.group
              /\ Here.group \in Group
  BY UserAdded
<1>2. gid' = gid /\ \A g \in Group : member[g] \subseteq member'[g]
  BY DEF AddUser, Typed
<1>3. l.group \in Group /\ ToSet(l.groups) \subseteq Group /\ l.username \in User
  BY DEF Line, ToSet, Served
<1>4. CASE l.username # u
  <2>1. uid'[l.username] = uid[l.username] /\ ugid'[l.username] = ugid[l.username]
    BY <1>1, <1>3, <1>4 DEF Typed
  <2> QED BY <1>2, <1>3, <2>1 DEF Served
<1>5. CASE l.username = u
  <2>1. uid'[u] = uid[u] /\ ugid'[u] = gid[Here.group]
    BY <1>1, <1>5 DEF Typed, Served
  <2>2. l.group = Here.group
    BY <1>1, <1>3, <1>5 DEF Served
  <2> QED BY <1>2, <1>3, <1>5, <2>1, <2>2 DEF Served
<1> QED BY <1>4, <1>5

LEMMA Serves ==
    ASSUME RangeAssumption, Typed, Control, GroupsThere, UidsFrom, AddUser, NEW l \in Line, l = Here
    PROVE  Served(l)'
<1>1. PICK u \in User, w \in Nat :
              /\ u = Here.username
              /\ uid' = [uid EXCEPT ![u] = w] /\ ugid' = [ugid EXCEPT ![u] = gid[Here.group]]
              /\ w # None /\ Here.uid \in {Automatic, w}
              /\ gid[Here.group] # None /\ Here.gid \in {Automatic, gid[Here.group]}
              /\ Here.group \in Group
  BY UserAdded
<1>2. line \in 1..Len(table) /\ Here.groups \in Seq(Group)
  BY LineTyped DEF AddUser, UserDue, Typed, Here
<1>3. gid' = gid /\ \A g \in ToSet(Here.groups) : u \in member'[g]
  <2>1. ToSet(Here.groups) \subseteq Group
    BY <1>2 DEF ToSet
  <2> QED BY <1>1, <2>1 DEF AddUser
<1>4. uid'[u] = w /\ ugid'[u] = gid[Here.group]
  BY <1>1 DEF Typed
<1> QED BY <1>1, <1>3, <1>4 DEF Served

LEMMA UsersNext ==
    ASSUME RangeAssumption, Typed, Control, GroupsThere, UsersServed, UidsFrom, [Next]_vars
    PROVE  UsersServed' /\ UidsFrom'
<1>0. Len(table) \in Nat /\ line \in 1..(Len(table) + 1) /\ (pc = "idle" => line = 1)
  BY DEF Typed, Control, Running
<1>1. CASE Run \/ NoGid \/ KilledInGroup \/ Refuse \/ LoseUser \/ Kill
  <2>1. /\ table' = table /\ line' = 1
        /\ \/ pc' = "idle" /\ rc' \in {None, 1}
           \/ pc' = "groups" /\ rc' = None
    BY <1>0, <1>1, PassIs DEF Run, NoGid, KilledInGroup, Refuse, LoseUser, Kill, Exit
  <2>2. \A p \in Passes : Through(p)' = 0
    BY <2>1, StepOut
  <2>3. \A u \in User : uid'[u] \in {None, uid[u]}
    BY <1>1 DEF Run, NoGid, KilledInGroup, Refuse, LoseUser, Kill, files, Typed
  <2> QED BY <2>1, <2>2, <2>3 DEF UsersServed, Passes, UidsFrom, UidFrom
<1>2. CASE EndPass \/ UNCHANGED vars
  <2>1. \A p \in Passes : Through(p)' = Through(p)
    BY <1>2, StepPass, StayOn DEF vars
  <2>2. UNCHANGED <<table, gid, member, uid, ugid>>
    BY <1>2 DEF EndPass, vars, files
  <2> QED BY <2>1, <2>2 DEF UsersServed, Served, Passes, UidsFrom, UidFrom
<1>3. CASE Skip
  <2>1. /\ Running /\ line <= Len(table) /\ line' = line + 1 /\ UNCHANGED <<table, gid, member, uid, ugid, pc, rc>>
        /\ Mine => pc = "more_groups"
    BY <1>3 DEF Skip, files, Advance
  <2>2. \A p \in Passes : Through(p)' = IF p = pc THEN line ELSE Through(p)
    BY <2>1, StepOn
  <2>3. \A p \in Passes : Through(p) \in 0..Len(table) /\ (pc = p => Through(p) = line - 1)
    BY <2>1, ThroughIs
  <2>4. \A i \in 1..Through("users")' : i \in 1..Through("users") \/ (pc = "users" /\ i = line)
    BY <1>0, <2>2, <2>3 DEF Passes
  <2>5. \A i \in 1..Through("auto_users")' : i \in 1..Through("auto_users") \/ (pc = "auto_users" /\ i = line)
    BY <1>0, <2>2, <2>3 DEF Passes
  <2>6. /\ pc = "users" => ~(Creates(table[line]) /\ table[line].uid # Automatic)
        /\ pc = "auto_users" => ~(Creates(table[line]) /\ table[line].uid = Automatic)
    BY <2>1 DEF Mine, Here, Creates
  <2> QED BY <2>1, <2>4, <2>5, <2>6 DEF UsersServed, Served, UidsFrom, UidFrom
<1>4. CASE AddGroup
  <2>1. /\ pc \in {"groups", "auto_groups", "more_groups"} /\ line <= Len(table) /\ Running
        /\ UNCHANGED <<table, uid, pc, rc>>
        /\ IF pc = "more_groups" THEN line' = line ELSE line' = line + 1
    BY <1>4, GroupTyped DEF AddGroup, GroupDue, Advance
  <2>2. rc # 0 /\ rc' # 0
    BY <2>1 DEF Control, None
  <2>3. Through("users")' = 0 /\ Through("auto_users")' = 0
    BY <2>1, <2>2 DEF Through, Later
  <2> QED BY <2>1, <2>3 DEF UsersServed, UidsFrom, UidFrom
<1>5. CASE AddUser
  <2>1. /\ Running /\ line <= Len(table) /\ line' = line + 1 /\ UNCHANGED <<table, pc, rc>>
        /\ UserDue
    BY <1>5 DEF AddUser, UserDue, Running, Advance
  <2>2. \A p \in Passes : Through(p)' = IF p = pc THEN line ELSE Through(p)
    BY <2>1, StepOn
  <2>3. \A p \in Passes : Through(p) \in 0..Len(table) /\ (pc = p => Through(p) = line - 1)
    BY <2>1, ThroughIs
  <2>4. \A i \in 1..Through("users")' : i \in 1..Through("users") \/ (pc = "users" /\ i = line)
    BY <1>0, <2>2, <2>3 DEF Passes
  <2>5. \A i \in 1..Through("auto_users")' : i \in 1..Through("auto_users") \/ (pc = "auto_users" /\ i = line)
    BY <1>0, <2>2, <2>3 DEF Passes
  <2>6. \A i \in 1..Len(table) : table[i] \in Line
    BY LineTyped
  <2>7. \A i \in 1..Len(table) : Served(table[i]) => Served(table[i])'
    <3> SUFFICES ASSUME NEW i \in 1..Len(table), Served(table[i]) PROVE Served(table[i])'
      OBVIOUS
    <3>1. PICK l : l = table[i]
      OBVIOUS
    <3>2. l \in Line /\ Served(l)
      BY <2>6, <3>1
    <3>3. Served(l)'
      BY <1>5, <3>2, ServedStays
    <3> QED BY <2>1, <3>1, <3>3
  <2>8. \A i \in 1..Len(table) : i = line => Served(table[i])'
    <3> SUFFICES ASSUME NEW i \in 1..Len(table), i = line PROVE Served(table[i])'
      OBVIOUS
    <3>1. PICK l : l = table[i]
      OBVIOUS
    <3>2. l \in Line /\ l = Here
      BY <2>6, <3>1 DEF Here
    <3>3. Served(l)'
      BY <1>5, <3>2, Serves
    <3> QED BY <2>1, <3>1, <3>3
  <2>9. UsersServed'
    BY <1>0, <2>1, <2>3, <2>4, <2>5, <2>7, <2>8 DEF UsersServed, Passes
  <2>10. UidsFrom'
    <3>1. PICK u \in User, w \in Nat : uid' = [uid EXCEPT ![u] = w] /\ UidFrom(u, w)
      BY <1>5, UserAdded
    <3>2. \A v, i : UidFrom(v, i)' = UidFrom(v, i)
      BY <2>1 DEF UidFrom
    <3>3. \A v \in User : uid'[v] = IF v = u THEN w ELSE uid[v]
      BY <3>1 DEF Typed
    <3> QED BY <3>1, <3>2, <3>3 DEF UidsFrom
  <2> QED BY <2>9, <2>10
<1> QED BY <1>1, <1>2, <1>3, <1>4, <1>5 DEF Next

Paired == \A u \in User : (uid[u] = None) <=> (ugid[u] = None)

LEMMA PairedNext ==
    ASSUME RangeAssumption, Typed, Control, GroupsThere, UidsFrom, Paired, [Next]_vars
    PROVE  Paired'
<1>1. CASE AddUser
  <2>1. PICK u \in User, w \in Nat :
           /\ uid' = [uid EXCEPT ![u] = w] /\ ugid' = [ugid EXCEPT ![u] = gid[Here.group]]
           /\ w # None /\ gid[Here.group] # None
    BY <1>1, UserAdded
  <2> QED BY <2>1 DEF Paired, Typed
<1>2. CASE LoseUser
  BY <1>2, UserTyped DEF LoseUser, Paired, Typed
<1>3. CASE ~AddUser /\ ~LoseUser
  <2>1. UNCHANGED <<uid, ugid>>
    BY <1>3 DEF Next, Run, EndPass, Skip, AddGroup, NoGid, Refuse, KilledInGroup, Kill, files, vars
  <2> QED BY <2>1 DEF Paired
<1> QED BY <1>1, <1>2, <1>3

Steady == Typed /\ Control /\ GroupsThere /\ UsersServed /\ UidsFrom /\ Paired

LEMMA SteadyInit ==
    ASSUME SkeletonAssumption, TablesAssumption, Init
    PROVE  Steady
<1>1. Typed
  BY TypedInit
<1>2. Control /\ \A p \in Passes : Through(p) = 0
  BY <1>1 DEF Init, Control, Through, Running, None, Later, Typed, Passes
<1>3. pc # "more_groups" /\ \A u \in User : uid[u] = None /\ ugid[u] = None
  BY DEF Init
<1> QED BY <1>1, <1>2, <1>3 DEF GroupsThere, UsersServed, UidsFrom, Paired, Passes, Steady

LEMMA SteadyNext ==
    ASSUME RangeAssumption, Steady, [Next]_vars
    PROVE  Steady'
BY TypedNext, ControlNext, GroupsNext, UsersNext, PairedNext DEF Steady

\* The variables have their types; a user has a uid if and only if he has a
\* main gid (one line of /etc/passwd), and no pass runs off the table.
THEOREM Typing ==
    ASSUME RangeAssumption, SkeletonAssumption, TablesAssumption
    PROVE  Spec => []TypeOK
<1>1. Init => Steady
  BY SteadyInit
<1>2. Steady /\ [Next]_vars => Steady'
  BY SteadyNext
<1>3. Steady => TypeOK
  <2>1. Passes = {Pass[i] : i \in 1..5}
    BY DEF Pass, Passes
  <2> QED BY <2>1 DEF Steady, Typed, Control, Paired, TypeOK
<1> QED BY <1>1, <1>2, <1>3, PTL DEF Spec

\* When mkusers has succeeded, every group of the table is there, and every
\* user with the uid and the groups of its line, or a uid of the range: for
\* any table and range, after any runs and kills.
THEOREM AsTheTable ==
    ASSUME RangeAssumption, SkeletonAssumption, TablesAssumption
    PROVE  Spec => []AsTable
<1>1. Init => Steady
  BY SteadyInit
<1>2. Steady /\ [Next]_vars => Steady'
  BY SteadyNext
<1>3. Steady => AsTable
  <2> SUFFICES ASSUME Steady, rc = 0, NEW i \in DOMAIN table, NEW l, l = table[i]
               PROVE  /\ gid[l.group] # None
                      /\ \A g \in ToSet(l.groups) : gid[g] # None
                      /\ Creates(l) =>
                            /\ uid[l.username] = l.uid
                               \/ (l.uid = Automatic /\ uid[l.username] \in MinId..MaxId)
                               \/ \E j \in DOMAIN table : /\ table[j].username = l.username
                                                          /\ table[j].uid = uid[l.username]
                            /\ ugid[l.username] = gid[l.group]
                            /\ l.gid \in {Automatic, gid[l.group]}
                            /\ \A g \in ToSet(l.groups) : l.username \in member[g]
    BY DEF AsTable
  <2>1. \A p \in Passes : Through(p) = Len(table)
    BY ThroughIs DEF Steady
  <2>2. i \in 1..Len(table)
    BY DEF Typed, Steady
  <2>3. gid[l.group] # None /\ \A k \in DOMAIN l.groups : gid[l.groups[k]] # None
    BY <2>1, <2>2 DEF GroupsThere, Passes, Steady
  <2>4. \A g \in ToSet(l.groups) : gid[g] # None
    BY <2>3 DEF ToSet
  <2>5. Creates(l) => Served(l)
    BY <2>1, <2>2 DEF UsersServed, Passes, Steady
  <2>6. Served(l) => UidFrom(l.username, uid[l.username])
    BY DEF UidsFrom, Served, Steady
  <2>7. Served(l) => /\ uid[l.username] = l.uid
                        \/ (l.uid = Automatic /\ uid[l.username] \in MinId..MaxId)
                        \/ \E j \in DOMAIN table : /\ table[j].username = l.username
                                                   /\ table[j].uid = uid[l.username]
                     /\ ugid[l.username] = gid[l.group]
                     /\ l.gid \in {Automatic, gid[l.group]}
                     /\ \A g \in ToSet(l.groups) : l.username \in member[g]
    BY <2>6 DEF Served, UidFrom
  <2> QED BY <2>3, <2>4, <2>5, <2>7
<1> QED BY <1>1, <1>2, <1>3, PTL DEF Spec

-----------------------------------------------------------------------------
(***************************************************************************)
(* Why a second run gives the same ids: the ids of Free go, lowest first,  *)
(* to the names of Numbered in the order, Before, in which the passes come *)
(* to them, and F has what each has been given.  A kill can take it away,  *)
(* but then it is the lowest that is free when its name comes again.       *)
(***************************************************************************)
Tight(D, Numbered, Free, Before, F) ==
    /\ F \in [D -> Id]
    /\ \A g \in Numbered : F[g] # None =>
          F[g] \in Free /\ \A i \in Free : i < F[g] => \E h \in Numbered : F[h] = i
    /\ \A g, h \in Numbered : F[g] = F[h] /\ F[g] # None => g = h
    /\ \A g, h \in Numbered : F[h] # None /\ F[g] # None /\ F[h] < F[g] => <<h, g>> \in Before
    /\ \A g, h \in Numbered : F[h] # None /\ F[g] = None => <<h, g>> \in Before

LEMMA Generated ==
    ASSUME RangeAssumption, NEW D, NEW Numbered, Numbered \subseteq D,
           NEW Free, Free \subseteq MinId..MaxId, NEW Before,
           NEW F, Tight(D, Numbered, Free, Before, F),
           NEW ids \in [D -> Id], \A x \in Numbered : ids[x] \in {None, F[x]},
           \A x \in D \ Numbered : ids[x] \notin Free,
           \A i \in (MinId..MaxId) \ Free : \E x \in D : ids[x] = i,
           NEW n \in Numbered, ids[n] = None, Generate(ids, n) <= MaxId,
           \A x \in Numbered : <<x, n>> \in Before => ids[x] # None,
           \A x \in Numbered : ids[x] = None /\ x # n => <<n, x>> \in Before
    PROVE  \E E : /\ Tight(D, Numbered, Free, Before, E)
                  /\ \A x \in Numbered : F[x] # None => E[x] = F[x]
                  /\ E[n] = Generate(ids, n)
<1>1. PICK m : m = Generate(ids, n)
  OBVIOUS
<1>2. /\ m \in Nat /\ MinId <= m /\ m <= MaxId /\ m # None
      /\ \A x \in D : ids[x] # m
      /\ \A i \in MinId..MaxId : i < m => \E x \in D : ids[x] = i
  <2>1. m \in Nat /\ MinId <= m /\ m <= MaxId /\ Name(ids, m) = {} /\ DOMAIN ids = D
        /\ \A i \in MinId..MaxId : i < m => Name(ids, i) # {}
    BY <1>1, GenerateFree
  <2> QED BY <2>1 DEF Name, None
<1>3. m \in Free
  BY <1>2 DEF RangeAssumption
<1>4. \A i \in Free : i \in Nat /\ i # None /\ i \in MinId..MaxId
  BY DEF RangeAssumption, None
<1>5. \A i \in Free : i < m => \E h \in Numbered : F[h] = i /\ ids[h] = i
  BY <1>2, <1>4
<1>6. \A h \in Numbered : F[h] = m => ids[h] = None
  BY <1>2
<1>7. CASE F[n] # None
  <2>1. F[n] \in Free /\ F[n] \in Nat
    BY <1>4, <1>7 DEF Tight
  <2>2. ~(F[n] < m)
    <3> SUFFICES ASSUME F[n] < m PROVE FALSE
      OBVIOUS
    <3>1. PICK h \in Numbered : F[h] = F[n] /\ ids[h] = F[n]
      BY <1>5, <2>1
    <3>2. h = n
      BY <1>7, <3>1 DEF Tight
    <3> QED BY <1>7, <3>1, <3>2
  <2>3. ~(m < F[n])
    <3> SUFFICES ASSUME m < F[n] PROVE FALSE
      OBVIOUS
    <3>1. PICK h \in Numbered : F[h] = m
      BY <1>3, <1>7 DEF Tight
    <3>2. <<h, n>> \in Before
      BY <1>2, <1>7, <3>1 DEF Tight
    <3> QED BY <1>6, <3>1, <3>2
  <2>4. F[n] = m
    BY <1>2, <2>1, <2>2, <2>3
  <2> QED BY <1>1, <2>4
<1>8. CASE F[n] = None
  <2>1. PICK E : E = [F EXCEPT ![n] = m]
    OBVIOUS
  <2>2. F \in [D -> Id] /\ n \in D
    BY DEF Tight
  <2>3. E \in [D -> Id] /\ E[n] = m /\ \A x \in D : x # n => E[x] = F[x]
    BY <1>2, <2>1, <2>2 DEF Id
  <2>4. \A h \in Numbered : F[h] # None => <<h, n>> \in Before /\ ids[h] = F[h] /\ h # n
    BY <1>8 DEF Tight
  <2>5. \A h \in Numbered : F[h] # m
    BY <1>2, <1>6, <2>4
  <2>6. \A h \in Numbered : F[h] # None => F[h] \in Nat /\ F[h] < m
    <3> SUFFICES ASSUME NEW h \in Numbered, F[h] # None PROVE F[h] \in Nat /\ F[h] < m
      OBVIOUS
    <3>1. F[h] \in Free /\ F[h] \in Nat /\ \A i \in Free : i < F[h] => \E k \in Numbered : F[k] = i
      BY <1>4 DEF Tight
    <3>2. ~(m < F[h])
      BY <1>3, <2>5, <3>1
    <3> QED BY <1>2, <2>5, <3>1, <3>2
  <2>7. \A g \in Numbered : E[g] # None =>
            E[g] \in Free /\ \A i \in Free : i < E[g] => \E h \in Numbered : E[h] = i
    <3> SUFFICES ASSUME NEW g \in Numbered, E[g] # None
                 PROVE  E[g] \in Free /\ \A i \in Free : i < E[g] => \E h \in Numbered : F[h] = i /\ h # n
      BY <2>3
    <3>1. CASE g = n
      BY <1>3, <1>4, <1>5, <1>8, <2>3, <3>1
    <3>2. CASE g # n
      <4>1. F[g] # None /\ E[g] = F[g]
        BY <2>3, <3>2
      <4>2. F[g] \in Free /\ \A i \in Free : i < F[g] => \E h \in Numbered : F[h] = i
        BY <4>1 DEF Tight
      <4> QED BY <1>4, <1>8, <4>1, <4>2
    <3> QED BY <3>1, <3>2
  <2>8. \A g, h \in Numbered : E[g] = E[h] /\ E[g] # None => g = h
    <3>1. \A g, h \in Numbered : F[g] = F[h] /\ F[g] # None => g = h
      BY DEF Tight
    <3> QED BY <2>3, <2>5, <3>1
  <2>9. \A g, h \in Numbered : E[h] # None /\ E[g] # None /\ E[h] < E[g] => <<h, g>> \in Before
    <3> SUFFICES ASSUME NEW g \in Numbered, NEW h \in Numbered, E[h] # None, E[g] # None, E[h] < E[g]
                 PROVE  <<h, g>> \in Before
      OBVIOUS
    <3>1. CASE h = n
      BY <1>2, <2>3, <2>6, <3>1
    <3>2. CASE h # n /\ g = n
      BY <2>3, <2>4, <3>2
    <3>3. CASE h # n /\ g # n
      BY <2>3, <3>3 DEF Tight
    <3> QED BY <3>1, <3>2, <3>3
  <2>10. \A g, h \in Numbered : E[h] # None /\ E[g] = None => <<h, g>> \in Before
    <3> SUFFICES ASSUME NEW g \in Numbered, NEW h \in Numbered, E[h] # None, E[g] = None
                 PROVE  <<h, g>> \in Before
      OBVIOUS
    <3>1. g # n /\ F[g] = None
      BY <1>2, <2>3
    <3>2. CASE h = n
      BY <3>1, <3>2
    <3>3. CASE h # n
      BY <2>3, <3>1, <3>3 DEF Tight
    <3> QED BY <3>2, <3>3
  <2>11. Tight(D, Numbered, Free, Before, E)
    BY <2>3, <2>7, <2>8, <2>9, <2>10 DEF Tight
  <2>12. \A x \in Numbered : F[x] # None => E[x] = F[x]
    BY <1>8, <2>3
  <2> QED BY <1>1, <2>3, <2>11, <2>12
<1> QED BY <1>7, <1>8

(***************************************************************************)
(* The groups: those that neither the skeleton nor the table gives a gid   *)
(* get one in the passes auto_groups and more_groups.  A table that gives  *)
(* a group several gids gives it the last.                                 *)
(***************************************************************************)
GivenIn(t, g) == \E i \in DOMAIN t : t[i].group = g /\ t[i].gid # Automatic
LastGiven(t, i) ==
    /\ t[i].gid # Automatic
    /\ \A j \in DOMAIN t : i < j /\ t[j].group = t[i].group => t[j].gid = Automatic

AutoGroups(t) == {g \in Group : Skeleton[g] = None /\ ~GivenIn(t, g)}
FreeGids(t) == {i \in MinId..MaxId : \A j \in DOMAIN t : LastGiven(t, j) => t[j].gid # i}

\* h comes before g in these passes, wherever g comes.
Comes(t, h, g) ==
    /\ \A j \in DOMAIN t : t[j].group = g =>
          \E i \in DOMAIN t : i < j /\ t[i].group = h
    /\ \A j \in DOMAIN t : \A l \in DOMAIN t[j].groups : t[j].groups[l] = g =>
          \/ \E i \in DOMAIN t : t[i].group = h
          \/ \E i \in DOMAIN t : \E k \in DOMAIN t[i].groups :
                t[i].groups[k] = h /\ (i < j \/ (i = j /\ k < l))
GroupOrder(t) == {p \in Group \X Group : Comes(t, p[1], p[2])}

GroupsAs(F, t, ids) ==
    /\ Tight(Group, AutoGroups(t), FreeGids(t), GroupOrder(t), F)
    /\ \A g \in AutoGroups(t) : ids[g] \in {None, F[g]}

LEMMA LastIs ==
    ASSUME NEW t \in Seq(Line), NEW g, GivenIn(t, g)
    PROVE  \E i \in DOMAIN t : LastGiven(t, i) /\ t[i].group = g
<1> DEFINE S == {Len(t) - i : i \in {j \in DOMAIN t : t[j].group = g /\ t[j].gid # Automatic}}
<1>1. Len(t) \in Nat /\ DOMAIN t = 1..Len(t)
  OBVIOUS
<1>2. S \subseteq Nat /\ S # {}
  BY <1>1 DEF GivenIn
<1>3. PICK m \in S : \A y \in S : m <= y
  BY <1>2, LeastOf
<1>4. PICK i \in DOMAIN t : m = Len(t) - i /\ t[i].group = g /\ t[i].gid # Automatic
  BY <1>3
<1>5. \A j \in DOMAIN t : i < j /\ t[j].group = g => t[j].gid = Automatic
  <2> SUFFICES ASSUME NEW j \in DOMAIN t, i < j, t[j].group = g, t[j].gid # Automatic PROVE FALSE
    OBVIOUS
  <2>1. Len(t) - j \in S
    OBVIOUS
  <2>2. Len(t) - i <= Len(t) - j
    BY <1>3, <1>4, <2>1
  <2> QED BY <1>1, <2>2
<1> QED BY <1>4, <1>5 DEF LastGiven

\* What pass "groups" has done: of the gids of a group, the last it has come to
GivenThere ==
    \A i \in 1..Through("groups") :
        /\ table[i].gid # Automatic
        /\ \A j \in 1..Through("groups") : i < j /\ table[j].group = table[i].group => table[j].gid = Automatic
        => gid[table[i].group] = table[i].gid

LEMMA GivenNext ==
    ASSUME RangeAssumption, Steady, GivenThere, [Next]_vars
    PROVE  GivenThere'
<1>0. Len(table) \in Nat /\ line \in 1..(Len(table) + 1) /\ (pc = "idle" => line = 1)
  BY DEF Typed, Control, Running, Steady
<1>1. CASE Run \/ NoGid \/ KilledInGroup \/ Refuse \/ LoseUser \/ Kill
  <2>1. /\ table' = table /\ line' = 1
        /\ \/ pc' = "idle" /\ rc' \in {None, 1}
           \/ pc' = "groups" /\ rc' = None
    BY <1>0, <1>1, PassIs DEF Run, NoGid, KilledInGroup, Refuse, LoseUser, Kill, Exit
  <2>2. Through("groups")' = 0
    BY <2>1, StepOut DEF Passes, Steady
  <2> QED BY <2>2 DEF GivenThere
<1>2. CASE EndPass \/ UNCHANGED vars
  <2>1. Through("groups")' = Through("groups")
    BY <1>2, StepPass, StayOn DEF vars, Passes, Steady
  <2>2. UNCHANGED <<table, gid>>
    BY <1>2 DEF EndPass, vars, files
  <2> QED BY <2>1, <2>2 DEF GivenThere
<1>3. ASSUME Skip \/ AddUser
      PROVE  GivenThere'
  <2>1. /\ Running /\ line <= Len(table) /\ line' = line + 1 /\ UNCHANGED <<table, gid, pc, rc>>
        /\ pc = "groups" => table[line].gid = Automatic
    BY <1>3 DEF Skip, AddUser, files, Advance, Mine, Here, UserDue, Running
  <2>2. Through("groups")' = IF pc = "groups" THEN line ELSE Through("groups")
    BY <2>1, StepOn DEF Steady, Passes
  <2>3. pc = "groups" => Through("groups") = line - 1
    BY DEF Through
  <2>4. \A i \in 1..Through("groups")' : i \in 1..Through("groups") \/ (pc = "groups" /\ i = line)
    BY <1>0, <2>2, <2>3
  <2>5. \A i \in 1..Through("groups") : i \in 1..Through("groups")'
    BY <1>0, <2>2, <2>3
  <2> QED BY <2>1, <2>4, <2>5 DEF GivenThere
<1>4. CASE AddGroup
  <2>1. PICK d : /\ d \in GroupDue /\ ~NoIdLeft(gid, d[1], d[2])
                 /\ gid' = [gid EXCEPT ![d[1]] = Wanted(gid, d[1], d[2])]
                 /\ IF pc = "more_groups" THEN line' = line ELSE line' = line + 1
                 /\ UNCHANGED <<table, pc, rc>>
    BY <1>4 DEF AddGroup, Advance
  <2>2. /\ d[1] \in Group /\ line <= Len(table) /\ Running
        /\ gid \in [Group -> Id]
    BY <2>1, GroupTyped DEF GroupDue, Steady, Typed
  <2>3. CASE pc = "groups"
    <3>1. d[1] = table[line].group /\ d[2] = table[line].gid /\ table[line].gid # Automatic
      BY <2>1, <2>3 DEF GroupDue, Mine, Here
    <3>2. gid' = [gid EXCEPT ![table[line].group] = table[line].gid]
      BY <2>1, <3>1 DEF Wanted
    <3>3. Through("groups")' = line /\ Through("groups") = line - 1
      BY <2>1, <2>2, <2>3, StepOn DEF Steady, Through, Passes
    <3>4. \A i \in 1..line : i = line \/ (i \in 1..(line - 1) /\ i < line)
      BY <1>0
    <3>5. \A i \in 1..(line - 1) : i \in 1..line
      BY <1>0
    <3>6. \A i \in 1..Len(table) : table[i].group \in Group
      BY LineTyped DEF Steady
    <3>7. line \in 1..line
      BY <1>0
    <3>8. gid'[table[line].group] = table[line].gid
      BY <2>1, <2>2, <3>1, <3>2
    <3>9. ASSUME NEW i \in 1..line, table[i].gid # Automatic,
                 \A j \in 1..line : i < j /\ table[j].group = table[i].group => table[j].gid = Automatic
          PROVE  gid'[table[i].group] = table[i].gid
      <4>1. CASE i = line
        BY <3>8, <4>1
      <4>2. CASE i # line
        <5>1. i \in 1..(line - 1) /\ i < line
          BY <3>4, <4>2
        <5>2. table[i].group # table[line].group
          BY <3>1, <3>7, <3>9, <5>1
        <5>3. gid[table[i].group] = table[i].gid
          BY <3>3, <3>5, <3>9, <5>1 DEF GivenThere
        <5>4. table[i].group \in Group
          BY <1>0, <2>2, <3>6
        <5> QED BY <2>2, <3>2, <5>2, <5>3, <5>4
      <4> QED BY <4>1, <4>2
    <3> QED BY <2>1, <3>3, <3>9 DEF GivenThere
  <2>4. CASE pc # "groups"
    <3>1. d[2] = Automatic /\ pc \in {"auto_groups", "more_groups"}
      <4>1. pc \in {"auto_groups", "more_groups"}
        BY <2>1, <2>4 DEF GroupDue
      <4>2. CASE pc = "auto_groups"
        BY <2>1, <4>2 DEF GroupDue, Mine
      <4>3. CASE pc = "more_groups"
        BY <2>1, <4>3 DEF GroupDue
      <4> QED BY <4>1, <4>2, <4>3
    <3>2. Through("groups") = Len(table) /\ Through("groups")' = Len(table)
      BY <2>1, <3>1 DEF Through, Later
    <3>3. \A g \in Group : gid[g] # None => gid'[g] = gid[g]
      BY <2>1, <2>2, <3>1 DEF Wanted, Generate
    <3>4. \A i \in 1..Len(table) : table[i].group \in Group /\ (table[i].gid # Automatic => gid[table[i].group] # None)
      BY <3>2, LineTyped DEF Steady, GroupsThere
    <3> QED BY <2>1, <3>2, <3>3, <3>4 DEF GivenThere
  <2> QED BY <2>3, <2>4
<1> QED BY <1>1, <1>2, <1>3, <1>4 DEF Next

\* Once all explicit gids are given
LEMMA GivenIs ==
    ASSUME Steady, GivenThere, pc \in {"auto_groups", "more_groups", "users", "auto_users"} \/ rc = 0
    PROVE  /\ \A i \in DOMAIN table : LastGiven(table, i) => gid[table[i].group] = table[i].gid
           /\ \A g \in Group : GivenIn(table, g) =>
                 \E i \in DOMAIN table : LastGiven(table, i) /\ table[i].group = g /\ gid[g] = table[i].gid
<1>1. Through("groups") = Len(table) /\ DOMAIN table = 1..Len(table) /\ table \in Seq(Line)
  BY ThroughIs DEF Steady, Typed, Through, Later, Passes
<1>2. \A i \in DOMAIN table : LastGiven(table, i) => gid[table[i].group] = table[i].gid
  BY <1>1 DEF GivenThere, LastGiven
<1> QED BY <1>1, <1>2, LastIs

\* A group of the skeleton that has lost its gid never gets it back.
LEMMA KeptBefore ==
    ASSUME RangeAssumption, SkeletonOutside, Steady, [Next]_vars, SkeletonKept'
    PROVE  SkeletonKept
<1>1. table' = table
  BY DEF Next, Run, EndPass, Skip, AddGroup, NoGid, AddUser, Refuse, KilledInGroup, LoseUser, Kill, vars
<1> SUFFICES ASSUME NEW g \in Group, Skeleton[g] # None, ~Given(g) PROVE gid[g] = Skeleton[g]
  BY DEF SkeletonKept
<1>2. gid'[g] = Skeleton[g]
  BY <1>1 DEF SkeletonKept, Given
<1>3. CASE AddGroup
  <2>1. PICK d : /\ d \in GroupDue /\ ~NoIdLeft(gid, d[1], d[2])
                 /\ gid' = [gid EXCEPT ![d[1]] = Wanted(gid, d[1], d[2])]
    BY <1>3 DEF AddGroup
  <2>2. /\ gid \in [Group -> Id] /\ d[1] \in Group /\ d[2] \in {Automatic} \cup Nat
        /\ d[2] # Automatic => /\ line \in DOMAIN table
                               /\ table[line].group = d[1] /\ table[line].gid = d[2]
    BY <2>1, GroupTyped DEF Steady, Typed
  <2>3. CASE d[1] # g
    BY <1>2, <2>1, <2>2, <2>3
  <2>4. CASE d[1] = g
    <3>1. d[2] = Automatic
      BY <2>2, <2>4 DEF Given
    <3>2. Wanted(gid, g, d[2]) = Generate(gid, g) /\ gid'[g] = Generate(gid, g)
      BY <2>1, <2>2, <2>4, <3>1 DEF Wanted
    <3>3. CASE gid[g] # None
      BY <1>2, <3>2, <3>3 DEF Generate
    <3>4. CASE gid[g] = None
      <4>1. Generate(gid, g) \in MinId..MaxId
        BY <2>1, <2>4, <3>1, <3>4, GenerateFree DEF NoIdLeft, RangeAssumption
      <4> QED BY <1>2, <3>2, <4>1 DEF SkeletonOutside
    <3> QED BY <3>3, <3>4
  <2> QED BY <2>3, <2>4
<1>4. CASE KilledInGroup
  <2>1. PICK d : gid' = [gid EXCEPT ![d[1]] = None]
    BY <1>4 DEF KilledInGroup
  <2> QED BY <1>2, <2>1 DEF Steady, Typed
<1>5. CASE ~AddGroup /\ ~KilledInGroup
  <2>1. gid' = gid
    BY <1>5 DEF Next, Run, EndPass, Skip, NoGid, AddUser, Refuse, LoseUser, Kill, vars, files
  <2> QED BY <1>2, <2>1
<1> QED BY <1>3, <1>4, <1>5

\* A group that gets a new gid comes after those of the order that are there,
\* and before those that are missing.
LEMMA NewGroup ==
    ASSUME Steady, NEW d, d \in GroupDue, pc # "groups", gid[d[1]] = None
    PROVE  /\ d[2] = Automatic
           /\ \A x \in Group : <<x, d[1]>> \in GroupOrder(table) => gid[x] # None
           /\ \A x \in Group : gid[x] = None /\ x # d[1] => <<d[1], x>> \in GroupOrder(table)
<1>0. /\ Len(table) \in Nat /\ DOMAIN table = 1..Len(table) /\ line \in 1..Len(table) /\ d[1] \in Group
  BY GroupTyped DEF Steady, Typed
<1>1. pc \in {"auto_groups", "more_groups"}
  BY DEF GroupDue
<1>2. \A i \in DOMAIN table : table[i].gid # Automatic => gid[table[i].group] # None
  <2>1. Through("groups") = Len(table)
    BY <1>1 DEF Through, Later
  <2> QED BY <1>0, <2>1 DEF Steady, GroupsThere
<1> SUFFICES /\ d[2] = Automatic
             /\ \A x \in Group : Comes(table, x, d[1]) => gid[x] # None
             /\ \A x \in Group : gid[x] = None /\ x # d[1] => Comes(table, d[1], x)
  BY <1>0 DEF GroupOrder
<1>3. CASE pc = "auto_groups"
  <2>1. d[2] = Automatic /\ d[1] = table[line].group /\ table[line].gid = Automatic
    BY <1>3 DEF GroupDue, Mine, Here
  <2>2. Through("auto_groups") = line - 1
    BY <1>3 DEF Through
  <2>3. \A i \in DOMAIN table : i < line => gid[table[i].group] # None
    <3>1. \A i \in DOMAIN table : i < line => i \in 1..(line - 1)
      BY <1>0
    <3> QED BY <1>2, <2>2, <3>1 DEF Steady, GroupsThere
  <2>4. \A x \in Group : Comes(table, x, d[1]) => gid[x] # None
    BY <1>0, <2>1, <2>3 DEF Comes
  <2>5. ASSUME NEW x \in Group, gid[x] = None, x # d[1] PROVE Comes(table, d[1], x)
    <3>1. \A j \in DOMAIN table : table[j].group = x => line < j
      <4> SUFFICES ASSUME NEW j \in DOMAIN table, table[j].group = x PROVE line < j
        OBVIOUS
      <4>1. j # line /\ ~(j < line)
        BY <2>1, <2>3, <2>5
      <4> QED BY <1>0, <4>1
    <3> QED BY <1>0, <2>1, <3>1 DEF Comes
  <2> QED BY <2>1, <2>4, <2>5
<1>4. CASE pc = "more_groups"
  <2>1. d[2] = Automatic /\ d[1] = Head(queue) /\ queue # <<>>
    BY <1>4 DEF GroupDue
  <2>2. Through("auto_groups") = Len(table) /\ Through("more_groups") = line - 1
    BY <1>4 DEF Through, Later
  <2>3. \A i \in DOMAIN table : gid[table[i].group] # None
    BY <1>0, <1>2, <2>2 DEF Steady, GroupsThere
  <2>4. \A i \in DOMAIN table : i < line => \A k \in DOMAIN table[i].groups : gid[table[i].groups[k]] # None
    <3>1. \A i \in DOMAIN table : i < line => i \in 1..(line - 1)
      BY <1>0
    <3> QED BY <2>2, <3>1 DEF Steady, GroupsThere
  <2>5. table[line].groups \in Seq(Group)
    BY <1>0, LineTyped DEF Steady
  <2>6. PICK n \in 0..Len(table[line].groups) : /\ queue = Rest(table[line].groups, n)
                                                /\ \A k \in 1..n : gid[table[line].groups[k]] # None
    BY <1>0, <1>4 DEF Steady, GroupsThere, Here
  <2>7. n + 1 \in DOMAIN table[line].groups /\ d[1] = table[line].groups[n + 1]
    <3>1. PICK s : s = table[line].groups
      OBVIOUS
    <3>2. s \in Seq(Group) /\ n \in 0..Len(s) /\ Rest(s, n) # <<>> /\ d[1] = Head(Rest(s, n))
      BY <2>1, <2>5, <2>6, <3>1
    <3>3. n + 1 \in 1..Len(s) /\ d[1] = s[n + 1]
      BY <3>2, RestIs
    <3> QED BY <3>1, <3>2, <3>3
  <2>8. \A k \in DOMAIN table[line].groups : k \in Nat /\ (k < n + 1 => gid[table[line].groups[k]] # None)
    BY <2>5, <2>6
  <2>9. ASSUME NEW x \in Group, Comes(table, x, d[1]) PROVE gid[x] # None
    <3>1. \/ \E i \in DOMAIN table : table[i].group = x
          \/ \E i \in DOMAIN table : \E k \in DOMAIN table[i].groups :
                table[i].groups[k] = x /\ (i < line \/ (i = line /\ k < n + 1))
      BY <1>0, <2>7, <2>9 DEF Comes
    <3> QED BY <2>3, <2>4, <2>8, <3>1
  <2>10. ASSUME NEW x \in Group, gid[x] = None, x # d[1] PROVE Comes(table, d[1], x)
    <3>1. \A j \in DOMAIN table : table[j].group # x
      BY <2>3, <2>10
    <3>2. ASSUME NEW j \in DOMAIN table, NEW l \in DOMAIN table[j].groups, table[j].groups[l] = x
          PROVE  line < j \/ (line = j /\ n + 1 < l)
      <4>1. ~(j < line)
        BY <2>4, <2>10, <3>2
      <4>2. CASE j = line
        <5>1. l \in Nat /\ ~(l < n + 1) /\ l # n + 1
          BY <2>7, <2>8, <2>10, <3>2, <4>2
        <5> QED BY <2>6, <4>2, <5>1
      <4> QED BY <1>0, <4>1, <4>2
    <3>3. line \in DOMAIN table
      BY <1>0
    <3> QED BY <2>7, <3>1, <3>2, <3>3 DEF Comes
  <2> QED BY <2>1, <2>9, <2>10
<1> QED BY <1>1, <1>3, <1>4

LEMMA GroupStep ==
    ASSUME RangeAssumption, SkeletonOutside, Steady, GivenThere, [Next]_vars, SkeletonKept',
           NEW F, GroupsAs(F, table, gid)
    PROVE  \E E : /\ GroupsAs(E, table, gid')
                  /\ \A g \in AutoGroups(table) : F[g] # None => E[g] = F[g]
<1>0. SkeletonKept /\ gid \in [Group -> Id]
  BY KeptBefore DEF Steady, Typed
<1>1. CASE AddGroup
  <2>1. PICK d : /\ d \in GroupDue /\ ~NoIdLeft(gid, d[1], d[2])
                 /\ gid' = [gid EXCEPT ![d[1]] = Wanted(gid, d[1], d[2])]
                 /\ table' = table
    BY <1>1 DEF AddGroup
  <2>2. d[1] \in Group /\ d[2] \in {Automatic} \cup Nat
        /\ (d[2] # Automatic => GivenIn(table, d[1]))
    BY <2>1, GroupTyped DEF Steady, GivenIn
  <2>3. CASE \A g \in AutoGroups(table) : gid'[g] = gid[g]
    BY <2>3 DEF GroupsAs
  <2>4. CASE d[1] \notin AutoGroups(table)
    <3>1. \A g \in AutoGroups(table) : gid'[g] = gid[g]
      BY <1>0, <2>1, <2>4 DEF AutoGroups
    <3> QED BY <2>3, <3>1
  <2>5. CASE d[2] = Automatic /\ gid[d[1]] # None
    <3>1. gid'[d[1]] = gid[d[1]]
      BY <1>0, <2>1, <2>2, <2>5 DEF Wanted, Generate
    <3>2. \A g \in AutoGroups(table) : gid'[g] = gid[g]
      BY <1>0, <2>1, <2>2, <3>1 DEF AutoGroups
    <3> QED BY <2>3, <3>2
  <2>6. CASE d[1] \in AutoGroups(table) /\ gid[d[1]] = None
    <3> DEFINE n == d[1]
    <3>1. d[2] = Automatic
      BY <2>2, <2>6 DEF AutoGroups
    <3>2. pc # "groups"
      <4> SUFFICES ASSUME pc = "groups" PROVE FALSE
        OBVIOUS
      <4>1. Here.gid # Automatic /\ d = <<Here.group, Here.gid>>
        BY <2>1 DEF GroupDue, Mine
      <4> QED BY <3>1, <4>1
    <3>3. /\ \A x \in Group : <<x, n>> \in GroupOrder(table) => gid[x] # None
          /\ \A x \in Group : gid[x] = None /\ x # n => <<n, x>> \in GroupOrder(table)
      BY <2>1, <2>6, <3>2, NewGroup
    <3>4. pc \in {"auto_groups", "more_groups"}
      BY <2>1, <3>2 DEF GroupDue
    <3>5. \A x \in Group \ AutoGroups(table) : gid[x] \notin FreeGids(table)
      <4> SUFFICES ASSUME NEW x \in Group \ AutoGroups(table) PROVE gid[x] \notin FreeGids(table)
        OBVIOUS
      <4>1. CASE GivenIn(table, x)
        BY <3>4, <4>1, GivenIs DEF FreeGids
      <4>2. CASE ~GivenIn(table, x)
        <5>1. gid[x] = Skeleton[x]
          BY <1>0, <4>2 DEF AutoGroups, SkeletonKept, Given, GivenIn
        <5> QED BY <5>1 DEF FreeGids, SkeletonOutside
      <4> QED BY <4>1, <4>2
    <3>6. \A i \in (MinId..MaxId) \ FreeGids(table) : \E x \in Group : gid[x] = i
      <4> SUFFICES ASSUME NEW i \in (MinId..MaxId) \ FreeGids(table) PROVE \E x \in Group : gid[x] = i
        OBVIOUS
      <4>1. PICK j \in DOMAIN table : LastGiven(table, j) /\ table[j].gid = i
        BY DEF FreeGids
      <4>2. table[j].group \in Group
        BY LineTyped DEF Steady, Typed
      <4> QED BY <3>4, <4>1, <4>2, GivenIs
    <3>7. Generate(gid, n) <= MaxId
      BY <2>1, <2>6, <3>1, GenerateFree DEF NoIdLeft, RangeAssumption
    <3>8. Tight(Group, AutoGroups(table), FreeGids(table), GroupOrder(table), F)
          /\ \A x \in AutoGroups(table) : gid[x] \in {None, F[x]}
      BY DEF GroupsAs
    <3>9. AutoGroups(table) \subseteq Group /\ FreeGids(table) \subseteq MinId..MaxId
      BY DEF AutoGroups, FreeGids
    <3>10. PICK E : /\ Tight(Group, AutoGroups(table), FreeGids(table), GroupOrder(table), E)
                    /\ \A x \in AutoGroups(table) : F[x] # None => E[x] = F[x]
                    /\ E[n] = Generate(gid, n)
      BY <1>0, <2>6, <3>3, <3>5, <3>6, <3>7, <3>8, <3>9, Generated
    <3>11. gid' = [gid EXCEPT ![n] = E[n]]
      BY <2>1, <3>1, <3>10 DEF Wanted
    <3>12. \A x \in AutoGroups(table) : gid'[x] \in {None, E[x]}
      BY <1>0, <3>8, <3>9, <3>10, <3>11
    <3> QED BY <3>10, <3>12 DEF GroupsAs
  <2>7. d[1] \in AutoGroups(table) => d[2] = Automatic
    BY <2>2 DEF AutoGroups
  <2> QED BY <2>4, <2>5, <2>6, <2>7
<1>2. CASE KilledInGroup
  <2>1. PICK d : gid' = [gid EXCEPT ![d[1]] = None]
    BY <1>2 DEF KilledInGroup
  <2>2. \A g \in Group : gid'[g] \in {None, gid[g]}
    BY <1>0, <2>1
  <2> QED BY <2>2 DEF GroupsAs, AutoGroups
<1>3. CASE ~AddGroup /\ ~KilledInGroup
  <2>1. gid' = gid
    BY <1>3 DEF Next, Run, EndPass, Skip, NoGid, AddUser, Refuse, LoseUser, Kill, vars, files
  <2> QED BY <2>1
<1> QED BY <1>1, <1>2, <1>3

-----------------------------------------------------------------------------
(***************************************************************************)
(* The users: those that no line gives a uid get one in pass auto_users.   *)
(***************************************************************************)
LinesOf(t, u) == {i \in DOMAIN t : Creates(t[i]) /\ t[i].username = u}

AutoUsers(t) == {u \in User : \A i \in LinesOf(t, u) : t[i].uid = Automatic}
FreeUids(t) == {i \in MinId..MaxId : \A j \in DOMAIN t : Creates(t[j]) => t[j].uid # i}
UserOrder(t) ==
    {p \in User \X User : \A j \in LinesOf(t, p[2]) : \E i \in LinesOf(t, p[1]) : i < j}

UsersAs(F, t, ids) ==
    /\ Tight(User, AutoUsers(t), FreeUids(t), UserOrder(t), F)
    /\ \A u \in AutoUsers(t) : ids[u] \in {None, F[u]}

\* In pass auto_users, the users of the lines before are there.
LEMMA UsersBefore ==
    ASSUME Steady, pc = "auto_users", line <= Len(table)
    PROVE  /\ line \in DOMAIN table
           /\ \A i \in DOMAIN table : table[i].uid # Automatic /\ Creates(table[i]) => Served(table[i])
           /\ \A i \in DOMAIN table : i < line /\ Creates(table[i]) => Served(table[i])
<1>1. /\ DOMAIN table = 1..Len(table) /\ line \in 1..Len(table)
      /\ Through("users") = Len(table) /\ Through("auto_users") = line - 1
  BY DEF Steady, Typed, Through, Later
<1>2. \A i \in DOMAIN table : i < line => i \in 1..(line - 1)
  BY <1>1
<1> QED BY <1>1, <1>2 DEF Steady, UsersServed

LEMMA UserStep ==
    ASSUME RangeAssumption, Steady, [Next]_vars, NEW F, UsersAs(F, table, uid)
    PROVE  \E E : /\ UsersAs(E, table, uid')
                  /\ \A u \in AutoUsers(table) : F[u] # None => E[u] = F[u]
<1>0. uid \in [User -> Id] /\ Typed /\ Control /\ GroupsThere /\ UidsFrom
  BY DEF Steady, Typed
<1>1. CASE AddUser
  <2>1. PICK u \in User, w \in Nat :
           /\ u = Here.username /\ w = Wanted(uid, u, Here.uid)
           /\ ~NoIdLeft(uid, u, Here.uid)
           /\ uid' = [uid EXCEPT ![u] = w]
           /\ uid[u] # None => w = uid[u]
    BY <1>0, <1>1, UserAdded
  <2>2. CASE \A x \in AutoUsers(table) : uid'[x] = uid[x]
    BY <2>2 DEF UsersAs
  <2>3. CASE u \notin AutoUsers(table)
    <3>1. \A x \in AutoUsers(table) : uid'[x] = uid[x]
      BY <1>0, <2>1, <2>3 DEF AutoUsers
    <3> QED BY <2>2, <3>1
  <2>4. CASE uid[u] # None
    <3>1. \A x \in AutoUsers(table) : uid'[x] = uid[x]
      BY <1>0, <2>1, <2>4 DEF AutoUsers
    <3> QED BY <2>2, <3>1
  <2>5. CASE u \in AutoUsers(table) /\ uid[u] = None
    <3>1. line \in LinesOf(table, u) /\ UserDue
      <4>1. UserDue
        BY <1>1 DEF AddUser
      <4>2. line \in DOMAIN table
        BY <1>0, <4>1 DEF UserDue, Typed
      <4>3. Here.username # NoUser
        BY <4>1 DEF UserDue, Mine
      <4> QED BY <2>1, <4>1, <4>2, <4>3 DEF LinesOf, Creates, Here
    <3>2. Here.uid = Automatic /\ pc = "auto_users" /\ line <= Len(table)
      <4>1. table[line].uid = Automatic
        BY <2>5, <3>1 DEF AutoUsers
      <4> QED BY <3>1, <4>1 DEF UserDue, Mine, Here
    <3>3. /\ line \in DOMAIN table /\ line \in Nat /\ DOMAIN table \subseteq Nat
          /\ \A i \in DOMAIN table : table[i].uid # Automatic /\ Creates(table[i]) => Served(table[i])
          /\ \A i \in DOMAIN table : i < line /\ Creates(table[i]) => Served(table[i])
      BY <1>0, <3>2, UsersBefore DEF Typed
    <3>4. ASSUME NEW x \in User, <<x, u>> \in UserOrder(table) PROVE uid[x] # None
      <4>1. PICK i \in LinesOf(table, x) : i < line
        BY <3>1, <3>4 DEF UserOrder
      <4>2. Served(table[i]) /\ table[i].username = x
        BY <3>3, <4>1 DEF LinesOf
      <4> QED BY <4>2 DEF Served
    <3>5. ASSUME NEW x \in User, uid[x] = None, x # u PROVE <<u, x>> \in UserOrder(table)
      <4>1. ASSUME NEW j \in LinesOf(table, x) PROVE line < j
        <5>1. j \in DOMAIN table /\ Creates(table[j]) /\ table[j].username = x
          BY <4>1 DEF LinesOf
        <5>2. ~Served(table[j])
          BY <3>5, <5>1 DEF Served
        <5>3. j # line /\ ~(j < line)
          BY <2>1, <3>3, <3>5, <5>1, <5>2 DEF Here
        <5> QED BY <3>3, <5>1, <5>3
      <4> QED BY <3>1, <4>1 DEF UserOrder
    <3>6. ASSUME NEW x \in User \ AutoUsers(table) PROVE uid[x] \notin FreeUids(table)
      <4>1. PICK i \in LinesOf(table, x) : table[i].uid # Automatic
        BY <3>6 DEF AutoUsers
      <4>2. i \in DOMAIN table /\ Creates(table[i]) /\ table[i].username = x /\ table[i].uid = uid[x]
        BY <3>3, <4>1 DEF LinesOf, Served
      <4> QED BY <4>2 DEF FreeUids
    <3>7. ASSUME NEW i \in (MinId..MaxId) \ FreeUids(table) PROVE \E x \in User : uid[x] = i
      <4>1. PICK j \in DOMAIN table : Creates(table[j]) /\ table[j].uid = i
        BY <3>7 DEF FreeUids
      <4>2. table[j].uid # Automatic
        BY <4>1 DEF Automatic, RangeAssumption
      <4>3. Served(table[j])
        BY <3>3, <4>1, <4>2
      <4> QED BY <4>1, <4>2, <4>3 DEF Served
    <3>8. Generate(uid, u) <= MaxId
      BY <2>1, <2>5, <3>2, GenerateFree DEF NoIdLeft, RangeAssumption
    <3>9. Tight(User, AutoUsers(table), FreeUids(table), UserOrder(table), F)
          /\ \A x \in AutoUsers(table) : uid[x] \in {None, F[x]}
      BY DEF UsersAs
    <3>10. AutoUsers(table) \subseteq User /\ FreeUids(table) \subseteq MinId..MaxId
      BY DEF AutoUsers, FreeUids
    <3>11. PICK E : /\ Tight(User, AutoUsers(table), FreeUids(table), UserOrder(table), E)
                    /\ \A x \in AutoUsers(table) : F[x] # None => E[x] = F[x]
                    /\ E[u] = Generate(uid, u)
      BY <1>0, <2>5, <3>4, <3>5, <3>6, <3>7, <3>8, <3>9, <3>10, Generated
    <3>12. uid' = [uid EXCEPT ![u] = E[u]]
      BY <2>1, <3>2, <3>11 DEF Wanted
    <3>13. \A x \in AutoUsers(table) : uid'[x] \in {None, E[x]}
      BY <1>0, <3>9, <3>10, <3>11, <3>12
    <3> QED BY <3>11, <3>13 DEF UsersAs
  <2> QED BY <2>3, <2>4, <2>5
<1>2. CASE LoseUser
  <2>1. uid' = [uid EXCEPT ![Here.username] = None]
    BY <1>2 DEF LoseUser
  <2>2. \A u \in User : uid'[u] \in {None, uid[u]}
    BY <1>0, <2>1
  <2> QED BY <2>2 DEF UsersAs, AutoUsers
<1>3. CASE ~AddUser /\ ~LoseUser
  <2>1. uid' = uid
    BY <1>3 DEF Next, Run, EndPass, Skip, AddGroup, NoGid, Refuse, KilledInGroup, Kill, vars, files
  <2> QED BY <2>1
<1> QED BY <1>1, <1>2, <1>3

-----------------------------------------------------------------------------
(***************************************************************************)
(* What /etc/group and /etc/passwd are after a success: the gids and uids  *)
(* that the table, the skeleton or the order of the passes gives.          *)
(***************************************************************************)
Occurs(t, g) ==
    \E i \in DOMAIN t : t[i].group = g \/ \E k \in DOMAIN t[i].groups : t[i].groups[k] = g

GidIn(t, F, g) ==
    IF GivenIn(t, g) THEN t[CHOOSE i \in DOMAIN t : LastGiven(t, i) /\ t[i].group = g].gid
    ELSE IF Skeleton[g] # None THEN Skeleton[g] ELSE F[g]

Members(t, g) ==
    {u \in User : \E i \in LinesOf(t, u) : \E k \in DOMAIN t[i].groups : t[i].groups[k] = g}

Gids(t, F, ids) ==
    /\ ids \in [Group -> Id]
    /\ \A g \in Group : IF Occurs(t, g) THEN ids[g] # None /\ ids[g] = GidIn(t, F, g)
                        ELSE ids[g] = Skeleton[g]

Uids(t, F, ids) ==
    /\ ids \in [User -> Id]
    /\ \A u \in User : LinesOf(t, u) = {} => ids[u] = None
    /\ \A u \in AutoUsers(t) : LinesOf(t, u) # {} => ids[u] # None /\ ids[u] = F[u]
    /\ \A u \in User : \A i \in LinesOf(t, u) : t[i].uid \in {Automatic, ids[u]}

MainGids(t, gids, ids) ==
    /\ ids \in [User -> Id]
    /\ \A u \in User : LinesOf(t, u) = {} => ids[u] = None
    /\ \A u \in User : \A i \in LinesOf(t, u) : ids[u] = gids[t[i].group]

Outcome(t, F, E, a, m, b, c) ==
    /\ Gids(t, F, a)
    /\ m \in [Group -> SUBSET User] /\ \A g \in Group : m[g] = Members(t, g)
    /\ Uids(t, E, b)
    /\ MainGids(t, a, c)

LEMMA SameOutcome ==
    ASSUME NEW t, NEW F, NEW E,
           NEW a, NEW m, NEW b, NEW c, Outcome(t, F, E, a, m, b, c),
           NEW d, NEW n, NEW e, NEW f, Outcome(t, F, E, d, n, e, f)
    PROVE  a = d /\ m = n /\ b = e /\ c = f
<1>1. a = d
  <2>1. a \in [Group -> Id] /\ d \in [Group -> Id]
    BY DEF Outcome, Gids
  <2>2. \A g \in Group : a[g] = d[g]
    BY DEF Outcome, Gids
  <2> QED BY <2>1, <2>2
<1>2. m = n
  <2>1. m \in [Group -> SUBSET User] /\ n \in [Group -> SUBSET User]
    BY DEF Outcome
  <2>2. \A g \in Group : m[g] = n[g]
    BY DEF Outcome
  <2> QED BY <2>1, <2>2
<1>3. b = e
  <2>1. b \in [User -> Id] /\ e \in [User -> Id]
    BY DEF Outcome, Uids
  <2>2. ASSUME NEW u \in User PROVE b[u] = e[u]
    <3>1. CASE LinesOf(t, u) = {}
      BY <3>1 DEF Outcome, Uids
    <3>2. CASE LinesOf(t, u) # {} /\ u \in AutoUsers(t)
      BY <3>2 DEF Outcome, Uids
    <3>3. CASE u \notin AutoUsers(t)
      <4>1. PICK i \in LinesOf(t, u) : t[i].uid # Automatic
        BY <3>3 DEF AutoUsers
      <4> QED BY <4>1 DEF Outcome, Uids
    <3> QED BY <3>1, <3>2, <3>3
  <2> QED BY <2>1, <2>2
<1>4. c = f
  <2>1. c \in [User -> Id] /\ f \in [User -> Id]
    BY DEF Outcome, MainGids
  <2>2. ASSUME NEW u \in User PROVE c[u] = f[u]
    <3>1. CASE LinesOf(t, u) = {}
      BY <3>1 DEF Outcome, MainGids
    <3>2. CASE LinesOf(t, u) # {}
      <4>1. PICK i \in LinesOf(t, u) : TRUE
        BY <3>2
      <4>2. c[u] = a[t[i].group] /\ f[u] = d[t[i].group]
        BY <4>1 DEF Outcome, MainGids
      <4> QED BY <1>1, <4>2
    <3> QED BY <3>1, <3>2
  <2> QED BY <2>1, <2>2
<1> QED BY <1>1, <1>2, <1>3, <1>4

\* Groups and users that get their ids later change no outcome.
Extends(E, F, D) == \A x \in D : F[x] # None => E[x] = F[x]

LEMMA GidKept ==
    ASSUME NEW t, NEW F, NEW E, Extends(E, F, AutoGroups(t)), NEW g \in Group, GidIn(t, F, g) # None
    PROVE  GidIn(t, E, g) = GidIn(t, F, g)
  BY DEF GidIn, Extends, AutoGroups

LEMMA OutcomeKept ==
    ASSUME NEW t, NEW F, NEW E, NEW F2, NEW E2,
           Extends(F2, F, AutoGroups(t)), Extends(E2, E, AutoUsers(t)),
           NEW a, NEW m, NEW b, NEW c, Outcome(t, F, E, a, m, b, c)
    PROVE  Outcome(t, F2, E2, a, m, b, c)
<1>1. Gids(t, F2, a)
  <2>1. \A g \in Group : Occurs(t, g) => a[g] # None /\ a[g] = GidIn(t, F2, g)
    BY GidKept DEF Outcome, Gids
  <2> QED BY <2>1 DEF Outcome, Gids
<1>2. Uids(t, E2, b)
  <2>1. \A u \in AutoUsers(t) : LinesOf(t, u) # {} => b[u] # None /\ b[u] = E2[u]
    BY DEF Outcome, Uids, Extends
  <2> QED BY <2>1 DEF Outcome, Uids
<1> QED BY <1>1, <1>2 DEF Outcome

\* What is there now
LEMMA GidNow ==
    ASSUME Steady, GivenThere, SkeletonKept, pc \in {"auto_groups", "more_groups", "users", "auto_users"} \/ rc = 0,
           NEW F, GroupsAs(F, table, gid), NEW g \in Group, gid[g] # None
    PROVE  gid[g] = GidIn(table, F, g)
<1>1. CASE GivenIn(table, g)
  <2>1. \A i \in DOMAIN table : LastGiven(table, i) => gid[table[i].group] = table[i].gid
    BY GivenIs
  <2>2. \E i \in DOMAIN table : LastGiven(table, i) /\ table[i].group = g
    BY <1>1, GivenIs
  <2>3. PICK i : i = CHOOSE j \in DOMAIN table : LastGiven(table, j) /\ table[j].group = g
    OBVIOUS
  <2>4. i \in DOMAIN table /\ LastGiven(table, i) /\ table[i].group = g
    BY <2>2, <2>3
  <2>5. gid[g] = table[i].gid
    BY <2>1, <2>4
  <2> QED BY <1>1, <2>3, <2>5 DEF GidIn
<1>2. CASE ~GivenIn(table, g) /\ Skeleton[g] # None
  BY <1>2 DEF GidIn, SkeletonKept, Given, GivenIn
<1>3. CASE ~GivenIn(table, g) /\ Skeleton[g] = None
  BY <1>3 DEF GidIn, GroupsAs, AutoGroups
<1> QED BY <1>1, <1>2, <1>3

-----------------------------------------------------------------------------
(***************************************************************************)
(* Nothing is there that is neither in the skeleton nor in the table.      *)
(***************************************************************************)
FromTable ==
    /\ \A g \in Group : ~Occurs(table, g) => gid[g] = Skeleton[g]
    /\ \A g \in Group : member[g] \subseteq Members(table, g)
    /\ \A u \in User : LinesOf(table, u) = {} => uid[u] = None

LEMMA DueOccurs ==
    ASSUME Steady, NEW d, d \in GroupDue
    PROVE  Occurs(table, d[1])
<1>1. line \in DOMAIN table /\ Typed /\ line <= Len(table)
  BY GroupTyped DEF Steady, Typed
<1>2. CASE pc # "more_groups"
  <2>1. d = <<Here.group, Here.gid>>
    BY <1>2 DEF GroupDue
  <2> QED BY <1>1, <2>1 DEF Occurs, Here
<1>3. CASE pc = "more_groups"
  <2>1. d[1] = Head(queue) /\ queue # <<>>
    BY <1>3 DEF GroupDue
  <2>2. PICK s : s = table[line].groups
    OBVIOUS
  <2>3. s \in Seq(Group)
    BY <1>1, <2>2, LineTyped DEF Typed
  <2>4. PICK n \in 0..Len(s) : queue = Rest(s, n)
    BY <1>1, <1>3, <2>2 DEF Steady, GroupsThere, Here
  <2>5. n + 1 \in DOMAIN s /\ d[1] = s[n + 1]
    BY <2>1, <2>3, <2>4, RestIs
  <2> QED BY <1>1, <2>2, <2>5 DEF Occurs
<1> QED BY <1>2, <1>3

LEMMA FromTableNext ==
    ASSUME RangeAssumption, Steady, FromTable, [Next]_vars
    PROVE  FromTable'
<1>0. /\ gid \in [Group -> Id] /\ member \in [Group -> SUBSET User] /\ uid \in [User -> Id]
      /\ Typed /\ Control /\ GroupsThere /\ UidsFrom
  BY DEF Steady, Typed
<1>1. CASE AddGroup \/ KilledInGroup
  <2>1. PICK d, w :
           /\ d \in GroupDue
           /\ gid' = [gid EXCEPT ![d[1]] = w] /\ member' = [member EXCEPT ![d[1]] = {}]
           /\ UNCHANGED <<table, uid>>
    BY <1>1 DEF AddGroup, KilledInGroup
  <2>2. Occurs(table, d[1])
    BY <2>1, DueOccurs
  <2>3. \A g \in Group : ~Occurs(table, g) => gid'[g] = gid[g]
    BY <1>0, <2>1, <2>2
  <2>4. \A g \in Group : member'[g] \subseteq member[g]
    BY <1>0, <2>1
  <2> QED BY <2>1, <2>3, <2>4 DEF FromTable
<1>2. CASE AddUser
  <2>1. PICK u \in User, w \in Nat : u = Here.username /\ uid' = [uid EXCEPT ![u] = w]
    BY <1>0, <1>2, UserAdded
  <2>2. /\ UserDue /\ UNCHANGED <<table, gid>>
        /\ member' = [g \in Group |->
              IF g \in ToSet(Here.groups) THEN member[g] \cup {u} ELSE member[g]]
    BY <1>2, <2>1 DEF AddUser
  <2>3. line \in LinesOf(table, u)
    <3>1. line \in DOMAIN table
      BY <1>0, <2>2 DEF UserDue, Typed
    <3>2. Here.username # NoUser
      BY <2>2 DEF UserDue, Mine
    <3> QED BY <2>1, <3>1, <3>2 DEF LinesOf, Creates, Here
  <2>4. \A x \in User : LinesOf(table, x) = {} => uid'[x] = uid[x]
    BY <1>0, <2>1, <2>3
  <2>5. \A g \in Group : g \in ToSet(Here.groups) => u \in Members(table, g)
    BY <2>3 DEF Members, ToSet, Here
  <2>6. \A g \in Group : member'[g] \subseteq member[g] \cup Members(table, g)
    BY <1>0, <2>2, <2>5
  <2> QED BY <2>2, <2>4, <2>6 DEF FromTable
<1>3. CASE LoseUser
  <2>1. uid' = [uid EXCEPT ![Here.username] = None] /\ UNCHANGED <<table, gid, member>>
    BY <1>3 DEF LoseUser
  <2>2. \A u \in User : uid'[u] \in {None, uid[u]}
    BY <1>0, <2>1
  <2> QED BY <2>1, <2>2 DEF FromTable
<1>4. CASE ~AddGroup /\ ~KilledInGroup /\ ~AddUser /\ ~LoseUser
  <2>1. UNCHANGED <<table, gid, member, uid>>
    BY <1>4 DEF Next, Run, EndPass, Skip, NoGid, Refuse, Kill, vars, files
  <2> QED BY <2>1 DEF FromTable
<1> QED BY <1>1, <1>2, <1>3, <1>4

\* What a run that has come to the end has done
LEMMA Succeeds ==
    ASSUME Steady, GivenThere, FromTable, SkeletonKept, pc = "auto_users", line > Len(table),
           NEW F, GroupsAs(F, table, gid), NEW E, UsersAs(E, table, uid)
    PROVE  Outcome(table, F, E, gid, member, uid, ugid)
<1>0. /\ gid \in [Group -> Id] /\ member \in [Group -> SUBSET User]
      /\ uid \in [User -> Id] /\ ugid \in [User -> Id]
      /\ DOMAIN table = 1..Len(table) /\ Typed /\ Control /\ GroupsThere
  BY DEF Steady, Typed
<1>1. \A i \in DOMAIN table : /\ gid[table[i].group] # None
                              /\ \A k \in DOMAIN table[i].groups : gid[table[i].groups[k]] # None
  BY <1>0, GroupsPassed
<1>2. \A i \in DOMAIN table : Creates(table[i]) => Served(table[i])
  <2>1. Through("users") = Len(table) /\ Through("auto_users") = Len(table)
    <3>1. line = Len(table) + 1
      BY <1>0 DEF Control, Typed
    <3> QED BY <1>0, <3>1 DEF Through, Later, Typed
  <2> QED BY <1>0, <2>1 DEF Steady, UsersServed
<1>3. Gids(table, F, gid)
  <2>1. ASSUME NEW g \in Group, Occurs(table, g) PROVE gid[g] # None /\ gid[g] = GidIn(table, F, g)
    <3>1. gid[g] # None
      BY <1>1, <2>1 DEF Occurs
    <3> QED BY <3>1, GidNow
  <2> QED BY <1>0, <2>1 DEF Gids, FromTable
<1>4. \A g \in Group : member[g] = Members(table, g)
  <2> SUFFICES ASSUME NEW g \in Group, NEW u \in Members(table, g) PROVE u \in member[g]
    BY DEF FromTable
  <2>1. PICK i \in LinesOf(table, u) : \E k \in DOMAIN table[i].groups : table[i].groups[k] = g
    BY DEF Members
  <2>2. Served(table[i]) /\ table[i].username = u /\ g \in ToSet(table[i].groups)
    BY <1>2, <2>1 DEF LinesOf, ToSet
  <2> QED BY <2>2 DEF Served
<1>5. \A u \in User : \A i \in LinesOf(table, u) :
         uid[u] # None /\ table[i].uid \in {Automatic, uid[u]} /\ ugid[u] = gid[table[i].group]
  BY <1>2 DEF LinesOf, Served
<1>6. \A u \in User : LinesOf(table, u) = {} => uid[u] = None /\ ugid[u] = None
  BY DEF FromTable, Steady, Paired
<1>7. Uids(table, E, uid)
  <2>1. \A u \in AutoUsers(table) : LinesOf(table, u) # {} => uid[u] # None /\ uid[u] = E[u]
    BY <1>5 DEF UsersAs, AutoUsers
  <2> QED BY <1>0, <1>5, <1>6, <2>1 DEF Uids
<1>8. MainGids(table, gid, ugid)
  BY <1>0, <1>5, <1>6 DEF MainGids
<1> QED BY <1>0, <1>3, <1>4, <1>7, <1>8 DEF Outcome

\* The main gid of a user is that of the group of one of its lines.
MainFrom(t, F, ids) ==
    \A u \in User : ids[u] # None => \E i \in LinesOf(t, u) : ids[u] = GidIn(t, F, t[i].group)

LEMMA MainFromNext ==
    ASSUME RangeAssumption, Steady, GivenThere, SkeletonKept, [Next]_vars,
           NEW F, GroupsAs(F, table, gid), MainFrom(table, F, ugid)
    PROVE  MainFrom(table, F, ugid')
<1>0. /\ ugid \in [User -> Id] /\ Typed /\ Control /\ GroupsThere /\ UidsFrom
  BY DEF Steady, Typed
<1>1. CASE AddUser
  <2>1. PICK u \in User, w \in Nat :
           /\ u = Here.username /\ ugid' = [ugid EXCEPT ![u] = gid[Here.group]]
           /\ gid[Here.group] # None /\ Here.group \in Group
    BY <1>0, <1>1, UserAdded
  <2>2. UserDue
    BY <1>1 DEF AddUser
  <2>3. line \in LinesOf(table, u) /\ pc \in {"users", "auto_users"}
    <3>1. line \in DOMAIN table
      BY <1>0, <2>2 DEF UserDue, Typed
    <3>2. Here.username # NoUser
      BY <2>2 DEF UserDue, Mine
    <3> QED BY <2>1, <2>2, <3>1, <3>2 DEF LinesOf, Creates, Here, UserDue
  <2>4. gid[Here.group] = GidIn(table, F, Here.group)
    BY <2>1, <2>3, GidNow
  <2>5. ugid'[u] = GidIn(table, F, table[line].group)
    BY <1>0, <2>1, <2>4 DEF Here
  <2>6. \A x \in User : x # u => ugid'[x] = ugid[x]
    BY <1>0, <2>1
  <2> QED BY <2>3, <2>5, <2>6 DEF MainFrom
<1>2. CASE LoseUser
  <2>1. ugid' = [ugid EXCEPT ![Here.username] = None]
    BY <1>2 DEF LoseUser
  <2>2. \A u \in User : ugid'[u] \in {None, ugid[u]}
    BY <1>0, <2>1
  <2> QED BY <2>2 DEF MainFrom
<1>3. CASE ~AddUser /\ ~LoseUser
  <2>1. ugid' = ugid
    BY <1>3 DEF Next, Run, EndPass, Skip, AddGroup, NoGid, Refuse, KilledInGroup, Kill, vars, files
  <2> QED BY <2>1
<1> QED BY <1>1, <1>2, <1>3

Numbering(F, E) ==
    /\ GroupsAs(F, table, gid)
    /\ UsersAs(E, table, uid)
    /\ MainFrom(table, F, ugid)
    /\ last # <<>> => \E a, m, b, c : last = <<a, m, b, c>> /\ Outcome(table, F, E, a, m, b, c)

Repeating ==
    /\ Steady /\ GivenThere /\ FromTable
    /\ SkeletonKept => \E F, E : Numbering(F, E)

LEMMA RepeatingInit ==
    ASSUME SkeletonAssumption, TablesAssumption, Init
    PROVE  Repeating
<1>1. Steady
  BY SteadyInit
<1>2. FromTable
  BY DEF Init, FromTable
<1>3. GivenThere
  <2>1. Through("groups") = 0
    BY DEF Init, Through, Later, None
  <2> QED BY <2>1 DEF GivenThere
<1>4. \E F, E : Numbering(F, E)
  <2>1. PICK F, E : F = [g \in Group |-> None] /\ E = [u \in User |-> None]
    OBVIOUS
  <2>2. /\ F \in [Group -> Id] /\ \A g \in Group : F[g] = None
        /\ E \in [User -> Id] /\ \A u \in User : E[u] = None
    BY <2>1 DEF Id
  <2>3. AutoGroups(table) \subseteq Group /\ AutoUsers(table) \subseteq User
    BY DEF AutoGroups, AutoUsers
  <2>4. GroupsAs(F, table, gid)
    BY <2>2, <2>3 DEF GroupsAs, Tight, AutoGroups, Init
  <2>5. UsersAs(E, table, uid)
    BY <2>2, <2>3 DEF UsersAs, Tight, Init
  <2>6. MainFrom(table, F, ugid) /\ last = <<>>
    BY DEF MainFrom, Init
  <2> QED BY <2>4, <2>5, <2>6 DEF Numbering
<1> QED BY <1>1, <1>2, <1>3, <1>4 DEF Repeating

\* What a step makes of the numbering; a success is the outcome it has
LEMMA NumberingStep ==
    ASSUME RangeAssumption, SkeletonOutside, Repeating, [Next]_vars, SkeletonKept'
    PROVE  \E F, E :
              /\ Numbering(F, E)'
              /\ last # <<>> => \E a, m, b, c : last = <<a, m, b, c>> /\ Outcome(table, F, E, a, m, b, c)
              /\ EndPass /\ pc = "auto_users" =>
                    last' = <<gid, member, uid, ugid>> /\ Outcome(table, F, E, gid, member, uid, ugid)
<1>0. SkeletonKept /\ Steady /\ GivenThere /\ FromTable
  BY KeptBefore DEF Repeating
<1>1. PICK F, E : Numbering(F, E)
  BY <1>0 DEF Repeating
<1>2. GroupsAs(F, table, gid) /\ UsersAs(E, table, uid) /\ MainFrom(table, F, ugid)
  BY <1>1 DEF Numbering
<1>3. PICK F2 : GroupsAs(F2, table, gid') /\ \A g \in AutoGroups(table) : F[g] # None => F2[g] = F[g]
  BY <1>0, <1>2, GroupStep
<1>4. PICK E2 : UsersAs(E2, table, uid') /\ \A u \in AutoUsers(table) : E[u] # None => E2[u] = E[u]
  BY <1>0, <1>2, UserStep
<1>5. Extends(F2, F, AutoGroups(table)) /\ Extends(E2, E, AutoUsers(table))
  BY <1>3, <1>4 DEF Extends
<1>6. MainFrom(table, F2, ugid')
  <2>1. MainFrom(table, F, ugid')
    BY <1>0, <1>2, MainFromNext
  <2>2. ASSUME NEW u \in User, ugid'[u] # None
        PROVE  \E i \in LinesOf(table, u) : ugid'[u] = GidIn(table, F2, table[i].group)
    <3>1. PICK i \in LinesOf(table, u) : ugid'[u] = GidIn(table, F, table[i].group)
      BY <2>1, <2>2 DEF MainFrom
    <3>2. table[i].group \in Group
      BY LineTyped, <1>0 DEF LinesOf, Steady, Typed
    <3> QED BY <1>5, <2>2, <3>1, <3>2, GidKept
  <2> QED BY <2>2 DEF MainFrom
<1>7. ASSUME last # <<>>
      PROVE  \E a, m, b, c : last = <<a, m, b, c>> /\ Outcome(table, F2, E2, a, m, b, c)
  <2>1. PICK a, m, b, c : last = <<a, m, b, c>> /\ Outcome(table, F, E, a, m, b, c)
    BY <1>1, <1>7 DEF Numbering
  <2>2. Outcome(table, F2, E2, a, m, b, c)
    BY <1>5, <2>1, OutcomeKept
  <2> QED BY <2>1, <2>2
<1>8. table' = table
  BY DEF Next, Run, EndPass, Skip, AddGroup, NoGid, AddUser, Refuse, KilledInGroup, LoseUser, Kill, vars
<1>9. ASSUME EndPass, pc = "auto_users"
      PROVE  last' = <<gid, member, uid, ugid>> /\ Outcome(table, F2, E2, gid, member, uid, ugid)
  <2>1. line > Len(table) /\ last' = <<gid, member, uid, ugid>>
    BY <1>9 DEF EndPass, files
  <2>2. Outcome(table, F, E, gid, member, uid, ugid)
    BY <1>0, <1>2, <1>9, <2>1, Succeeds
  <2>3. Outcome(table, F2, E2, gid, member, uid, ugid)
    BY <1>5, <2>2, OutcomeKept
  <2> QED BY <2>1, <2>3
<1>10. ~(EndPass /\ pc = "auto_users") => last' = last
  BY DEF Next, Run, EndPass, Skip, AddGroup, NoGid, AddUser, Refuse, KilledInGroup, LoseUser, Kill, vars
<1>11. last' # <<>> => \E a, m, b, c : last' = <<a, m, b, c>> /\ Outcome(table, F2, E2, a, m, b, c)
  BY <1>7, <1>9, <1>10
<1>12. Numbering(F2, E2)'
  BY <1>3, <1>4, <1>6, <1>8, <1>11 DEF Numbering
<1> QED BY <1>7, <1>9, <1>12

LEMMA RepeatingNext ==
    ASSUME RangeAssumption, SkeletonOutside, Repeating, [Next]_vars
    PROVE  Repeating'
<1>1. Steady' /\ GivenThere' /\ FromTable'
  BY SteadyNext, GivenNext, FromTableNext DEF Repeating
<1>2. ASSUME SkeletonKept' PROVE \E F, E : Numbering(F, E)'
  BY <1>2, NumberingStep
<1> QED BY <1>1, <1>2 DEF Repeating

\* However often mkusers is killed and run again on the same target directory,
\* each run that succeeds gives /etc/group and /etc/passwd the ids and members
\* that the last success gave, as long as the groups of the skeleton are there.
THEOREM SameAgain ==
    ASSUME RangeAssumption, SkeletonAssumption, TablesAssumption, SkeletonOutside
    PROVE  Spec => [][RepeatsLast]_vars
<1>1. Init => Repeating
  BY RepeatingInit
<1>2. Repeating /\ [Next]_vars => Repeating'
  BY RepeatingNext
<1>3. Repeating /\ [Next]_vars => [RepeatsLast]_vars
  <2> SUFFICES ASSUME Repeating, Next, rc' = 0, last # <<>>, SkeletonKept PROVE last' = last
    BY DEF RepeatsLast
  <2>1. CASE EndPass /\ pc = "auto_users"
    <3>0. SkeletonKept'
      BY <2>1 DEF EndPass, SkeletonKept, Given, files
    <3>1. PICK F, E :
              /\ \E a, m, b, c : last = <<a, m, b, c>> /\ Outcome(table, F, E, a, m, b, c)
              /\ last' = <<gid, member, uid, ugid>> /\ Outcome(table, F, E, gid, member, uid, ugid)
      BY <2>1, <3>0, NumberingStep
    <3>2. PICK a, m, b, c : last = <<a, m, b, c>> /\ Outcome(table, F, E, a, m, b, c)
      BY <3>1
    <3>3. a = gid /\ m = member /\ b = uid /\ c = ugid
      BY <3>1, <3>2, SameOutcome
    <3> QED BY <3>1, <3>2, <3>3
  <2>2. CASE ~(EndPass /\ pc = "auto_users")
    BY <2>2 DEF Next, Run, EndPass, Skip, AddGroup, NoGid, AddUser, Refuse, KilledInGroup, LoseUser, Kill
  <2> QED BY <2>1, <2>2
<1> QED BY <1>1, <1>2, <1>3, PTL DEF Spec

-----------------------------------------------------------------------------
\* No two groups have one gid when the table gives none.
LEMMA GidsApart ==
    ASSUME RangeAssumption, SkeletonAssumption, SkeletonOutside,
           NEW t, NEW F, NEW ids, GroupsAs(F, t, ids), \A i \in DOMAIN t : t[i].gid = Automatic,
           NEW g \in Group, NEW h \in Group, GidIn(t, F, g) = GidIn(t, F, h), GidIn(t, F, g) # None
    PROVE  g = h
<1>1. ~GivenIn(t, g) /\ ~GivenIn(t, h)
  BY DEF GivenIn
<1>2. \A x \in Group : ~GivenIn(t, x) /\ Skeleton[x] = None => x \in AutoGroups(t)
  BY DEF AutoGroups
<1>3. \A x \in AutoGroups(t) : F[x] # None => F[x] \in MinId..MaxId
  BY DEF GroupsAs, Tight, FreeGids
<1>4. CASE Skeleton[g] # None /\ Skeleton[h] # None
  BY <1>1, <1>4 DEF GidIn, SkeletonAssumption
<1>5. CASE Skeleton[g] = None /\ Skeleton[h] = None
  BY <1>1, <1>2, <1>5 DEF GidIn, GroupsAs, Tight
<1>6. CASE Skeleton[g] = None /\ Skeleton[h] # None
  BY <1>1, <1>2, <1>3, <1>6 DEF GidIn, SkeletonOutside
<1>7. CASE Skeleton[g] # None /\ Skeleton[h] = None
  BY <1>1, <1>2, <1>3, <1>7 DEF GidIn, SkeletonOutside
<1> QED BY <1>4, <1>5, <1>6, <1>7

LEMMA AllTaken ==
    ASSUME RangeAssumption, NEW D, NEW ids \in [D -> Id], NEW n, NEW i, NoIdLeft(ids, n, i)
    PROVE  MinId..MaxId \subseteq {ids[x] : x \in D}
<1>1. /\ Generate(ids, n) \in Nat /\ Generate(ids, n) > MaxId
      /\ \A k \in MinId..MaxId : k < Generate(ids, n) => Name(ids, k) # {}
  BY GenerateFree DEF NoIdLeft
<1>2. \A k \in MinId..MaxId : Name(ids, k) # {}
  BY <1>1 DEF RangeAssumption
<1> QED BY <1>2 DEF Name

LEMMA RefusedStep ==
    ASSUME RangeAssumption, SkeletonAssumption, Repeating, SkeletonOutside,
           RefusedForReason, [Next]_vars
    PROVE  RefusedForReason'
<1>0. /\ Steady /\ Typed /\ Control /\ GroupsThere /\ GivenThere /\ gid \in [Group -> Id] /\ uid \in [User -> Id]
      /\ DOMAIN table = 1..Len(table) /\ rc \in {None, 0, 1}
  BY DEF Repeating, Steady, Typed, Control
<1> SUFFICES ASSUME rc' = 1, SkeletonKept',
                    \A i \in DOMAIN table : table[i].gid = Automatic /\ table[i].uid = Automatic,
                    table' = table,
                    ~(\E i \in DOMAIN table : table[i].username = "root" \/ ~table[i].home)
             PROVE  \/ \E i, j \in DOMAIN table :
                          /\ Creates(table[i]) /\ table[i].username = table[j].username
                          /\ table[i].group # table[j].group
                    \/ MinId..MaxId \subseteq {gid'[g] : g \in Group}
                    \/ MinId..MaxId \subseteq {uid'[u] : u \in User}
  <2>1. table' = table
    BY DEF Next, Run, EndPass, Skip, AddGroup, NoGid, AddUser, Refuse, KilledInGroup, LoseUser, Kill, vars
  <2> QED BY <2>1 DEF RefusedForReason
<1>1. CASE NoGid
  <2>1. PICK d : NoIdLeft(gid, d[1], d[2])
    BY <1>1 DEF NoGid
  <2> QED BY <1>0, <1>1, <2>1, AllTaken DEF NoGid, files
<1>2. CASE Refuse /\ Valid(Here)
  <2>1. NoIdLeft(uid, Here.username, Here.uid)
    BY <1>2 DEF Refuse
  <2> QED BY <1>0, <1>2, <2>1, AllTaken DEF Refuse, files
<1>3. CASE Refuse /\ ~Valid(Here)
  <2>1. UserDue /\ SkeletonKept
    BY <1>3, KeptBefore DEF Refuse, Repeating
  <2>2. line \in DOMAIN table /\ Here.username # NoUser /\ pc \in {"users", "auto_users"}
    <3>1. line \in DOMAIN table /\ pc \in {"users", "auto_users"}
      BY <1>0, <2>1 DEF UserDue, Typed
    <3>2. Here.username # NoUser
      BY <2>1 DEF UserDue, Mine
    <3> QED BY <3>1, <3>2
  <2>3. Here.gid = Automatic /\ Here.uid = Automatic /\ Here.username # "root"
    BY <2>2 DEF Here
  <2>4. Here.username \in User /\ Here.group \in Group
    BY <1>0, <2>2, <2>3, LineTyped DEF Here
  <2>5. PICK h : h \in Name(gid, ugid[Here.username]) \ Name(gid, None) /\ h # Here.group
    BY <1>3, <2>3 DEF Valid, Automatic
  <2>6. h \in Group /\ gid[h] = ugid[Here.username] /\ gid[h] # None
    BY <1>0, <2>5 DEF Name
  <2>7. PICK F, E : Numbering(F, E)
    BY <2>1 DEF Repeating
  <2>8. gid[h] = GidIn(table, F, h)
    BY <1>0, <2>1, <2>2, <2>6, <2>7, GidNow DEF Numbering
  <2>9. PICK i \in LinesOf(table, Here.username) : gid[h] = GidIn(table, F, table[i].group)
    BY <2>4, <2>6, <2>7 DEF Numbering, MainFrom
  <2>10. i \in DOMAIN table /\ Creates(table[i]) /\ table[i].username = Here.username /\ table[i].group \in Group
    BY <1>0, <2>9, LineTyped DEF LinesOf
  <2>11. table[i].group = h
    BY <2>6, <2>7, <2>8, <2>9, <2>10, GidsApart DEF Numbering
  <2> QED BY <2>2, <2>5, <2>10, <2>11 DEF Here
<1>4. CASE LoseUser
  <2>1. ~Here.home
    BY <1>4 DEF LoseUser, Exit, None
  <2>2. line \in DOMAIN table
    BY <1>0, <1>4 DEF LoseUser, UserDue, Typed
  <2> QED BY <2>1, <2>2 DEF Here
<1>5. CASE UNCHANGED vars
  <2>1. rc = 1 /\ SkeletonKept
    BY <1>5 DEF vars, files, SkeletonKept, Given
  <2> QED BY <1>5, <2>1 DEF vars, files, RefusedForReason
<1>6. CASE Run \/ EndPass \/ KilledInGroup \/ Kill
  <2>1. CASE EndPass
    <3>1. rc = None
      BY <1>0, <2>1 DEF EndPass, Control
    <3>2. rc' \in {0, None}
      BY <2>1, <3>1 DEF EndPass, Exit
    <3> QED BY <3>2 DEF None
  <2>2. CASE ~EndPass
    BY <1>6, <2>2 DEF Run, KilledInGroup, Kill, Exit, None
  <2> QED BY <2>1, <2>2
<1>7. CASE Skip \/ AddGroup \/ AddUser
  BY <1>7, <1>0 DEF Skip, AddGroup, AddUser, Control, Running, GroupDue, UserDue, None
<1> QED BY <1>1, <1>2, <1>3, <1>4, <1>5, <1>6, <1>7 DEF Next

\* When the table gives no ids and the groups of the skeleton are there,
\* mkusers fails only for a reason that is in the table, or because the range
\* is used up: what an interrupted run left does not make it fail.
THEOREM Refusal ==
    ASSUME RangeAssumption, SkeletonAssumption, TablesAssumption, SkeletonOutside
    PROVE  Spec => []RefusedForReason
<1>1. Init => Repeating /\ RefusedForReason
  BY RepeatingInit DEF Init, RefusedForReason, None
<1>2. Repeating /\ RefusedForReason /\ [Next]_vars => (Repeating /\ RefusedForReason)'
  BY RepeatingNext, RefusedStep
<1> QED BY <1>1, <1>2, PTL DEF Spec
=============================================================================

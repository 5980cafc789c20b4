--------------------------- MODULE DownloadStore ---------------------------
(***************************************************************************)
(* What BR2_DL_DIR promises the builds that share it: a file in it is      *)
(* good, a build takes only what is there, and a file that is there may be *)
(* replaced by another good one but never goes missing.                    *)
(***************************************************************************)
CONSTANTS Build, None

VARIABLES
    Good,        \* the contents that pass the package's hashes
    file,        \* the content of the file, or None
    taken        \* what each build took out last, or None

vars == <<Good, file, taken>>

Init ==
    /\ file \in Good \cup {None}
    /\ taken = [b \in Build |-> None]

Put ==
    /\ file' \in Good
    /\ UNCHANGED <<Good, taken>>

Take(b) ==
    /\ file # None
    /\ taken' = [taken EXCEPT ![b] = file]
    /\ UNCHANGED <<Good, file>>

Next == Put \/ \E b \in Build : Take(b)

Spec == Init /\ [][Next]_vars
=============================================================================

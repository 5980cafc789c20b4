------------------------------ MODULE CheckHash -----------------------------
(***************************************************************************)
(* The script support/download/check-hash as it runs: it reads the .hash   *)
(* file line by line, stops at the first line that rejects the file, and   *)
(* only after the last line decides whether any line was about the file.   *)
(***************************************************************************)
EXTENDS HashFile

CONSTANTS
    MaxLines     \* of a .hash file

ASSUME MaxLinesAssumption == MaxLines \in Nat

\* What "$1" may be: no file, or one of up to MaxLines lines
HashFiles == {NoHashFile} \cup UNION {[1..n -> HashLine] : n \in 0..MaxLines}

VARIABLES
    hfile,       \* "$1", the .hash file
    data,        \* what the file "$2" holds, or NoFile
    base,        \* "$3", the name it will be saved as
    exempt,      \* BR_NO_CHECK_HASH_FOR names base
    next,        \* the line the while loop reads next
    nb_checks,   \* lines found to be about base, and passed
    rc           \* exit code, Running until the script exits

vars == <<hfile, data, base, exempt, next, nb_checks, rc>>

input == <<hfile, data, base, exempt>>

Running == -1

Init ==
    /\ hfile \in HashFiles
    /\ data \in Data \cup {NoFile}
    /\ base \in Name
    /\ exempt \in BOOLEAN
    /\ next = 1
    /\ nb_checks = 0
    /\ rc = Running

\* No -H, or no such file: nothing to check against.
Bail ==
    /\ rc = Running
    /\ hfile = NoHashFile
    /\ rc' = 0
    /\ UNCHANGED <<input, next, nb_checks>>

\* Mutant: a line that rejects the file is only not counted
ReadLineGoesOn ==
    /\ rc = Running
    /\ hfile # NoHashFile
    /\ next \in DOMAIN hfile
    /\ next' = next + 1
    /\ nb_checks' = IF /\ next \in About(hfile, base)
                       /\ CheckOneHash(hfile[next], data) = 0
                    THEN nb_checks + 1 ELSE nb_checks
    /\ UNCHANGED <<input, rc>>

\* One turn of the while loop.
ReadLine ==
    /\ rc = Running
    /\ hfile # NoHashFile
    /\ next \in DOMAIN hfile
    /\ next' = next + 1
    /\ IF next \in About(hfile, base)
       THEN LET code == CheckOneHash(hfile[next], data)
            IN  /\ rc' = IF code = 0 THEN Running ELSE code
                /\ nb_checks' = IF code = 0 THEN nb_checks + 1 ELSE nb_checks
       ELSE UNCHANGED <<rc, nb_checks>>
    /\ UNCHANGED input

\* End of the .hash file.
Conclude ==
    /\ rc = Running
    /\ hfile # NoHashFile
    /\ next \notin DOMAIN hfile
    /\ rc' = IF nb_checks = 0 /\ ~exempt THEN 3 ELSE 0
    /\ UNCHANGED <<input, next, nb_checks>>

Next == Bail \/ ReadLine \/ Conclude

Spec == Init /\ [][Next]_vars

-----------------------------------------------------------------------------
TypeOK ==
    /\ hfile \in {NoHashFile} \cup Seq(HashLine)
    /\ data \in Data \cup {NoFile}
    /\ base \in Name
    /\ exempt \in BOOLEAN
    /\ next \in Nat \ {0}
    /\ nb_checks \in Nat
    /\ rc \in {Running, 0, 2, 3, 4}

(***************************************************************************)
(* The loop computes what the .hash file says: whichever way the script    *)
(* leaves (early exit inside check_one_hash, end of the file, no file at   *)
(* all), its exit code is HashExit of its arguments.                       *)
(***************************************************************************)
ExitIsHashExit == rc # Running => rc = HashExit(hfile, base, data, exempt)

(***************************************************************************)
(* While the loop runs, no line it has read rejects the file, and          *)
(* nb_checks is 0 exactly when none of them was about it.  With            *)
(* ExitIsHashExit this is inductive.                                       *)
(***************************************************************************)
LoopInv ==
    rc = Running /\ hfile # NoHashFile =>
        /\ \A i \in Rejecting(hfile, base, data) : next <= i
        /\ nb_checks = 0 <=> \A i \in About(hfile, base) : next <= i
=============================================================================

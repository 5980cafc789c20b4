------------------------------ MODULE HashFile ------------------------------
(***************************************************************************)
(* What a package's .hash file says about a downloaded file, and the exit  *)
(* code support/download/check-hash must give for it.                      *)
(*                                                                         *)
(* A .hash file is a sequence of lines.  A line has a type, an expected    *)
(* digest and the name of the file it is about.  Digests are ideal: the    *)
(* digest of some data is the data itself, so two files agree on a digest  *)
(* exactly when they hold the same data.  All supported algorithms (md5,   *)
(* sha1, sha224 ... sha512) behave alike and are the one type "known".     *)
(***************************************************************************)
EXTENDS Integers, Sequences

CONSTANTS
    Data,        \* the contents a file may hold
    Name,        \* the names of downloaded files
    NoFile,      \* stands for the data of a file that is not there: it has
                 \* no digest, so it matches no line
    NoHashFile   \* "-H" was not given, or the file it names does not exist

LineType == {"comment", "none", "known", "unknown"}

HashLine == [type : LineType, digest : Data, file : Name]

ASSUME NoFileAssumption == NoFile \notin Data
ASSUME NoHashFileAssumption == NoHashFile \notin Seq(HashLine)

(***************************************************************************)
(* check_one_hash: the exit code one line gives, 0 to go on.               *)
(***************************************************************************)
CheckOneHash(line, data) ==
    CASE line.type = "none"  -> 0
      [] line.type = "known" -> IF line.digest = data THEN 0 ELSE 2
      [] OTHER               -> 4

\* The lines that are about base
About(lines, base) ==
    {i \in DOMAIN lines : lines[i].type # "comment" /\ lines[i].file = base}

Rejecting(lines, base, data) ==
    {i \in About(lines, base) : CheckOneHash(lines[i], data) # 0}

\* The line that decides: the first one that rejects the data
FirstRejecting(lines, base, data) ==
    CHOOSE i \in Rejecting(lines, base, data) :
        \A j \in Rejecting(lines, base, data) : i <= j

(***************************************************************************)
(* The exit code of check-hash for data to be saved as base.  exempt is    *)
(* whether BR_NO_CHECK_HASH_FOR names base.                                *)
(***************************************************************************)
HashExit(hfile, base, data, exempt) ==
    IF hfile = NoHashFile THEN 0
    ELSE IF Rejecting(hfile, base, data) # {}
    THEN CheckOneHash(hfile[FirstRejecting(hfile, base, data)], data)
    ELSE IF About(hfile, base) # {} \/ exempt THEN 0 ELSE 3
=============================================================================

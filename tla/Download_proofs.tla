--------------------------- MODULE Download_proofs ---------------------------
(***************************************************************************)
(* Proofs about Download: typing, what a build extracts, what is           *)
(* published, and the implementation of DownloadStore, for any number of   *)
(* builds, any contents, .hash files and settings.                         *)
(***************************************************************************)
EXTENDS Download, TLAPS

Inv == TypeOK /\ PublishedWhole /\ ScriptInv /\ ExtractsVerified

(***************************************************************************)
(* The locations DOWNLOAD_INNER goes to are locations.                     *)
(***************************************************************************)
LEMMA Locations ==
    ASSUME NEW b
    PROVE  /\ \A l : NextLoc(b, l) \in Loc
           /\ FirstLoc(b) \in Loc
BY DEF NextLoc, FirstLoc, Loc

(***************************************************************************)
(* Without a version control system every location checks alike.           *)
(***************************************************************************)
LEMMA SameCheck ==
    ASSUME ~vcs, NEW l, NEW d
    PROVE  CheckHash(l, d) = 0 <=> Accepted(d)
BY DEF CheckHash, Accepted

(***************************************************************************)
(* The verdict depends on the package only, which no step changes.         *)
(***************************************************************************)
LEMMA SameVerdict ==
    ASSUME UNCHANGED <<hfile, vcs>>, NEW d
    PROVE  Accepted(d)' <=> Accepted(d)
BY DEF Accepted, CheckHash

(***************************************************************************)
(* A step of b disturbs no other script, as long as what it puts into      *)
(* BR2_DL_DIR is accepted.                                                 *)
(***************************************************************************)
LEMMA OthersKeep ==
    ASSUME Inv, UNCHANGED <<hfile, vcs>>,
           NEW b \in Build, NEW c \in Build, c # b,
           pc'[c] = pc[c], tmpf'[c] = tmpf[c], tmp_output'[c] = tmp_output[c],
           ~vcs => \/ output' = output
                   \/ output' = NoFile
                   \/ Accepted(output'.data)
    PROVE  Fetched(c)' /\ Temporary(c)' /\ Verified(c)'
<1>1. Fetched(c)' /\ Temporary(c)'
  BY DEF Inv, ScriptInv, Fetched, Temporary
<1>2. Verified(c)'
  BY SameVerdict DEF Inv, ScriptInv, Verified
<1>3. QED
  BY <1>1, <1>2

(***************************************************************************)
(* A step that moves b to another command, and does nothing else, keeps    *)
(* the invariant if b knows what it must know there.                       *)
(***************************************************************************)
LEMMA GoToKeeps ==
    ASSUME Inv, NEW b \in Build, NEW label \in PC, GoTo(b, label),
           UNCHANGED <<given, output, loc, tmpf, tmp_output, cruft, extracted>>,
           Fetched(b)' /\ Temporary(b)' /\ Verified(b)'
    PROVE  Inv'
<1>1. UNCHANGED <<hfile, vcs, conf>>
  BY DEF given
<1>2. TypeOK'
  BY <1>1 DEF Inv, TypeOK, GoTo
<1>3. ASSUME NEW c \in Build, c # b
      PROVE  Fetched(c)' /\ Temporary(c)' /\ Verified(c)'
  <2>1. pc'[c] = pc[c]
    BY <1>3 DEF GoTo, Inv, TypeOK
  <2>2. QED
    BY <1>1, <1>3, <2>1, OthersKeep
<1>4. PublishedWhole' /\ ExtractsVerified'
  BY <1>1, SameVerdict DEF Inv, PublishedWhole, ExtractsVerified
<1>5. QED
  BY <1>2, <1>3, <1>4 DEF Inv, ScriptInv

(***************************************************************************)
(* A step to a command at which nothing is known about the temporaries.    *)
(***************************************************************************)
LEMMA FreshKeeps ==
    ASSUME Inv, NEW b \in Build,
           NEW label \in {"idle", "test", "check", "evict", "mktmpd", "fetch"},
           GoTo(b, label),
           UNCHANGED <<given, output, loc, tmpf, tmp_output, cruft, extracted>>
    PROVE  Inv'
<1>1. pc'[b] = label
  BY DEF GoTo, Inv, TypeOK
<1>2. Fetched(b)' /\ Temporary(b)' /\ Verified(b)'
  BY <1>1 DEF Fetched, Temporary, Verified
<1>3. QED
  BY <1>2, GoToKeeps DEF PC

(***************************************************************************)
(* A script that leaves its location, with all its temporaries forgotten,  *)
(* keeps the invariant.                                                    *)
(***************************************************************************)
LEMMA LeaveKeeps ==
    ASSUME Inv, NEW b \in Build, NEW label \in {"failed", "test"}, NEW l \in Loc,
           GoTo(b, label), loc' = [loc EXCEPT ![b] = l],
           \/ UNCHANGED <<tmpf, tmp_output>>
           \/ /\ tmpf' = [tmpf EXCEPT ![b] = NoFile]
              /\ tmp_output' = [tmp_output EXCEPT ![b] = NoFile],
           cruft' \subseteq {"tmpd", "tmp_output"},
           UNCHANGED <<given, output, extracted>>
    PROVE  Inv'
<1>1. UNCHANGED <<hfile, vcs, conf>>
  BY DEF given
<1>2. TypeOK'
  BY <1>1 DEF Inv, TypeOK, GoTo, PC
<1>3. ASSUME NEW c \in Build
      PROVE  Fetched(c)' /\ Temporary(c)' /\ Verified(c)'
  <2>1. CASE c = b
    <3>1. pc'[c] = label
      BY <2>1 DEF GoTo, Inv, TypeOK
    <3>2. QED
      BY <3>1 DEF Fetched, Temporary, Verified
  <2>2. CASE c # b
    <3>1. /\ pc'[c] = pc[c] /\ tmpf'[c] = tmpf[c]
          /\ tmp_output'[c] = tmp_output[c]
      BY <2>2 DEF GoTo, Inv, TypeOK
    <3>2. QED
      BY <1>1, <2>2, <3>1, OthersKeep
  <2>3. QED
    BY <2>1, <2>2
<1>4. PublishedWhole' /\ ExtractsVerified'
  BY <1>1, SameVerdict DEF Inv, PublishedWhole, ExtractsVerified
<1>5. QED
  BY <1>2, <1>3, <1>4 DEF Inv, ScriptInv

LEMMA TurnKeeps ==
    ASSUME Inv, NEW b \in Build, NEW l \in Loc, Turn(b, l),
           UNCHANGED <<given, output, tmpf, tmp_output, cruft, extracted>>
    PROVE  Inv'
<1>1. PICK label \in {"failed", "test"} : GoTo(b, label)
  BY DEF Turn
<1>2. QED
  BY <1>1, LeaveKeeps DEF Turn, Inv, TypeOK

(***************************************************************************)
(* A wrapper that exits 1 keeps the invariant, whatever it leaves behind.  *)
(***************************************************************************)
LEMMA GiveUpKeeps ==
    ASSUME Inv, NEW b \in Build, NEW rest \in SUBSET {"tmpd", "tmp_output"},
           GiveUp(b, rest), UNCHANGED <<given, output, extracted>>
    PROVE  Inv'
<1>1. PICK label \in {"failed", "test"} : GoTo(b, label)
  BY DEF GiveUp, Turn
<1>2. NextLoc(b, loc[b]) \in Loc
  BY Locations
<1>3. cruft' \subseteq {"tmpd", "tmp_output"}
  BY DEF GiveUp, Inv, TypeOK
<1>4. QED
  BY <1>1, <1>2, <1>3, LeaveKeeps DEF GiveUp, Turn

-----------------------------------------------------------------------------
(***************************************************************************)
(* The commands that look at BR2_DL_DIR or make tmpd.                      *)
(***************************************************************************)
LEMMA LookKeeps ==
    ASSUME Inv, NEW b \in Build,
           Make(b) \/ Test(b) \/ CheckExisting(b) \/ MkTmpd(b) \/ MakeAgain(b)
    PROVE  Inv'
<1>1. CASE Make(b) \/ MakeAgain(b)
  BY <1>1, Locations, TurnKeeps DEF Make, MakeAgain
<1>2. CASE Test(b)
  BY <1>2, FreshKeeps DEF Test
<1>3. CASE MkTmpd(b)
  BY <1>3, FreshKeeps, GiveUpKeeps DEF MkTmpd
<1>4. CASE CheckExisting(b)
  <2> DEFINE data == IF output = NoFile THEN NoFile ELSE output.data
             code == CheckHash(loc[b], data)
  <2>1. CASE code = 0
    <3>1. GoTo(b, "downloaded") /\ UNCHANGED <<given, output, loc, tmpf,
                                               tmp_output, cruft, extracted>>
      BY <1>4, <2>1 DEF CheckExisting
    <3>2. pc'[b] = "downloaded"
      BY <3>1 DEF GoTo, Inv, TypeOK
    <3>3. ~vcs /\ output # NoFile => Accepted(output.data)
      BY <2>1, SameCheck
    <3>4. Verified(b)'
      BY <3>1, <3>2, <3>3, SameVerdict DEF Verified, given
    <3>5. Fetched(b)' /\ Temporary(b)'
      BY <3>2 DEF Fetched, Temporary
    <3>6. QED
      BY <3>1, <3>4, <3>5, GoToKeeps DEF PC
  <2>2. CASE code = 2
    <3>1. GoTo(b, "evict") /\ UNCHANGED <<given, output, loc, tmpf,
                                          tmp_output, cruft, extracted>>
      BY <1>4, <2>2 DEF CheckExisting
    <3>2. QED
      BY <3>1, FreshKeeps
  <2>3. CASE code # 0 /\ code # 2
    <3>1. GiveUp(b, {}) /\ UNCHANGED <<given, output, extracted>>
      BY <1>4, <2>3 DEF CheckExisting
    <3>2. QED
      BY <3>1, GiveUpKeeps
  <2>4. QED
    BY <2>1, <2>2, <2>3
<1>5. QED
  BY <1>1, <1>2, <1>3, <1>4

(***************************************************************************)
(* The commands that make the temporaries.                                 *)
(***************************************************************************)
LEMMA WorkKeeps ==
    ASSUME Inv, NEW b \in Build,
           Fetch(b) \/ Verify(b) \/ MkTmpOutput(b) \/ Chmod(b) \/ Copy(b)
    PROVE  Inv'
<1>1. UNCHANGED <<given, output, extracted>>
  BY DEF Fetch, Verify, MkTmpOutput, Chmod, Copy
<1>2. UNCHANGED <<hfile, vcs, conf>>
  BY <1>1 DEF given
<1>3. SUFFICES ASSUME \A rest \in SUBSET {"tmpd", "tmp_output"} :
                          ~GiveUp(b, rest)
               PROVE  Inv'
  BY <1>1, GiveUpKeeps
<1>4. ASSUME NEW c \in Build, c # b
      PROVE  Fetched(c)' /\ Temporary(c)' /\ Verified(c)'
  <2>1. /\ pc'[c] = pc[c] /\ tmpf'[c] = tmpf[c]
        /\ tmp_output'[c] = tmp_output[c]
    BY <1>3, <1>4
       DEF Fetch, Verify, MkTmpOutput, Chmod, Copy, GoTo, Inv, TypeOK
  <2>2. QED
    BY <1>1, <1>2, <1>4, <2>1, OthersKeep
<1>5. PublishedWhole' /\ ExtractsVerified'
  BY <1>1, <1>2, SameVerdict DEF Inv, PublishedWhole, ExtractsVerified
<1>6. Fetched(b) /\ Temporary(b) /\ Verified(b)
  BY DEF Inv, ScriptInv
<1>7. CASE Fetch(b)
  <2>1. PICK d \in Data \ {Partial} :
            tmpf' = [tmpf EXCEPT ![b] = d] /\ GoTo(b, "verify")
            /\ UNCHANGED <<loc, tmp_output, cruft>>
    BY <1>3, <1>7 DEF Fetch
  <2>2. pc'[b] = "verify" /\ tmpf'[b] = d
    BY <2>1 DEF GoTo, Inv, TypeOK
  <2>3. TypeOK'
    BY <1>1, <1>2, <2>1 DEF Inv, TypeOK, GoTo, PC
  <2>4. Fetched(b)' /\ Temporary(b)' /\ Verified(b)'
    BY <2>2 DEF Fetched, Temporary, Verified
  <2>5. QED
    BY <1>4, <1>5, <2>3, <2>4 DEF Inv, ScriptInv
<1>8. CASE Verify(b)
  <2>1. /\ pc[b] = "verify" /\ CheckHash(loc[b], tmpf[b]) = 0
        /\ GoTo(b, "mktmpo") /\ UNCHANGED <<loc, tmpf, tmp_output, cruft>>
    BY <1>3, <1>8 DEF Verify
  <2>2. pc'[b] = "mktmpo"
    BY <2>1 DEF GoTo, Inv, TypeOK
  <2>3. Fetched(b)' /\ Temporary(b)'
    BY <1>6, <2>1, <2>2 DEF Fetched, Temporary
  <2>4. ~vcs => Accepted(tmpf[b])
    BY <2>1, SameCheck
  <2>5. Verified(b)'
    BY <1>2, <2>1, <2>2, <2>4, SameVerdict DEF Verified
  <2>6. QED
    BY <1>1, <2>1, <2>3, <2>5, GoToKeeps DEF PC
<1>9. CASE MkTmpOutput(b)
  <2>1. /\ pc[b] = "mktmpo"
        /\ tmp_output' = [tmp_output EXCEPT
                              ![b] = [data |-> Partial, readable |-> FALSE]]
        /\ GoTo(b, "chmod") /\ UNCHANGED <<loc, tmpf, cruft>>
    BY <1>3, <1>9 DEF MkTmpOutput
  <2>2. pc'[b] = "chmod"
    BY <2>1 DEF GoTo, Inv, TypeOK
  <2>3. [data |-> Partial, readable |-> FALSE] \in File
    BY PartialAssumption DEF File
  <2>4. TypeOK'
    BY <1>1, <1>2, <2>1, <2>3 DEF Inv, TypeOK, GoTo, PC
  <2>5. tmp_output'[b] \in File
    BY <2>1, <2>3 DEF Inv, TypeOK
  <2>6. Fetched(b)' /\ Temporary(b)'
    BY <1>6, <2>1, <2>2, <2>5 DEF Fetched, Temporary
  <2>7. Verified(b)'
    BY <1>2, <1>6, <2>1, <2>2, SameVerdict DEF Verified
  <2>8. QED
    BY <1>4, <1>5, <2>4, <2>6, <2>7 DEF Inv, ScriptInv
<1>10. CASE Chmod(b)
  <2>1. /\ pc[b] = "chmod"
        /\ tmp_output' = [tmp_output EXCEPT ![b].readable = TRUE]
        /\ GoTo(b, "copy") /\ UNCHANGED <<loc, tmpf, cruft>>
    BY <1>3, <1>10 DEF Chmod
  <2>2. pc'[b] = "copy"
    BY <2>1 DEF GoTo, Inv, TypeOK
  <2>3. tmp_output[b] \in File
    BY <1>6, <2>1 DEF Temporary
  <2>4. tmp_output'[b] \in File /\ tmp_output'[b].readable
    BY <2>1, <2>3 DEF Inv, TypeOK, File
  <2>5. TypeOK'
    <3>1. tmp_output' \in [Build -> {NoFile} \cup File]
      BY <2>1, <2>4 DEF Inv, TypeOK
    <3>2. QED
      BY <1>1, <1>2, <2>1, <3>1 DEF Inv, TypeOK, GoTo, PC
  <2>6. Fetched(b)' /\ Temporary(b)'
    BY <1>6, <2>1, <2>2, <2>4 DEF Fetched, Temporary
  <2>7. Verified(b)'
    BY <1>2, <1>6, <2>1, <2>2, SameVerdict DEF Verified
  <2>8. QED
    BY <1>4, <1>5, <2>5, <2>6, <2>7 DEF Inv, ScriptInv
<1>11. CASE Copy(b)
  <2>1. /\ pc[b] = "copy"
        /\ tmp_output' = [tmp_output EXCEPT ![b].data = tmpf[b]]
        /\ tmpf' = [tmpf EXCEPT ![b] = NoFile]
        /\ GoTo(b, "rename") /\ UNCHANGED <<loc, cruft>>
    BY <1>3, <1>11 DEF Copy
  <2>2. pc'[b] = "rename"
    BY <2>1 DEF GoTo, Inv, TypeOK
  <2>3. /\ tmp_output[b] \in File /\ tmp_output[b].readable
        /\ tmpf[b] \in Data \ {Partial}
    BY <1>6, <2>1 DEF Temporary, Fetched
  <2>4. /\ tmp_output'[b] \in File /\ tmp_output'[b].readable
        /\ tmp_output'[b].data = tmpf[b]
    BY <2>1, <2>3 DEF Inv, TypeOK, File
  <2>5. TypeOK'
    <3>1. tmp_output' \in [Build -> {NoFile} \cup File]
      BY <2>1, <2>4 DEF Inv, TypeOK
    <3>2. QED
      BY <1>1, <1>2, <2>1, <3>1 DEF Inv, TypeOK, GoTo, PC
  <2>6. Fetched(b)' /\ Temporary(b)'
    BY <2>2, <2>3, <2>4 DEF Fetched, Temporary
  <2>7. ~vcs => Accepted(tmpf[b])
    BY <1>6, <2>1 DEF Verified
  <2>8. Verified(b)'
    BY <1>2, <2>2, <2>4, <2>7, SameVerdict DEF Verified
  <2>9. QED
    BY <1>4, <1>5, <2>5, <2>6, <2>8 DEF Inv, ScriptInv
<1>12. QED
  BY <1>7, <1>8, <1>9, <1>10, <1>11

(***************************************************************************)
(* The commands that change BR2_DL_DIR, and the ends of a build.           *)
(***************************************************************************)
LEMMA PublishKeeps ==
    ASSUME Inv, NEW b \in Build,
           Evict(b) \/ Rename(b) \/ Stamp(b) \/ Extract(b) \/ Kill(b)
    PROVE  Inv'
<1>1. UNCHANGED <<hfile, vcs, conf>>
  BY DEF Evict, Rename, Stamp, Extract, Kill, given
<1>2. Fetched(b) /\ Temporary(b) /\ Verified(b)
  BY DEF Inv, ScriptInv
<1>3. CASE Evict(b)
  <2>1. CASE GiveUp(b, {}) /\ UNCHANGED output
    BY <1>3, <2>1, GiveUpKeeps DEF Evict
  <2>2. CASE /\ output' = NoFile /\ GoTo(b, "mktmpd")
             /\ UNCHANGED <<loc, tmpf, tmp_output, cruft>>
    <3>1. pc'[b] = "mktmpd"
      BY <1>3, <2>2 DEF Evict, GoTo, Inv, TypeOK
    <3>2. TypeOK' /\ PublishedWhole' /\ ExtractsVerified'
      BY <1>1, <1>3, <2>2, SameVerdict
         DEF Inv, TypeOK, Evict, GoTo, PC, PublishedWhole, ExtractsVerified
    <3>3. ASSUME NEW c \in Build
          PROVE  Fetched(c)' /\ Temporary(c)' /\ Verified(c)'
      <4>1. CASE c = b
        BY <3>1, <4>1 DEF Fetched, Temporary, Verified
      <4>2. CASE c # b
        <5>1. /\ pc'[c] = pc[c] /\ tmpf'[c] = tmpf[c]
              /\ tmp_output'[c] = tmp_output[c] /\ output' = NoFile
          BY <1>3, <2>2, <4>2 DEF Evict, GoTo, Inv, TypeOK
        <5>2. QED
          BY <1>1, <4>2, <5>1, OthersKeep
      <4>3. QED
        BY <4>1, <4>2
    <3>4. QED
      BY <3>2, <3>3 DEF Inv, ScriptInv
  <2>3. QED
    BY <1>3, <2>1, <2>2 DEF Evict
<1>4. CASE Rename(b)
  <2>1. CASE GiveUp(b, {}) /\ UNCHANGED output
    BY <1>4, <2>1, GiveUpKeeps DEF Rename
  <2>2. CASE /\ output' = tmp_output[b]
             /\ tmp_output' = [tmp_output EXCEPT ![b] = NoFile]
             /\ GoTo(b, "downloaded")
             /\ UNCHANGED <<loc, tmpf, cruft>>
    <3>1. pc[b] = "rename" /\ UNCHANGED <<given, extracted>>
      BY <1>4 DEF Rename
    <3>2. pc'[b] = "downloaded"
      BY <2>2 DEF GoTo, Inv, TypeOK
    <3>3. /\ output' \in File /\ output'.readable /\ output'.data # Partial
          /\ ~vcs => Accepted(output'.data)
      BY <1>2, <2>2, <3>1 DEF Temporary, Verified
    <3>4. TypeOK'
      BY <1>1, <2>2, <3>1, <3>3 DEF Inv, TypeOK, GoTo, PC
    <3>5. PublishedWhole' /\ ExtractsVerified'
      BY <1>1, <3>1, <3>3, SameVerdict
         DEF Inv, PublishedWhole, ExtractsVerified
    <3>6. ASSUME NEW c \in Build
          PROVE  Fetched(c)' /\ Temporary(c)' /\ Verified(c)'
      <4>1. CASE c = b
        <5>1. ~vcs' => Accepted(output.data)'
          BY <1>1, <3>3 DEF Accepted, CheckHash
        <5>2. QED
          BY <3>2, <4>1, <5>1 DEF Fetched, Temporary, Verified
      <4>2. CASE c # b
        <5>1. /\ pc'[c] = pc[c] /\ tmpf'[c] = tmpf[c]
              /\ tmp_output'[c] = tmp_output[c]
          BY <2>2, <4>2 DEF GoTo, Inv, TypeOK
        <5>2. QED
          BY <1>1, <3>3, <4>2, <5>1, OthersKeep
      <4>3. QED
        BY <4>1, <4>2
    <3>7. QED
      BY <3>4, <3>5, <3>6 DEF Inv, ScriptInv
  <2>3. QED
    BY <1>4, <2>1, <2>2 DEF Rename
<1>5. CASE Extract(b)
  <2>1. pc'[b] = "extracted" /\ pc[b] = "stamped"
    BY <1>5 DEF Extract, GoTo, Inv, TypeOK
  <2>2. output \in File
    BY <1>5 DEF Extract, Inv, TypeOK
  <2>3. TypeOK'
    BY <1>1, <1>5, <2>2 DEF Inv, TypeOK, Extract, GoTo, PC, File
  <2>4. ~vcs => Accepted(output.data)
    BY <1>2, <1>5, <2>1 DEF Verified, Extract
  <2>5. ExtractsVerified'
    BY <1>1, <1>5, <2>4, SameVerdict DEF Inv, TypeOK, Extract, ExtractsVerified
  <2>6. PublishedWhole'
    BY <1>5 DEF Extract, Inv, PublishedWhole
  <2>7. ASSUME NEW c \in Build
        PROVE  Fetched(c)' /\ Temporary(c)' /\ Verified(c)'
    <3>1. CASE c = b
      BY <2>1, <3>1 DEF Fetched, Temporary, Verified
    <3>2. CASE c # b
      <4>1. /\ pc'[c] = pc[c] /\ tmpf'[c] = tmpf[c]
            /\ tmp_output'[c] = tmp_output[c] /\ output' = output
        BY <1>5, <3>2 DEF Extract, GoTo, Inv, TypeOK
      <4>2. QED
        BY <1>1, <3>2, <4>1, OthersKeep
    <3>3. QED
      BY <3>1, <3>2
  <2>8. QED
    BY <2>3, <2>5, <2>6, <2>7 DEF Inv, ScriptInv
<1>6. CASE Kill(b)
  <2>1. cruft' \subseteq {"tmpd", "tmp_output"}
    BY <1>6 DEF Kill, Inv, TypeOK
  <2>2. QED
    BY <1>6, <2>1, LeaveKeeps DEF Kill, Loc
<1>7. CASE Stamp(b)
  <2>1. CASE GoTo(b, "stamped") /\ UNCHANGED loc
    <3>1. pc[b] = "downloaded" /\ pc'[b] = "stamped" /\ UNCHANGED output
      BY <1>7, <2>1 DEF Stamp, GoTo, Inv, TypeOK
    <3>2. Fetched(b)' /\ Temporary(b)'
      BY <3>1 DEF Fetched, Temporary
    <3>3. Verified(b)'
      BY <1>1, <1>2, <3>1, SameVerdict DEF Verified
    <3>4. QED
      BY <1>7, <2>1, <3>2, <3>3, GoToKeeps DEF Stamp, PC
  <2>2. CASE Turn(b, "end")
    BY <1>7, <2>2, TurnKeeps DEF Stamp, Loc
  <2>3. QED
    BY <1>7, <2>1, <2>2 DEF Stamp
<1>8. QED
  BY <1>3, <1>4, <1>5, <1>6, <1>7

(***************************************************************************)
(* Inv is an invariant: it holds initially and every step keeps it.        *)
(***************************************************************************)
LEMMA InitInv == Init => Inv
<1>1. ASSUME Init PROVE TypeOK /\ PublishedWhole
  BY <1>1 DEF Init, TypeOK, PublishedWhole, File, PC, Loc
<1>2. ASSUME Init PROVE ScriptInv /\ ExtractsVerified
  BY <1>2 DEF Init, ScriptInv, Fetched, Temporary, Verified, ExtractsVerified
<1>3. QED
  BY <1>1, <1>2 DEF Inv

LEMMA NextInv == Inv /\ [Next]_vars => Inv'
<1> SUFFICES ASSUME Inv, [Next]_vars PROVE Inv'
  OBVIOUS
<1>1. CASE UNCHANGED vars
  BY <1>1 DEF vars, Inv, TypeOK, PublishedWhole, ScriptInv, Fetched, Temporary,
              Verified, ExtractsVerified, Accepted, CheckHash
<1>2. ASSUME NEW b \in Build, Step(b) \/ Kill(b)
      PROVE  Inv'
  BY <1>2, LookKeeps, WorkKeeps, PublishKeeps DEF Step, Wrapper
<1>3. QED
  BY <1>1, <1>2 DEF Next

(***************************************************************************)
(* Every variable keeps its type: the scripts' temporaries are files,      *)
(* their locations are locations, and what is in BR2_DL_DIR is a file.     *)
(***************************************************************************)
THEOREM Typing == Spec => []TypeOK
<1>1. Inv => TypeOK
  BY DEF Inv
<1>2. QED
  BY <1>1, InitInv, NextInv, PTL DEF Spec

(***************************************************************************)
(* No build that uses its .hash file ever extracts data the file rejects,  *)
(* however many builds share BR2_DL_DIR and wherever they are killed.      *)
(***************************************************************************)
THEOREM Verification == Spec => []ExtractsVerified
<1>1. Inv => ExtractsVerified
  BY DEF Inv
<1>2. QED
  BY <1>1, InitInv, NextInv, PTL DEF Spec

(***************************************************************************)
(* No partial and no private file ever appears under the final name.       *)
(***************************************************************************)
THEOREM Wholeness == Spec => []PublishedWhole
<1>1. Inv => PublishedWhole
  BY DEF Inv
<1>2. QED
  BY <1>1, InitInv, NextInv, PTL DEF Spec

-----------------------------------------------------------------------------
(***************************************************************************)
(* While nobody touches it, a file that cannot be judged stops every       *)
(* script that looks at it.                                                *)
(***************************************************************************)
LEMMA LookIsBlocked ==
    ASSUME ~vcs, Unjudged, NEW b \in Build, Step(b) \/ Kill(b),
           pc[b] \in {"idle", "test", "check", "downloaded", "stamped",
                     "extracted", "failed"}
    PROVE  /\ output' = output
           /\ \E l \in {"idle", "test", "check", "downloaded", "stamped",
                        "extracted", "failed"} : GoTo(b, l)
<1>1. CASE Make(b) \/ MakeAgain(b)
  BY <1>1 DEF Make, MakeAgain, Turn
<1>2. CASE Test(b)
  BY <1>2 DEF Test, Unjudged
<1>3. CASE CheckExisting(b)
  <2>1. CheckHash(loc[b], output.data) \in {3, 4}
    BY DEF Unjudged, CheckHash
  <2>2. GiveUp(b, {}) /\ output' = output
    BY <1>3, <2>1 DEF CheckExisting, Unjudged
  <2>3. QED
    BY <2>2 DEF GiveUp, Turn
<1>4. CASE Stamp(b) \/ Extract(b) \/ Kill(b)
  BY <1>4 DEF Stamp, Turn, Extract, Kill
<1>5. QED
  BY <1>1, <1>2, <1>3, <1>4
     DEF Step, Wrapper, Evict, MkTmpd, Fetch, Verify, MkTmpOutput, Chmod, Copy,
         Rename

(***************************************************************************)
(* What a script puts into BR2_DL_DIR can be judged.                       *)
(***************************************************************************)
LEMMA WorkIsJudged ==
    ASSUME Inv, ~vcs, NEW b \in Build, Step(b) \/ Kill(b), output' # output
    PROVE  ~Unjudged'
<1>1. CASE Evict(b)
  BY <1>1 DEF Evict, Unjudged
<1>2. CASE Rename(b)
  <2>1. output' = tmp_output[b] /\ UNCHANGED <<hfile, vcs>>
    BY <1>2 DEF Rename, given
  <2>2. Accepted(tmp_output[b].data)
    BY <1>2 DEF Rename, Inv, ScriptInv, Verified
  <2>3. Accepted(output.data)'
    BY <2>1, <2>2 DEF Accepted, CheckHash
  <2>4. QED
    BY <2>3 DEF Accepted, Unjudged
<1>3. QED
  BY <1>1, <1>2
     DEF Step, Wrapper, Make, Test, CheckExisting, MkTmpd, Fetch, Verify,
         MkTmpOutput, Chmod, Copy, Stamp, Extract, MakeAgain, Kill

LEMMA NextBlocked ==
    ASSUME Inv, Blocked, [Next]_vars
    PROVE  Blocked' /\ (~vcs /\ Unjudged => UNCHANGED output)
<1>1. CASE UNCHANGED vars
  BY <1>1 DEF vars, Blocked, Unjudged, CheckHash
<1>2. ASSUME NEW b \in Build, Step(b) \/ Kill(b)
      PROVE  Blocked' /\ (~vcs /\ Unjudged => UNCHANGED output)
  <2>1. UNCHANGED <<hfile, vcs>>
    BY <1>2 DEF given, Step, Wrapper, Make, Test, CheckExisting, Evict, MkTmpd,
       Fetch, Verify, MkTmpOutput, Chmod, Copy, Rename, Stamp, Extract, MakeAgain, Kill
  <2>2. CASE ~vcs /\ Unjudged
    <3>1. /\ output' = output
          /\ \E l \in {"idle", "test", "check", "downloaded", "stamped",
                       "extracted", "failed"} : GoTo(b, l)
      BY <1>2, <2>2, LookIsBlocked DEF Blocked
    <3>2. QED
      BY <2>2, <3>1 DEF Blocked, GoTo, Inv, TypeOK
  <2>3. CASE ~vcs /\ ~Unjudged
    <3>1. ~Unjudged'
      <4>1. CASE output' = output
        BY <2>1, <2>3, <4>1 DEF Unjudged, CheckHash
      <4>2. CASE output' # output
        BY <1>2, <2>3, <4>2, WorkIsJudged
      <4>3. QED
        BY <4>1, <4>2
    <3>2. QED
      BY <2>3, <3>1 DEF Blocked
  <2>4. CASE vcs
    BY <2>1, <2>4 DEF Blocked
  <2>5. QED
    BY <2>2, <2>3, <2>4
<1>3. QED
  BY <1>1, <1>2 DEF Next

(***************************************************************************)
(* A file that cannot be judged stays as it is, whatever any number of     *)
(* builds do and however often they try.                                   *)
(***************************************************************************)
THEOREM HardErrors == Spec => HardErrorKeepsFile
<1>1. Init => Blocked
  BY DEF Init, Blocked
<1>2. Inv /\ Blocked /\ [Next]_vars => Blocked'
  BY NextBlocked
<1>3. Inv /\ Blocked /\ [Next]_vars => [~vcs /\ Unjudged => UNCHANGED output]_vars
  BY NextBlocked
<1>4. QED
  BY <1>1, <1>2, <1>3, InitInv, NextInv, PTL DEF Spec, HardErrorKeepsFile

-----------------------------------------------------------------------------
(***************************************************************************)
(* Started clean, no script is ever about to evict: what is in BR2_DL_DIR  *)
(* passes every check, and it is there whenever a script checks it.        *)
(***************************************************************************)
NoEviction ==
    /\ Clean
    /\ \A b \in Build : /\ pc[b] # "evict"
                        /\ pc[b] = "check" => output # NoFile

LEMMA AcceptedEverywhere ==
    ASSUME NEW l, NEW d, Accepted(d)
    PROVE  CheckHash(l, d) = 0
BY DEF Accepted, CheckHash, HashExit

(***************************************************************************)
(* From a clean state no step of a build withdraws the file, and what it   *)
(* publishes is accepted.                                                  *)
(***************************************************************************)
LEMMA StepIsClean ==
    ASSUME Inv, NoEviction, NEW b \in Build, Step(b) \/ Kill(b)
    PROVE  /\ output' = output \/ (output' \in File /\ Accepted(output'.data))
           /\ pc'[b] # "evict"
           /\ pc'[b] = "check" => output # NoFile
           /\ \A c \in Build : c # b => pc'[c] = pc[c]
<1>1. pc \in [Build -> PC] /\ output \in {NoFile} \cup File
  BY DEF Inv, TypeOK
<1>2. CASE CheckExisting(b)
  <2>1. pc[b] = "check" /\ output \in File /\ Accepted(output.data)
    BY <1>1, <1>2 DEF CheckExisting, NoEviction, Clean
  <2>2. CheckHash(loc[b], output.data) = 0
    BY <2>1, AcceptedEverywhere
  <2>3. GoTo(b, "downloaded") /\ UNCHANGED output
    BY <1>2, <2>1, <2>2, NoFileIsNotAFile DEF CheckExisting
  <2>4. QED
    BY <1>1, <2>3 DEF GoTo
<1>3. CASE Rename(b)
  <2>1. CASE GiveUp(b, {}) /\ UNCHANGED output
    BY <1>1, <2>1 DEF GiveUp, Turn, GoTo
  <2>2. CASE output' = tmp_output[b] /\ GoTo(b, "downloaded")
    <3>1. /\ tmp_output[b] \in File
          /\ ~vcs => Accepted(tmp_output[b].data)
      BY <1>3 DEF Rename, Inv, ScriptInv, Temporary, Verified
    <3>2. vcs => Accepted(tmp_output[b].data)
      BY <3>1 DEF NoEviction, Clean, File
    <3>3. QED
      BY <1>1, <2>2, <3>1, <3>2 DEF GoTo
  <2>3. QED
    BY <1>3, <2>1, <2>2 DEF Rename
<1>4. CASE Make(b) \/ Test(b) \/ MkTmpd(b) \/ MakeAgain(b)
  BY <1>1, <1>4
     DEF Make, Test, MkTmpd, MakeAgain, GiveUp, Turn, GoTo
<1>5. CASE Fetch(b) \/ Verify(b) \/ MkTmpOutput(b) \/ Chmod(b) \/ Copy(b)
  BY <1>1, <1>5
     DEF Fetch, Verify, MkTmpOutput, Chmod, Copy, GiveUp, Turn, GoTo
<1>6. CASE Stamp(b) \/ Extract(b) \/ Kill(b)
  BY <1>1, <1>6 DEF Stamp, Turn, Extract, Kill, GoTo
<1>7. CASE Evict(b)
  BY <1>7 DEF Evict, NoEviction
<1>8. QED
  BY <1>2, <1>3, <1>4, <1>5, <1>6, <1>7 DEF Step, Wrapper

LEMMA StaysClean == Inv /\ NoEviction /\ [Next]_vars => NoEviction'
<1> SUFFICES ASSUME Inv, NoEviction, [Next]_vars PROVE NoEviction'
  OBVIOUS
<1>1. CASE UNCHANGED vars
  BY <1>1 DEF vars, NoEviction, Clean, Accepted, CheckHash
<1>2. ASSUME NEW b \in Build, Step(b) \/ Kill(b)
      PROVE  NoEviction'
  <2>1. UNCHANGED <<hfile, vcs>>
    BY <1>2 DEF Step, Wrapper, Make, Test, CheckExisting, Evict, MkTmpd, Fetch,
       Verify, MkTmpOutput, Chmod, Copy, Rename, Stamp, Extract, MakeAgain, Kill, given
  <2>2. /\ output' = output \/ (output' \in File /\ Accepted(output'.data))
        /\ pc'[b] # "evict"
        /\ pc'[b] = "check" => output # NoFile
        /\ \A c \in Build : c # b => pc'[c] = pc[c]
    BY <1>2, StepIsClean
  <2>3. output # NoFile => output' # NoFile
    BY <2>2, NoFileIsNotAFile
  <2>4. Clean'
    <3>1. output' # NoFile => Accepted(output.data)'
      BY <2>1, <2>2 DEF NoEviction, Clean, Accepted, CheckHash
    <3>2. vcs' => \A d \in Data : Accepted(d)'
      BY <2>1, SameVerdict DEF NoEviction, Clean
    <3>3. QED
      BY <3>1, <3>2 DEF Clean
  <2>5. QED
    BY <2>2, <2>3, <2>4 DEF NoEviction
<1>3. QED
  BY <1>1, <1>2 DEF Next

(***************************************************************************)
(* Every step of the builds is a step of the store: a rename puts an       *)
(* accepted file, an extraction takes the file, the rest is stuttering.    *)
(***************************************************************************)
LEMMA StepSimulation ==
    Inv /\ NoEviction /\ [Next]_vars => [Store!Next]_(Store!vars)
<1> SUFFICES ASSUME Inv, NoEviction, [Next]_vars
             PROVE  [Store!Next]_(Store!vars)
  OBVIOUS
<1> DEFINE Good == {d \in Data : Accepted(d)}
           file == IF output = NoFile THEN NoFile ELSE output.data
<1>1. CASE UNCHANGED vars
  BY <1>1 DEF vars, Store!vars, Accepted, CheckHash
<1>2. ASSUME NEW b \in Build, Step(b) \/ Kill(b)
      PROVE  [Store!Next]_(Store!vars)
  <2>1. UNCHANGED <<hfile, vcs>>
    BY <1>2 DEF Step, Wrapper, Make, Test, CheckExisting, Evict, MkTmpd, Fetch,
       Verify, MkTmpOutput, Chmod, Copy, Rename, Stamp, Extract, MakeAgain, Kill, given
  <2>2. Good' = Good
    BY <2>1 DEF Accepted, CheckHash
  <2>3. output' = output \/ (output' \in File /\ Accepted(output'.data))
    BY <1>2, StepIsClean
  <2>4. CASE Extract(b)
    <3>1. output \in File /\ output # NoFile /\ UNCHANGED output
      BY <2>4 DEF Extract, Inv, TypeOK
    <3>2. file # NoFile
      BY <3>1, NoFileAssumption DEF File
    <3>3. extracted' = [extracted EXCEPT ![b] = file] /\ file' = file
      BY <2>4, <3>1 DEF Extract
    <3>4. Store!Take(b)
      BY <2>2, <3>2, <3>3 DEF Store!Take
    <3>5. QED
      BY <3>4 DEF Store!Next
  <2>5. CASE ~Extract(b)
    <3>1. UNCHANGED extracted
      BY <1>2, <2>5 DEF Step, Wrapper, Make, Test, CheckExisting, Evict,
         MkTmpd, Fetch, Verify, MkTmpOutput, Chmod, Copy, Rename, Stamp, MakeAgain, Kill
    <3>2. CASE output' = output
      BY <2>2, <3>1, <3>2 DEF Store!vars
    <3>3. CASE output' \in File /\ Accepted(output'.data)
      <4>1. file' = output'.data
        BY <3>3, NoFileIsNotAFile
      <4>2. file' \in Good
        BY <3>3, <4>1 DEF File
      <4>3. Store!Put
        BY <2>2, <3>1, <4>2 DEF Store!Put
      <4>4. QED
        BY <4>3 DEF Store!Next
    <3>4. QED
      BY <2>3, <3>2, <3>3
  <2>6. QED
    BY <2>4, <2>5
<1>3. QED
  BY <1>1, <1>2 DEF Next

(***************************************************************************)
(* Started clean, the builds and their kills implement a store of verified *)
(* files from which nothing goes missing: downloads that race only ever    *)
(* replace an accepted file by another accepted file.                      *)
(***************************************************************************)
THEOREM Refinement == CleanSpec => ImplementsStore
<1>1. Init /\ Clean => Inv /\ NoEviction
  <2>1. Init /\ Clean => NoEviction
    BY DEF Init, NoEviction
  <2>2. QED
    BY <2>1, InitInv
<1>2. Init /\ Clean => Store!Init
  <2> SUFFICES ASSUME Init, Clean PROVE Store!Init
    OBVIOUS
  <2>1. output # NoFile => output.data \in {d \in Data : Accepted(d)}
    BY DEF Init, Clean
  <2>2. QED
    BY <2>1 DEF Store!Init, Init
<1>3. QED
  BY <1>1, <1>2, NextInv, StaysClean, StepSimulation, PTL
     DEF CleanSpec, CleanInit, ImplementsStore, Store!Spec
=============================================================================

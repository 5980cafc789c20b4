-------------------------- MODULE CheckHash_proofs --------------------------
(***************************************************************************)
(* check-hash computes HashExit, for every .hash file, every content and   *)
(* every name.                                                             *)
(***************************************************************************)
EXTENDS CheckHash, TLAPS

(***************************************************************************)
(* check_one_hash returns one of its three documented codes.               *)
(***************************************************************************)
LEMMA CheckOneHashCode ==
    ASSUME NEW line \in HashLine, NEW d
    PROVE  CheckOneHash(line, d) \in {0, 2, 4}
BY DEF CheckOneHash, HashLine, LineType

LEMMA HashFilesAreLists == \A h \in HashFiles : h = NoHashFile \/ h \in Seq(HashLine)
BY MaxLinesAssumption DEF HashFiles

(***************************************************************************)
(* Every variable of the script keeps its type.                            *)
(***************************************************************************)
THEOREM Typing == Spec => []TypeOK
<1>1. Init => TypeOK
  BY HashFilesAreLists DEF Init, TypeOK, Running
<1>2. TypeOK /\ [Next]_vars => TypeOK'
  <2> SUFFICES ASSUME TypeOK, [Next]_vars PROVE TypeOK'
    OBVIOUS
  <2>1. CASE Bail
    BY <2>1 DEF TypeOK, Bail, input
  <2>2. CASE ReadLine
    <3>1. hfile \in Seq(HashLine) /\ next \in DOMAIN hfile
      BY <2>2 DEF ReadLine, TypeOK
    <3>2. hfile[next] \in HashLine
      BY <3>1
    <3>3. CheckOneHash(hfile[next], data) \in {0, 2, 4}
      BY <3>2, CheckOneHashCode
    <3> QED
      BY <2>2, <3>3 DEF TypeOK, ReadLine, input, Running
  <2>3. CASE Conclude
    BY <2>3 DEF TypeOK, Conclude, input
  <2>4. CASE UNCHANGED vars
    BY <2>4 DEF TypeOK, vars
  <2> QED
    BY <2>1, <2>2, <2>3, <2>4 DEF Next
<1> QED
  BY <1>1, <1>2, PTL DEF Spec

(***************************************************************************)
(* The first rejecting line is a rejecting line, and it is the line i      *)
(* whenever i rejects and every rejecting line is at i or after it.        *)
(***************************************************************************)
LEMMA FirstRejectingIs ==
    ASSUME NEW hf \in Seq(HashLine), NEW b, NEW d,
           NEW i \in Rejecting(hf, b, d),
           \A j \in Rejecting(hf, b, d) : i <= j
    PROVE  FirstRejecting(hf, b, d) = i
<1>1. Rejecting(hf, b, d) \subseteq Nat
  BY DEF Rejecting, About
<1>2. ASSUME NEW k \in Rejecting(hf, b, d),
             \A j \in Rejecting(hf, b, d) : k <= j
      PROVE  k = i
  BY <1>1, <1>2
<1> QED
  BY <1>1, <1>2 DEF FirstRejecting

(***************************************************************************)
(* The exit code of the script is the one the .hash file asks for.         *)
(***************************************************************************)
THEOREM ExitCorrect == Spec => []ExitIsHashExit
<1> DEFINE IInv == TypeOK /\ ExitIsHashExit /\ LoopInv
<1>1. Init => IInv
  <2> SUFFICES ASSUME Init PROVE IInv
    OBVIOUS
  <2>1. TypeOK
    BY HashFilesAreLists DEF Init, TypeOK, Running
  <2>2. hfile # NoHashFile => hfile \in Seq(HashLine)
    BY <2>1 DEF TypeOK
  <2>3. LoopInv
    BY <2>2 DEF Init, LoopInv, Rejecting, About
  <2> QED
    BY <2>1, <2>3 DEF Init, ExitIsHashExit
<1>2. IInv /\ TypeOK' /\ [Next]_vars => IInv'
  <2> SUFFICES ASSUME IInv, TypeOK', [Next]_vars
               PROVE  ExitIsHashExit' /\ LoopInv'
    OBVIOUS
  <2> USE DEF Running
  <2>1. CASE Bail
    BY <2>1 DEF Bail, input, ExitIsHashExit, LoopInv, HashExit
  <2>2. CASE ReadLine
    <3>1. hfile \in Seq(HashLine) /\ next \in DOMAIN hfile /\ next \in Nat
      BY <2>2 DEF ReadLine, TypeOK
    <3>2. hfile' = hfile /\ data' = data /\ base' = base /\ exempt' = exempt
      BY <2>2 DEF ReadLine, input
    <3>3. CheckOneHash(hfile[next], data) \in {0, 2, 4}
      BY <3>1, CheckOneHashCode
    <3>4. /\ \A i \in Rejecting(hfile, base, data) : next <= i
          /\ nb_checks = 0 <=> \A i \in About(hfile, base) : next <= i
      BY <2>2 DEF ReadLine, LoopInv
    <3>5. About(hfile, base) \subseteq Nat
      BY <3>1 DEF About
    <3>6. Rejecting(hfile, base, data) \subseteq About(hfile, base)
      BY DEF Rejecting
    <3>7. CASE next \in Rejecting(hfile, base, data)
      <4>1. FirstRejecting(hfile, base, data) = next
        BY <3>1, <3>4, <3>7, FirstRejectingIs
      <4>2. rc' = CheckOneHash(hfile[next], data) /\ rc' # Running
        BY <2>2, <3>3, <3>7 DEF ReadLine, Rejecting
      <4>3. HashExit(hfile, base, data, exempt) = CheckOneHash(hfile[next], data)
        BY <2>2, <3>7, <4>1 DEF HashExit, ReadLine
      <4> QED
        BY <3>2, <4>2, <4>3 DEF ExitIsHashExit, LoopInv
    <3>8. CASE next \notin Rejecting(hfile, base, data)
      <4>1. rc' = Running /\ next' = next + 1
        BY <2>2, <3>1, <3>8 DEF ReadLine, Rejecting
      <4>2. \A i \in Rejecting(hfile, base, data) : next + 1 <= i
        BY <3>1, <3>4, <3>5, <3>6, <3>8
      <4>3. CASE next \in About(hfile, base)
        <5>1. nb_checks' = nb_checks + 1 /\ nb_checks \in Nat
          BY <2>2, <3>1, <3>8, <4>3 DEF ReadLine, Rejecting, TypeOK
        <5>2. nb_checks' # 0
          BY <5>1
        <5>3. ~ (next + 1 <= next)
          BY <3>1
        <5> QED
          BY <3>2, <4>1, <4>2, <4>3, <5>2, <5>3 DEF ExitIsHashExit, LoopInv
      <4>4. CASE next \notin About(hfile, base)
        <5>1. nb_checks' = nb_checks
          BY <2>2, <4>4 DEF ReadLine
        <5>2. \A i \in About(hfile, base) : next + 1 <= i <=> next <= i
          BY <3>1, <3>5, <4>4
        <5> QED
          BY <3>2, <3>4, <4>1, <4>2, <5>1, <5>2 DEF ExitIsHashExit, LoopInv
      <4> QED
        BY <4>3, <4>4
    <3> QED
      BY <3>7, <3>8
  <2>3. CASE Conclude
    <3>1. hfile \in Seq(HashLine) /\ next \notin DOMAIN hfile /\ rc = Running
      BY <2>3 DEF Conclude, TypeOK
    <3>2. /\ \A i \in Rejecting(hfile, base, data) : next <= i
          /\ nb_checks = 0 <=> \A i \in About(hfile, base) : next <= i
      BY <2>3, <3>1 DEF Conclude, LoopInv
    <3>3. \A i \in DOMAIN hfile : ~(next <= i)
      BY <3>1 DEF TypeOK
    <3>4. Rejecting(hfile, base, data) = {}
      BY <3>2, <3>3 DEF Rejecting, About
    <3>5. nb_checks = 0 <=> About(hfile, base) = {}
      BY <3>2, <3>3 DEF About
    <3> QED
      BY <2>3, <3>4, <3>5 DEF Conclude, input, ExitIsHashExit, LoopInv, HashExit
  <2>4. CASE UNCHANGED vars
    BY <2>4 DEF vars, ExitIsHashExit, LoopInv
  <2> QED
    BY <2>1, <2>2, <2>3, <2>4 DEF Next
<1>3. IInv => ExitIsHashExit
  OBVIOUS
<1> QED
  BY <1>1, <1>2, <1>3, Typing, PTL DEF Spec
=============================================================================

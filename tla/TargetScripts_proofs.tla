----------------------- MODULE TargetScripts_proofs -----------------------
(***************************************************************************)
(* The scripts of TargetScripts, for every configuration.                  *)
(***************************************************************************)
EXTENDS TargetScripts, SequenceTheorems, WellFoundedInduction, FiniteSetTheorems, TLAPS

(***************************************************************************)
(* The wrapper, for any command line and however it was compiled: its      *)
(* array is long enough, the compiler gets what was asked for, and every   *)
(* path to search is judged.                                               *)
(***************************************************************************)

\* The arguments that may be in the array
Words == W!Arguments \cup {W!Compiler, W!Ccache, W!FloatAbi, W!March, W!Mcpu}

\* What the array holds at most when a part of main begins, or all are done
Room ==
    [paths |-> 0,
     float |-> Len(W!predef_args),
     cpu   |-> Len(W!predef_args) + 1,
     check |-> Len(W!predef_args) + 3,
     done  |-> Len(W!predef_args) + 3 + Len(argv)]

Filled ==
    /\ argv \in Seq(Words) /\ W!predef_args \in Seq(Words)
    /\ stage \in {"paths", "float", "cpu", "check", "done"}
    /\ args \in Seq(Words)
    /\ Len(args) <= Room[stage]

LEMMA Wider == Seq(W!Arguments) \subseteq Seq(Words)
<1>1. W!Arguments \subseteq Words
  BY DEF Words
<1> SUFFICES ASSUME NEW s \in Seq(W!Arguments) PROVE s \in Seq(Words)
  OBVIOUS
<1>2. Len(s) \in Nat /\ s \in [1..Len(s) -> W!Arguments]
  OBVIOUS
<1>3. s \in [1..Len(s) -> Words]
  BY <1>1, <1>2
<1> QED BY <1>2, <1>3

LEMMA OwnTyped == {W!Compiler, W!Ccache, W!FloatAbi, W!March, W!Mcpu} \subseteq Words
  BY DEF Words

LEMMA PredefTyped ==
    ASSUME W!BuildsAssumption, build \in Builds
    PROVE  W!predef_args \in Seq(Words)
<1>1. W!Compiler \in Words /\ W!Ccache \in Words
  BY OwnTyped
<1>2. build.predef \in Seq(Words)
  BY Wider DEF W!BuildsAssumption
<1>3. <<>> \in Seq(Words)
  OBVIOUS
<1> QED BY <1>1, <1>2, <1>3 DEF W!predef_args

LEMMA FilledInit ==
    ASSUME W!BuildsAssumption, W!CommandsAssumption, W!Init
    PROVE  Filled
<1>1. W!predef_args \in Seq(Words)
  BY PredefTyped DEF W!Init
<1>2. argv \in Seq(Words)
  BY Wider DEF W!Init, W!CommandsAssumption
<1>3. args = <<>> /\ stage = "paths"
  BY DEF W!Init
<1>4. Room["paths"] = 0 /\ Len(<<>>) = 0 /\ <<>> \in Seq(Words)
  BY DEF Room
<1> QED BY <1>1, <1>2, <1>3, <1>4 DEF Filled

\* An option that is not overridden is at most one more.
LEMMA AddedTyped ==
    ASSUME NEW s \in Seq(Words), NEW o, NEW d, NEW a \in Words
    PROVE  s \o W!AddUnless(o, d, a) \in Seq(Words) /\ Len(s \o W!AddUnless(o, d, a)) <= Len(s) + 1
<1>1. W!AddUnless(o, d, a) = <<a>> \/ W!AddUnless(o, d, a) = <<>>
  BY DEF W!AddUnless
<1>2. Len(s \o <<a>>) = Len(s) + 1 /\ s \o <<a>> \in Seq(Words)
  OBVIOUS
<1>3. s \o <<>> = s /\ Len(s) \in Nat
  OBVIOUS
<1>4. CASE W!AddUnless(o, d, a) = <<a>>
  BY <1>2, <1>3, <1>4
<1>5. CASE W!AddUnless(o, d, a) = <<>>
  BY <1>3, <1>5
<1> QED BY <1>1, <1>4, <1>5

LEMMA FilledNext == Filled /\ [W!Next]_W!vars => Filled'
<1> SUFFICES ASSUME Filled, [W!Next]_W!vars PROVE Filled'
  OBVIOUS
<1>1. W!FloatAbi \in Words /\ W!March \in Words /\ W!Mcpu \in Words
  BY OwnTyped
<1>2. Len(W!predef_args) \in Nat /\ Len(argv) \in Nat /\ Len(args) \in Nat
  BY DEF Filled
<1>3. UNCHANGED <<build, argv>>
  BY DEF W!Next, W!vars, W!given, W!Locate, W!Exit, W!AddFloatAbi, W!AddCpu, W!Execute, W!OtherArgument,
         W!JoinedArgument, W!SeparateArgument, W!LastArgument, W!Skip, W!CheckUnsafePath
<1>4. W!predef_args' = W!predef_args
  BY <1>3 DEF W!predef_args
<1>5. CASE UNCHANGED <<args, stage>>
  BY <1>3, <1>4, <1>5 DEF Filled, Room
<1>6. CASE stage # "paths" /\ \E code \in {1, 2, 3} : W!Exit(code)
  BY <1>2, <1>3, <1>4, <1>6 DEF Filled, Room, W!Exit
<1>7. CASE W!Locate
  <2>1. (args = args' /\ stage' = "done") \/ (args' = W!predef_args /\ stage' = "float")
    BY <1>7 DEF W!Locate, W!Exit
  <2> QED BY <1>2, <1>3, <1>4, <1>7, <2>1 DEF Filled, Room, W!Locate
<1>8. CASE W!AddFloatAbi
  <2>1. args' \in Seq(Words) /\ Len(args') <= Len(args) + 1 /\ stage = "float" /\ stage' = "cpu"
    BY <1>1, <1>8, AddedTyped DEF W!AddFloatAbi, Filled
  <2> QED BY <1>2, <1>3, <1>4, <2>1 DEF Filled, Room
<1>9. CASE W!AddCpu
  <2> DEFINE once == args \o W!AddUnless(W!CpuOverridden, "ARCH", W!March)
  <2>1. once \in Seq(Words) /\ Len(once) <= Len(args) + 1
    BY <1>1, AddedTyped DEF Filled
  <2>2. args' \in Seq(Words) /\ Len(args') <= Len(once) + 1
    BY <1>1, <1>9, <2>1, AddedTyped DEF W!AddCpu
  <2>3. stage = "cpu" /\ stage' = "check" /\ Len(once) \in Nat /\ Len(args') \in Nat
    BY <1>9, <2>1, <2>2 DEF W!AddCpu
  <2> QED BY <1>2, <1>3, <1>4, <2>1, <2>2, <2>3 DEF Filled, Room
<1>10. CASE W!Execute
  <2>1. args' = args \o argv /\ stage = "check" /\ stage' = "done"
    BY <1>10 DEF W!Execute
  <2> QED BY <1>2, <1>3, <1>4, <2>1 DEF Filled, Room
<1>11. CASE W!OtherArgument \/ W!LastArgument
  BY <1>5, <1>11 DEF W!OtherArgument, W!LastArgument, W!Skip
<1>12. CASE W!JoinedArgument
  BY <1>5, <1>6, <1>12 DEF W!JoinedArgument, W!Checking, W!CheckUnsafePath
<1>13. CASE W!SeparateArgument
  BY <1>5, <1>6, <1>13 DEF W!SeparateArgument, W!Checking, W!CheckUnsafePath
<1>14. CASE UNCHANGED W!vars
  BY <1>5, <1>14 DEF W!vars
<1> QED BY <1>7, <1>8, <1>9, <1>10, <1>11, <1>12, <1>13, <1>14 DEF W!Next

(***************************************************************************)
(* The arguments of the wrapper's configuration, those it was given and    *)
(* the NULL at the end have room in what malloc was asked for.             *)
(***************************************************************************)
THEOREM Holds ==
    ASSUME W!BuildsAssumption, W!CommandsAssumption
    PROVE  W!Spec => []W!ArrayHolds
<1>1. Filled => W!ArrayHolds
  <2> SUFFICES ASSUME Filled PROVE W!ArrayHolds
    OBVIOUS
  <2>1. Len(W!predef_args) \in Nat /\ Len(argv) \in Nat /\ Len(args) \in Nat
    BY DEF Filled
  <2>2. Len(args) <= Len(W!predef_args) + 3 + Len(argv)
    BY <2>1 DEF Filled, Room
  <2> QED BY <2>1, <2>2 DEF W!ArrayHolds, W!Slots, W!argc, W!EXCLUSIVE_ARGS
<1> QED BY FilledInit, FilledNext, <1>1, PTL DEF W!Spec

-----------------------------------------------------------------------------
(***************************************************************************)
(* What is in front of the arguments that were given                       *)
(***************************************************************************)
WithFloat == W!predef_args \o W!AddUnless(W!FloatOverridden, "FLOAT_ABI", W!FloatAbi)
WithCpu ==
    WithFloat \o W!AddUnless(W!CpuOverridden, "ARCH", W!March) \o W!AddUnless(W!CpuOverridden, "CPU", W!Mcpu)
NoCcache == "CCACHE" \in build.defines /\ "BR_NO_CCACHE" \in environ
InFront == IF NoCcache THEN Tail(WithCpu) ELSE WithCpu

LEMMA AddUnlessIn ==
    ASSUME NEW T, NEW s \in Seq(T), NEW o, NEW d, NEW a, o \/ a \in T
    PROVE  /\ s \o W!AddUnless(o, d, a) \in Seq(T)
           /\ Len(s) <= Len(s \o W!AddUnless(o, d, a))
           /\ \A i \in 1..Len(s) : (s \o W!AddUnless(o, d, a))[i] = s[i]
<1>1. PICK t : t = W!AddUnless(o, d, a)
  OBVIOUS
<1>2. t \in Seq(T)
  <2>1. CASE d \in build.defines /\ ~o
    BY <1>1, <2>1 DEF W!AddUnless
  <2>2. CASE ~(d \in build.defines /\ ~o)
    BY <1>1, <2>2 DEF W!AddUnless
  <2> QED BY <2>1, <2>2
<1>3. /\ s \o t \in Seq(T) /\ Len(s \o t) = Len(s) + Len(t)
      /\ \A i \in 1..Len(s) + Len(t) : (s \o t)[i] = IF i <= Len(s) THEN s[i] ELSE t[i - Len(s)]
  BY <1>2, ConcatProperties
<1>4. Len(s) \in Nat /\ Len(t) \in Nat
  BY <1>2
<1>5. Len(s) <= Len(s \o t) /\ \A i \in 1..Len(s) : (s \o t)[i] = s[i]
  BY <1>3, <1>4
<1> QED BY <1>1, <1>3, <1>5

\* All of it is in any set that has what the wrapper adds.
LEMMA PredefIn ==
    ASSUME NEW T, W!Compiler \in T, W!Ccache \in T, build.predef \in Seq(T)
    PROVE  /\ W!predef_args \in Seq(T) /\ 1 <= Len(W!predef_args)
           /\ "CCACHE" \in build.defines =>
                 2 <= Len(W!predef_args) /\ W!predef_args[1] = W!Ccache /\ W!predef_args[2] = W!Compiler
           /\ "CCACHE" \notin build.defines => W!predef_args[1] = W!Compiler
<1>1. PICK p : p = build.predef
  OBVIOUS
<1>2. p \in Seq(T) /\ Len(p) \in Nat
  BY <1>1
<1>3. CASE "CCACHE" \in build.defines
  <2>1. W!predef_args = (<<W!Ccache>> \o <<W!Compiler>>) \o p
    BY <1>1, <1>3 DEF W!predef_args
  <2>2. PICK h : h = <<W!Ccache, W!Compiler>>
    OBVIOUS
  <2>3. <<W!Ccache>> \o <<W!Compiler>> = h /\ h \in Seq(T) /\ Len(h) = 2 /\ h[1] = W!Ccache /\ h[2] = W!Compiler
    <3>1. PICK c, d : c = W!Ccache /\ d = W!Compiler
      OBVIOUS
    <3>2. c \in T /\ d \in T
      BY <3>1
    <3>3. <<c, d>> \in Seq(T) /\ Len(<<c, d>>) = 2 /\ <<c, d>>[1] = c /\ <<c, d>>[2] = d
      BY <3>2
    <3>4. <<c>> \o <<d>> = <<c, d>>
      <4>1. PICK k, l, m : k = <<c>> /\ l = <<d>> /\ m = <<c, d>>
        OBVIOUS
      <4>2. /\ k \in Seq(T) /\ Len(k) = 1 /\ k[1] = c
            /\ l \in Seq(T) /\ Len(l) = 1 /\ l[1] = d
            /\ m \in Seq(T) /\ Len(m) = 2 /\ m[1] = c /\ m[2] = d
        BY <3>2, <4>1
      <4>3. k \o l \in Seq(T) /\ Len(k \o l) = Len(m) /\ \A i \in 1..Len(k \o l) : (k \o l)[i] = m[i]
        BY <4>2, ConcatProperties
      <4>4. k \o l = m
        BY <4>2, <4>3, SeqEqual
      <4> QED BY <4>1, <4>4
    <3> QED BY <2>2, <3>1, <3>3, <3>4
  <2>4. W!predef_args = h \o p
    BY <2>1, <2>3
  <2> QED BY <1>2, <1>3, <2>3, <2>4, ConcatProperties
<1>4. CASE "CCACHE" \notin build.defines
  <2>1. W!predef_args = (<<>> \o <<W!Compiler>>) \o p
    BY <1>1, <1>4 DEF W!predef_args
  <2>2. PICK h : h = <<W!Compiler>>
    OBVIOUS
  <2>3. <<>> \o <<W!Compiler>> = h /\ h \in Seq(T) /\ Len(h) = 1 /\ h[1] = W!Compiler
    BY <2>2
  <2>4. W!predef_args = h \o p
    BY <2>1, <2>3
  <2> QED BY <1>2, <1>4, <2>3, <2>4, ConcatProperties
<1> QED BY <1>3, <1>4

LEMMA InFrontIn ==
    ASSUME NEW T, W!Compiler \in T, W!Ccache \in T, build.predef \in Seq(T),
           W!FloatOverridden \/ W!FloatAbi \in T,
           W!CpuOverridden \/ W!March \in T, W!CpuOverridden \/ W!Mcpu \in T
    PROVE  /\ WithCpu \in Seq(T) /\ InFront \in Seq(T)
           /\ WithCpu # <<>> /\ InFront # <<>>
           /\ InFront[1] = IF "CCACHE" \in build.defines /\ "BR_NO_CCACHE" \notin environ
                           THEN W!Ccache ELSE W!Compiler
<1>1. PICK x : x = W!predef_args
  OBVIOUS
<1>2. /\ x \in Seq(T) /\ 1 <= Len(x)
      /\ "CCACHE" \in build.defines => 2 <= Len(x) /\ x[1] = W!Ccache /\ x[2] = W!Compiler
      /\ "CCACHE" \notin build.defines => x[1] = W!Compiler
  BY <1>1, PredefIn
<1>3. PICK y : y = x \o W!AddUnless(W!FloatOverridden, "FLOAT_ABI", W!FloatAbi)
  OBVIOUS
<1>4. y \in Seq(T) /\ Len(x) <= Len(y) /\ \A i \in 1..Len(x) : y[i] = x[i]
  BY <1>2, <1>3, AddUnlessIn
<1>5. PICK z : z = y \o W!AddUnless(W!CpuOverridden, "ARCH", W!March)
  OBVIOUS
<1>6. z \in Seq(T) /\ Len(y) <= Len(z) /\ \A i \in 1..Len(y) : z[i] = y[i]
  BY <1>4, <1>5, AddUnlessIn
<1>7. PICK w : w = z \o W!AddUnless(W!CpuOverridden, "CPU", W!Mcpu)
  OBVIOUS
<1>8. w \in Seq(T) /\ Len(z) <= Len(w) /\ \A i \in 1..Len(z) : w[i] = z[i]
  BY <1>6, <1>7, AddUnlessIn
<1>9. WithCpu = w
  BY <1>1, <1>3, <1>5, <1>7 DEF WithCpu, WithFloat
<1>10. Len(x) \in Nat /\ Len(y) \in Nat /\ Len(z) \in Nat /\ Len(w) \in Nat
  BY <1>2, <1>4, <1>6, <1>8
<1>11. \A i \in 1..Len(x) : w[i] = x[i]
  BY <1>4, <1>6, <1>8, <1>10
<1>12. 1 <= Len(w) /\ w # <<>> /\ w[1] = x[1]
  BY <1>2, <1>4, <1>6, <1>8, <1>10, <1>11
<1>13. CASE NoCcache
  <2>1. "CCACHE" \in build.defines /\ "BR_NO_CCACHE" \in environ
    BY <1>13 DEF NoCcache
  <2>2. 2 <= Len(w) /\ w[2] = W!Compiler
    BY <1>2, <1>4, <1>6, <1>8, <1>10, <1>11, <2>1
  <2>3. Tail(w) \in Seq(T) /\ Len(Tail(w)) = Len(w) - 1 /\ Tail(w)[1] = w[2]
    BY <1>8, <1>10, <2>2
  <2>4. Tail(w) # <<>>
    <3>1. Len(Tail(w)) # 0 /\ Len(<<>>) = 0
      BY <1>10, <2>2, <2>3
    <3> QED BY <3>1
  <2>5. InFront = Tail(w)
    BY <1>9, <1>13 DEF InFront
  <2> QED BY <1>8, <1>9, <1>12, <2>1, <2>2, <2>3, <2>4, <2>5
<1>14. CASE ~NoCcache
  BY <1>2, <1>8, <1>9, <1>12, <1>14 DEF InFront, NoCcache
<1> QED BY <1>13, <1>14

PassedOn ==
    /\ build \in Builds
    /\ stage = "float" => args = W!predef_args
    /\ stage = "cpu" => args = WithFloat
    /\ stage = "check" => args = WithCpu
    /\ executed.rc = 0 => executed.args = InFront \o argv

LEMMA PassedOnInit == W!Init => PassedOn
  BY DEF W!Init, PassedOn

\* What the arguments of the wrapper are part of
LEMMA InFrontTyped ==
    ASSUME W!BuildsAssumption, build \in Builds
    PROVE  /\ WithCpu \in Seq(Words) /\ InFront \in Seq(Words)
           /\ WithCpu # <<>> /\ InFront # <<>>
           /\ InFront[1] = IF "CCACHE" \in build.defines /\ "BR_NO_CCACHE" \notin environ
                           THEN W!Ccache ELSE W!Compiler
<1>1. build.predef \in Seq(Words)
  BY Wider DEF W!BuildsAssumption
<1>2. {W!Compiler, W!Ccache, W!FloatAbi, W!March, W!Mcpu} \subseteq Words
  BY OwnTyped
<1> QED BY <1>1, <1>2, InFrontIn

LEMMA TailOfConcat ==
    ASSUME NEW T, NEW s \in Seq(T), s # <<>>, NEW t \in Seq(T)
    PROVE  Tail(s \o t) = Tail(s) \o t
<1>1. PICK u, v : u = s \o t /\ v = Tail(s)
  OBVIOUS
<1>2. /\ Len(s) \in Nat /\ Len(t) \in Nat /\ Len(s) >= 1
  OBVIOUS
<1>3. /\ u \in Seq(T) /\ Len(u) = Len(s) + Len(t)
      /\ \A i \in 1..Len(s) + Len(t) : u[i] = IF i <= Len(s) THEN s[i] ELSE t[i - Len(s)]
  BY <1>1, ConcatProperties
<1>4. v \in Seq(T) /\ Len(v) = Len(s) - 1 /\ \A i \in 1..Len(v) : v[i] = s[i + 1]
  BY <1>1, HeadTailProperties
<1>5. u # <<>>
  BY <1>2, <1>3
<1>6. Tail(u) \in Seq(T) /\ Len(Tail(u)) = Len(u) - 1 /\ \A i \in 1..Len(Tail(u)) : Tail(u)[i] = u[i + 1]
  BY <1>3, <1>5, HeadTailProperties
<1>7. /\ v \o t \in Seq(T) /\ Len(v \o t) = Len(v) + Len(t)
      /\ \A i \in 1..Len(v) + Len(t) : (v \o t)[i] = IF i <= Len(v) THEN v[i] ELSE t[i - Len(v)]
  BY <1>4, ConcatProperties
<1>8. \A i \in 1..Len(Tail(u)) : Tail(u)[i] = (v \o t)[i]
  <2> SUFFICES ASSUME NEW i \in 1..Len(Tail(u)) PROVE Tail(u)[i] = (v \o t)[i]
    OBVIOUS
  <2>1. i \in 1..Len(v) + Len(t) /\ i + 1 \in 1..Len(s) + Len(t) /\ (i <= Len(v) <=> i + 1 <= Len(s))
        /\ (i + 1) - Len(s) = i - Len(v)
    BY <1>2, <1>3, <1>4, <1>6
  <2>2. CASE i <= Len(v)
    BY <1>3, <1>4, <1>6, <1>7, <2>1, <2>2
  <2>3. CASE ~(i <= Len(v))
    BY <1>3, <1>4, <1>6, <1>7, <2>1, <2>3
  <2> QED BY <2>2, <2>3
<1>9. Tail(u) = v \o t
  <2>1. Len(Tail(u)) = Len(v \o t)
    BY <1>2, <1>3, <1>4, <1>6, <1>7
  <2> QED BY <1>6, <1>7, <1>8, <2>1, SeqEqual
<1> QED BY <1>1, <1>9

LEMMA PassedOnNext ==
    ASSUME W!BuildsAssumption, Filled, PassedOn, [W!Next]_W!vars
    PROVE  PassedOn'
<1>1. UNCHANGED <<build, argv, environ>>
  BY DEF W!Next, W!vars, W!given, W!Locate, W!Exit, W!AddFloatAbi, W!AddCpu, W!Execute, W!OtherArgument,
         W!JoinedArgument, W!SeparateArgument, W!LastArgument, W!Skip, W!CheckUnsafePath
<1>2. /\ W!predef_args' = W!predef_args /\ WithFloat' = WithFloat /\ WithCpu' = WithCpu /\ InFront' = InFront
  BY <1>1 DEF W!predef_args, WithFloat, WithCpu, InFront, NoCcache, W!AddUnless, W!FloatOverridden,
     W!CpuOverridden
<1>3. CASE UNCHANGED <<args, stage, executed>>
  BY <1>1, <1>2, <1>3 DEF PassedOn
<1>4. CASE \E code \in {1, 2, 3} : W!Exit(code)
  BY <1>1, <1>2, <1>4 DEF PassedOn, W!Exit
<1>5. CASE W!Locate
  <2>1. CASE W!Exit(2) \/ W!Exit(3)
    BY <1>4, <2>1
  <2>2. CASE args' = W!predef_args /\ stage' = "float" /\ UNCHANGED executed
    BY <1>1, <1>2, <2>2 DEF PassedOn
  <2> QED BY <1>5, <2>1, <2>2 DEF W!Locate
<1>6. CASE W!AddFloatAbi
  BY <1>1, <1>2, <1>6 DEF PassedOn, W!AddFloatAbi, WithFloat
<1>7. CASE W!AddCpu
  BY <1>1, <1>2, <1>7 DEF PassedOn, W!AddCpu, WithCpu
<1>8. CASE W!Execute
  <2>1. args = WithCpu /\ args' = WithCpu \o argv /\ stage' = "done"
    BY <1>8 DEF W!Execute, PassedOn
  <2>2. WithCpu \in Seq(Words) /\ WithCpu # <<>> /\ argv \in Seq(Words)
    BY InFrontTyped DEF PassedOn, Filled
  <2>3. Tail(WithCpu \o argv) = Tail(WithCpu) \o argv
    BY <2>2, TailOfConcat
  <2>4. executed'.args = InFront \o argv
    <3>1. executed'.args = IF NoCcache THEN Tail(args') ELSE args'
      BY <1>8 DEF W!Execute, NoCcache
    <3> QED BY <2>1, <2>3, <3>1 DEF InFront
  <2> QED BY <1>1, <1>2, <2>1, <2>4 DEF PassedOn
<1>9. CASE W!OtherArgument \/ W!LastArgument
  BY <1>3, <1>9 DEF W!OtherArgument, W!LastArgument, W!Skip
<1>10. CASE W!JoinedArgument
  BY <1>3, <1>4, <1>10 DEF W!JoinedArgument, W!CheckUnsafePath
<1>11. CASE W!SeparateArgument
  BY <1>3, <1>4, <1>11 DEF W!SeparateArgument, W!CheckUnsafePath
<1>12. CASE UNCHANGED W!vars
  BY <1>3, <1>12 DEF W!vars
<1> QED BY <1>5, <1>6, <1>7, <1>8, <1>9, <1>10, <1>11, <1>12 DEF W!Next

\* An option that excludes another comes with it only if it always comes.
LEMMA NotBoth ==
    ASSUME W!BuildsAssumption, build \in Builds, W!CommandsAssumption,
           NEW options \in {{"-march=", "-mtune=", "-mcpu="},
                            {"-mfloat-abi=", "-msoft-float", "-mhard-float"}},
           W!Some(argv, options), ~W!Some(build.predef, options)
    PROVE  ~W!Some(InFront, options)
<1>1. PICK T : T = {w \in Words : w.option \notin options}
  OBVIOUS
<1>2. W!Compiler \in T /\ W!Ccache \in T
  BY <1>1, OwnTyped DEF W!Compiler, W!Ccache, W!Argument
<1>3. build.predef \in Seq(T)
  <2>1. PICK p : p = build.predef
    OBVIOUS
  <2>2. p \in Seq(Words) /\ ~W!Some(p, options)
    BY <2>1, Wider DEF W!BuildsAssumption
  <2>3. \A i \in 1..Len(p) : p[i] \in T
    BY <1>1, <2>2 DEF W!Some
  <2>4. p \in [1..Len(p) -> T] /\ Len(p) \in Nat
    BY <2>2, <2>3
  <2> QED BY <2>1, <2>4
<1>4. W!FloatOverridden \/ W!FloatAbi \in T
  BY <1>1, OwnTyped DEF W!FloatAbi, W!Argument, W!FloatOverridden, W!OverridesFloat, W!Some
<1>5. W!CpuOverridden \/ (W!March \in T /\ W!Mcpu \in T)
  BY <1>1, OwnTyped DEF W!March, W!Mcpu, W!Argument, W!CpuOverridden, W!OverridesCpu, W!Some
<1>6. InFront \in Seq(T)
  BY <1>2, <1>3, <1>4, <1>5, InFrontIn
<1>7. \A i \in DOMAIN InFront : InFront[i] \in T
  BY <1>6
<1> QED BY <1>1, <1>7 DEF W!Some

(***************************************************************************)
(* The compiler is called, through ccache unless the environment says not, *)
(* with the arguments as they were given behind the wrapper's own, which   *)
(* exclude none of them unless the compiler is always called with one that *)
(* does; for any command line and however the wrapper was compiled.        *)
(***************************************************************************)
THEOREM AsGiven ==
    ASSUME W!BuildsAssumption, W!CommandsAssumption
    PROVE  W!Spec => []W!ArgumentsAsGiven
<1>1. W!Init => Filled /\ PassedOn
  BY FilledInit, PassedOnInit
<1>2. Filled /\ PassedOn /\ [W!Next]_W!vars => (Filled /\ PassedOn)'
  BY FilledNext, PassedOnNext
<1>3. Filled /\ PassedOn => W!ArgumentsAsGiven
  <2> SUFFICES ASSUME Filled, PassedOn, executed.rc = 0,
                      NEW added, added = SubSeq(executed.args, 1, Len(executed.args) - Len(argv))
               PROVE  /\ executed.args = added \o argv
                      /\ added # <<>>
                      /\ added[1] = IF "CCACHE" \in build.defines /\ "BR_NO_CCACHE" \notin environ
                                    THEN W!Ccache ELSE W!Compiler
                      /\ \A options \in {{"-march=", "-mtune=", "-mcpu="},
                                         {"-mfloat-abi=", "-msoft-float", "-mhard-float"}} :
                            W!Some(argv, options) /\ W!Some(added, options) => W!Some(build.predef, options)
    BY DEF W!ArgumentsAsGiven
  <2>1. PICK f : f = InFront
    OBVIOUS
  <2>2. /\ f \in Seq(Words) /\ f # <<>> /\ argv \in Seq(Words)
        /\ f[1] = IF "CCACHE" \in build.defines /\ "BR_NO_CCACHE" \notin environ THEN W!Ccache ELSE W!Compiler
    BY <2>1, InFrontTyped DEF Filled, PassedOn
  <2>3. executed.args = f \o argv
    BY <2>1 DEF PassedOn
  <2>4. Len(f) \in Nat /\ Len(f) >= 1 /\ Len(argv) \in Nat /\ Len(f \o argv) = Len(f) + Len(argv)
    BY <2>2, ConcatProperties
  <2>5. added = SubSeq(f \o argv, 1, Len(f))
    BY <2>3, <2>4
  <2>6. added = f
    <3>1. SubSeq(f \o argv, 1, Len(f)) = SubSeq(f, 1, Len(f))
      BY <2>2, <2>4, SubSeqOfConcat1
    <3>2. SubSeq(f, 1, Len(f)) = f
      BY <2>2, SubSeqFull
    <3> QED BY <2>5, <3>1, <3>2
  <2>7. \A options \in {{"-march=", "-mtune=", "-mcpu="}, {"-mfloat-abi=", "-msoft-float", "-mhard-float"}} :
            W!Some(argv, options) /\ W!Some(f, options) => W!Some(build.predef, options)
    BY <2>1, NotBoth DEF PassedOn
  <2> QED BY <2>2, <2>3, <2>6, <2>7
<1> QED BY <1>1, <1>2, <1>3, PTL DEF W!Spec

-----------------------------------------------------------------------------
(***************************************************************************)
(* The loop over paths: it never stands at an argument that is a path.     *)
(***************************************************************************)
LEMMA LeastOf ==
    ASSUME NEW T, T \subseteq Nat, T # {}
    PROVE  \E x \in T : \A y \in T : x <= y
<1> DEFINE Less == {p \in Nat \X Nat : p[1] < p[2]}
<1>1. IsWellFoundedOn(Less, Nat)
  BY NatLessThanWellFounded DEF OpToRel
<1>2. \A x, y \in Nat : y < x => <<y, x>> \in Less
  OBVIOUS
<1> HIDE DEF Less
<1>3. PICK x \in T : \A y \in T : <<y, x>> \notin Less
  BY <1>1, WFMin
<1>4. \A y \in T : x <= y
  <2> SUFFICES ASSUME NEW y \in T PROVE x <= y
    OBVIOUS
  <2>1. x \in Nat /\ y \in Nat /\ ~(y < x)
    BY <1>2, <1>3
  <2> QED BY <2>1
<1> QED BY <1>4

\* A row of bare options begins at j and goes to before i.
Row(j, i) == (\A k \in j..i - 1 : W!Bare(k)) /\ (j = 1 \/ ~W!Bare(j - 1))

LEMMA OneRow ==
    ASSUME NEW i \in Nat, NEW j \in 1..i - 1, NEW k \in 1..i - 1, Row(j, i), Row(k, i)
    PROVE  j = k
<1>1. ~(j < k)
  <2> SUFFICES ASSUME j < k PROVE FALSE
    OBVIOUS
  <2>1. k - 1 \in j..i - 1 /\ k # 1
    OBVIOUS
  <2> QED BY <2>1 DEF Row
<1>2. ~(k < j)
  <2> SUFFICES ASSUME k < j PROVE FALSE
    OBVIOUS
  <2>1. j - 1 \in k..i - 1 /\ j # 1
    OBVIOUS
  <2> QED BY <2>1 DEF Row
<1> QED BY <1>1, <1>2

LEMMA IsPathIs ==
    ASSUME NEW i \in Nat
    PROVE  W!IsPath(i) <=> \E j \in 1..i - 1 : (i - j) % 2 = 1 /\ Row(j, i)
  BY DEF W!IsPath, Row

LEMMA Parity ==
    ASSUME NEW i \in Nat
    PROVE  i % 2 \in {0, 1} /\ ((i + 1) % 2 = 1 <=> i % 2 = 0)
  OBVIOUS

LEMMA PathAfter ==
    ASSUME NEW i \in Nat \ {0}
    PROVE  W!IsPath(i + 1) <=> W!Bare(i) /\ ~W!IsPath(i)
<1>1. ASSUME W!IsPath(i + 1) PROVE W!Bare(i) /\ ~W!IsPath(i)
  <2>1. PICK j \in 1..i : (i + 1 - j) % 2 = 1 /\ Row(j, i + 1)
    BY <1>1, IsPathIs
  <2>2. i \in j..i + 1 - 1 /\ W!Bare(i)
    BY <2>1 DEF Row
  <2>3. ASSUME W!IsPath(i) PROVE FALSE
    <3>1. PICK k \in 1..i - 1 : (i - k) % 2 = 1 /\ Row(k, i)
      BY <2>3, IsPathIs
    <3>2. Row(k, i + 1)
      <4>1. \A l \in k..i + 1 - 1 : l = i \/ l \in k..i - 1
        OBVIOUS
      <4> QED BY <2>2, <3>1, <4>1 DEF Row
    <3>3. k = j
      BY <2>1, <3>1, <3>2, OneRow
    <3>4. i - k \in Nat /\ i + 1 - j = (i - k) + 1
      BY <3>3
    <3> QED BY <2>1, <3>1, <3>4, Parity
  <2> QED BY <2>2, <2>3
<1>2. ASSUME W!Bare(i), ~W!IsPath(i) PROVE W!IsPath(i + 1)
  <2> DEFINE T == {j \in 1..i : \A k \in j..i : W!Bare(k)}
  <2>1. T \subseteq Nat /\ i \in T
    BY <1>2
  <2>2. PICK j \in T : \A y \in T : j <= y
    BY <2>1, LeastOf
  <2>3. j \in 1..i /\ \A k \in j..i : W!Bare(k)
    BY <2>2
  <2>4. j = 1 \/ ~W!Bare(j - 1)
    <3> SUFFICES ASSUME j # 1, W!Bare(j - 1) PROVE FALSE
      OBVIOUS
    <3>1. j - 1 \in 1..i /\ \A k \in j - 1..i : k = j - 1 \/ k \in j..i
      BY <2>3
    <3>2. j - 1 \in T
      BY <2>3, <3>1
    <3> QED BY <2>2, <2>3, <3>2
  <2>5. Row(j, i + 1)
    BY <2>3, <2>4 DEF Row
  <2>6. (i - j) % 2 = 0
    <3>1. CASE j = i
      BY <3>1
    <3>2. CASE j # i
      <4>1. j \in 1..i - 1 /\ i - j \in Nat /\ \A k \in j..i - 1 : k \in j..i
        BY <2>3, <3>2
      <4>2. Row(j, i)
        BY <2>3, <2>4, <4>1 DEF Row
      <4>3. (i - j) % 2 # 1
        BY <1>2, <4>1, <4>2, IsPathIs
      <4> QED BY <4>1, <4>3, Parity
    <3> QED BY <3>1, <3>2
  <2>7. i - j \in Nat /\ (i + 1) - j = (i - j) + 1 /\ j \in 1..(i + 1) - 1
    BY <2>3
  <2>8. ((i + 1) - j) % 2 = 1
    BY <2>6, <2>7, Parity
  <2> QED BY <2>5, <2>7, <2>8, IsPathIs
<1> QED BY <1>1, <1>2

LEMMA FirstIsNone == ~W!IsPath(1)
  BY DEF W!IsPath

\* The paths to search among the arguments before n
PathOf(i) ==
    IF W!IsPath(i) THEN {argv[i]}
    ELSE IF W!IsSearch(argv[i]) /\ argv[i].text # "" THEN {W!Argument("", argv[i].text)}
    ELSE {}
Before(n) == UNION {PathOf(i) : i \in {j \in DOMAIN argv : j < n}}

LEMMA BeforeIs ==
    ASSUME argv \in Seq(Words)
    PROVE  /\ Before(1) = {}
           /\ \A n \in DOMAIN argv : Before(n + 1) = Before(n) \cup PathOf(n)
           /\ \A n \in Nat : n >= W!argc => Before(n) = W!Searched
<1>1. DOMAIN argv = 1..Len(argv) /\ Len(argv) \in Nat
  OBVIOUS
<1>2. \A n \in DOMAIN argv : \A j \in DOMAIN argv : j < n + 1 <=> j < n \/ j = n
  BY <1>1
<1>3. Before(1) = {}
  BY <1>1 DEF Before
<1>4. \A n \in DOMAIN argv : Before(n + 1) = Before(n) \cup PathOf(n)
  BY <1>2 DEF Before
<1>5. ASSUME NEW n \in Nat, n >= W!argc PROVE Before(n) = W!Searched
  <2>1. \A j \in DOMAIN argv : j < n
    BY <1>1, <1>5 DEF W!argc
  <2>2. \A x : x \in Before(n) <=> \E i \in DOMAIN argv : x \in PathOf(i)
    BY <2>1 DEF Before
  <2>3. \A x : x \in W!Searched <=> \E i \in DOMAIN argv : x \in PathOf(i)
    <3> SUFFICES ASSUME NEW x PROVE x \in W!Searched <=> \E i \in DOMAIN argv : x \in PathOf(i)
      OBVIOUS
    <3>1. x \in W!Searched <=>
             \/ \E i \in DOMAIN argv : W!IsPath(i) /\ x = argv[i]
             \/ \E i \in DOMAIN argv : /\ W!IsSearch(argv[i]) /\ argv[i].text # "" /\ ~W!IsPath(i)
                                       /\ x = W!Argument("", argv[i].text)
      BY DEF W!Searched
    <3>2. \A i \in DOMAIN argv : x \in PathOf(i) <=>
             \/ W!IsPath(i) /\ x = argv[i]
             \/ /\ W!IsSearch(argv[i]) /\ argv[i].text # "" /\ ~W!IsPath(i)
                /\ x = W!Argument("", argv[i].text)
      BY DEF PathOf
    <3> QED BY <3>1, <3>2
  <2> QED BY <2>2, <2>3
<1> QED BY <1>3, <1>4, <1>5

Judged ==
    /\ at \in Nat \ {0}
    /\ stage \in {"paths", "float", "cpu"} => at = 1 /\ warnings = {}
    /\ stage = "check" =>
          /\ at < W!argc => ~W!IsPath(at)
          /\ W!paranoid => warnings = {} /\ \A a \in Before(at) : W!Unsafe(a) = {}
          /\ ~W!paranoid => warnings = UNION {W!Reports(a) : a \in Before(at)}
    /\ stage = "done" => W!PathsAreJudged

LEMMA JudgedInit == W!Init => Judged
  BY DEF W!Init, Judged

\* What depends on the arguments, the build and the environment only
LEMMA GivenStays ==
    ASSUME UNCHANGED W!given
    PROVE  /\ W!argc' = W!argc /\ W!paranoid' = W!paranoid /\ W!Searched' = W!Searched
           /\ \A n : Before(n)' = Before(n) /\ W!IsPath(n)' = W!IsPath(n)
           /\ \A a : W!Unsafe(a)' = W!Unsafe(a) /\ W!Reports(a)' = W!Reports(a)
BY DEF W!given, W!argc, W!paranoid, W!IsPath, W!Bare, Before, PathOf, W!Searched, W!Unsafe, W!Reports,
   W!IsSearch

LEMMA AtTheNext ==
    ASSUME UNCHANGED W!given
    PROVE  W!IsPath(at)' = W!IsPath(at') /\ Before(at)' = Before(at')
<1>1. argv' = argv
  BY DEF W!given
<1>2. W!IsPath(at)' = W!IsPath(at')
  BY <1>1 DEF W!IsPath, W!Bare
<1>3. \A i : PathOf(i)' = PathOf(i)
  BY <1>1 DEF PathOf, W!IsPath, W!Bare, W!IsSearch
<1>4. Before(at)' = Before(at')
  BY <1>1, <1>3 DEF Before
<1> QED BY <1>2, <1>4

\* The loop goes on with an argument that is no path.
LEMMA LoopStep ==
    ASSUME Filled, Judged, stage = "check", at < W!argc, UNCHANGED <<W!given, stage>>,
           NEW n \in {1, 2}, at' = at + n, at' < W!argc => ~W!IsPath(at'),
           NEW A, Before(at') = Before(at) \cup A,
           W!paranoid => warnings' = warnings /\ \A a \in A : W!Unsafe(a) = {},
           ~W!paranoid => warnings' = warnings \cup UNION {W!Reports(a) : a \in A}
    PROVE  Judged'
<1>1. at' \in Nat \ {0}
  BY DEF Judged
<1>2. /\ W!argc' = W!argc /\ W!paranoid' = W!paranoid /\ W!IsPath(at)' = W!IsPath(at')
         /\ Before(at)' = Before(at')
      /\ \A a : W!Unsafe(a)' = W!Unsafe(a) /\ W!Reports(a)' = W!Reports(a)
  BY GivenStays, AtTheNext
<1>3. ~W!paranoid => warnings' = UNION {W!Reports(a) : a \in Before(at')}
  BY DEF Judged
<1>4. W!paranoid => warnings' = {} /\ \A a \in Before(at') : W!Unsafe(a) = {}
  BY DEF Judged
<1> QED BY <1>1, <1>2, <1>3, <1>4 DEF Judged

\* A path to search that may end it
LEMMA CheckStep ==
    ASSUME Filled, Judged, stage = "check", at < W!argc, UNCHANGED W!given,
           NEW n \in {1, 2}, at' = at + n, at' < W!argc => ~W!IsPath(at'),
           NEW a, W!CheckUnsafePath(a), Before(at') = Before(at) \cup {a}, a \in W!Searched
    PROVE  Judged'
<1>1. CASE W!paranoid /\ W!Unsafe(a) # {}
  <2>1. stage' = "done" /\ executed'.rc = 1 /\ warnings' = {} /\ at' \in Nat \ {0}
    BY <1>1 DEF W!CheckUnsafePath, W!Exit, Judged
  <2>2. /\ W!paranoid' = W!paranoid /\ W!Searched' = W!Searched /\ \A b : W!Unsafe(b)' = W!Unsafe(b)
    BY GivenStays
  <2>3. W!PathsAreJudged'
    BY <1>1, <2>1, <2>2 DEF W!PathsAreJudged
  <2> QED BY <2>1, <2>3 DEF Judged
<1>2. CASE ~(W!paranoid /\ W!Unsafe(a) # {})
  <2>1. stage' = stage /\ warnings' = warnings \cup W!Reports(a)
    BY <1>2 DEF W!CheckUnsafePath
  <2>2. W!paranoid => warnings' = warnings
    BY <1>2, <2>1 DEF W!Reports
  <2> QED BY <1>2, <2>1, <2>2, LoopStep
<1> QED BY <1>1, <1>2

LEMMA JudgedNext ==
    ASSUME Filled, Judged, [W!Next]_W!vars
    PROVE  Judged'
<1>0. /\ argv \in Seq(Words) /\ Len(argv) \in Nat /\ DOMAIN argv = 1..Len(argv) /\ W!argc = Len(argv) + 1
      /\ at \in Nat \ {0}
  BY DEF Filled, W!argc, Judged
<1>1. UNCHANGED W!given
  BY DEF W!Next, W!vars, W!given, W!Locate, W!Exit, W!AddFloatAbi, W!AddCpu, W!Execute, W!OtherArgument,
         W!JoinedArgument, W!SeparateArgument, W!LastArgument, W!Skip, W!CheckUnsafePath
<1>2. /\ W!argc' = W!argc /\ W!paranoid' = W!paranoid /\ W!Searched' = W!Searched
      /\ \A n : Before(n)' = Before(n) /\ W!IsPath(n)' = W!IsPath(n)
      /\ \A a : W!Unsafe(a)' = W!Unsafe(a) /\ W!Reports(a)' = W!Reports(a)
  BY <1>1, GivenStays
<1>3. at < W!argc => at \in DOMAIN argv
  BY <1>0
<1>4. CASE UNCHANGED <<at, stage, warnings, executed>>
  <2>1. W!IsPath(at)' = W!IsPath(at) /\ Before(at)' = Before(at)
    BY <1>1, <1>4 DEF W!given, W!IsPath, W!Bare, Before, PathOf, W!IsSearch
  <2> QED BY <1>2, <1>4, <2>1 DEF Judged, W!PathsAreJudged
<1>5. CASE W!Locate
  <2>1. CASE W!Exit(2) \/ W!Exit(3)
    <3>1. stage' = "done" /\ executed'.rc \notin {0, 1} /\ at' = at
      BY <1>5, <2>1 DEF W!Exit, W!Locate
    <3> QED BY <1>0, <3>1 DEF Judged, W!PathsAreJudged
  <2>2. CASE stage' = "float" /\ UNCHANGED <<at, warnings>>
    BY <1>5, <2>2 DEF Judged, W!Locate
  <2> QED BY <1>5, <2>1, <2>2 DEF W!Locate
<1>6. CASE W!AddFloatAbi
  BY <1>6 DEF W!AddFloatAbi, Judged
<1>7. CASE W!AddCpu
  <2>1. stage' = "check" /\ at = 1 /\ at' = 1 /\ warnings' = {}
    BY <1>7 DEF W!AddCpu, Judged
  <2>2. ~W!IsPath(1) /\ Before(1) = {}
    BY <1>0, FirstIsNone, BeforeIs
  <2>3. W!IsPath(at)' = W!IsPath(1) /\ Before(at)' = Before(1)
    BY <1>1, <2>1 DEF W!given, W!IsPath, W!Bare, Before, PathOf, W!IsSearch
  <2> QED BY <2>1, <2>2, <2>3 DEF Judged
<1>8. CASE W!Execute
  <2>1. /\ stage = "check" /\ at >= W!argc
        /\ stage' = "done" /\ executed'.rc \in {0, 2} /\ UNCHANGED <<at, warnings>>
    BY <1>8 DEF W!Execute
  <2>2. Before(at) = W!Searched
    BY <1>0, <2>1, BeforeIs
  <2>3. \A a : W!Unsafe(a) = {} => W!Reports(a) = {}
    BY DEF W!Reports
  <2>4. W!PathsAreJudged'
    <3>1. CASE W!paranoid
      <4>1. warnings' = {} /\ \A a \in W!Searched : W!Unsafe(a) = {}
        BY <2>1, <2>2, <3>1 DEF Judged
      <4> QED BY <1>2, <2>1, <3>1, <4>1 DEF W!PathsAreJudged
    <3>2. CASE ~W!paranoid
      <4>1. warnings' = UNION {W!Reports(a) : a \in W!Searched}
        BY <2>1, <2>2, <3>2 DEF Judged
      <4>2. warnings' = UNION {W!Reports(a) : a \in {b \in W!Searched : W!Unsafe(b) # {}}}
        BY <2>3, <4>1
      <4>3. executed'.rc # 1 /\ (executed'.rc \in {0, 1} => executed'.rc = 0)
        BY <2>1
      <4> QED BY <1>2, <3>2, <4>2, <4>3 DEF W!PathsAreJudged
    <3> QED BY <3>1, <3>2
  <2> QED BY <1>0, <2>1, <2>4 DEF Judged
<1>9. ASSUME W!Checking(argv[at]), NEW n \in {1, 2}, at' = at + n
      PROVE  /\ stage = "check" /\ at < W!argc /\ at \in DOMAIN argv /\ ~W!IsPath(at)
             /\ ~W!Bare(at) => ~W!IsPath(at + 1)
             /\ W!Bare(at) => W!IsPath(at + 1) /\ ~W!IsPath(at + 2)
             /\ Before(at + 1) = Before(at) \cup PathOf(at)
             /\ at + 1 < W!argc => Before(at + 2) = Before(at) \cup PathOf(at) \cup PathOf(at + 1)
  <2>1. stage = "check" /\ at < W!argc /\ at \in DOMAIN argv /\ ~W!IsPath(at)
    BY <1>3, <1>9 DEF W!Checking, Judged
  <2>2. at + 1 \in Nat \ {0} /\ (at + 1) + 1 = at + 2
    BY <1>0
  <2>3. W!IsPath(at + 1) <=> W!Bare(at)
    BY <1>0, <2>1, PathAfter
  <2>4. W!IsPath(at + 2) <=> W!Bare(at + 1) /\ ~W!IsPath(at + 1)
    BY <2>2, PathAfter
  <2>5. Before(at + 1) = Before(at) \cup PathOf(at)
    BY <1>0, <2>1, BeforeIs
  <2>6. at + 1 < W!argc => Before(at + 2) = Before(at + 1) \cup PathOf(at + 1)
    <3>1. at + 1 < W!argc => at + 1 \in DOMAIN argv
      BY <1>0
    <3> QED BY <1>0, <2>2, <3>1, BeforeIs
  <2> QED BY <2>1, <2>3, <2>4, <2>5, <2>6
<1>10. CASE W!OtherArgument
  <2>1. W!Checking(argv[at]) /\ ~W!IsSearch(argv[at]) /\ W!Skip(1)
    BY <1>10 DEF W!OtherArgument, W!Checking
  <2>2. ~W!Bare(at) /\ PathOf(at) = {} /\ at' = at + 1
    BY <1>9, <2>1 DEF W!Bare, W!IsSearch, PathOf, W!Skip
  <2>3. Before(at') = Before(at) \cup {} /\ ~W!IsPath(at') /\ stage = "check" /\ at < W!argc
    BY <1>9, <2>1, <2>2
  <2>4. UNCHANGED <<W!given, stage, warnings>>
    BY <2>1 DEF W!Skip, W!given
  <2> QED BY <2>2, <2>3, <2>4, LoopStep
<1>11. CASE W!JoinedArgument
  <2>0. PICK a : /\ W!Checking(a) /\ W!IsSearch(a) /\ a.text # ""
                 /\ W!CheckUnsafePath(W!Argument("", a.text)) /\ at' = at + 1
    BY <1>11 DEF W!JoinedArgument
  <2>1. /\ W!Checking(argv[at]) /\ W!IsSearch(argv[at]) /\ argv[at].text # ""
        /\ W!CheckUnsafePath(W!Argument("", argv[at].text)) /\ at' = at + 1
    <3>1. a = argv[at]
      BY <2>0 DEF W!Checking
    <3> QED BY <2>0, <3>1
  <2>2. ~W!Bare(at) /\ ~W!IsPath(at) /\ PathOf(at) = {W!Argument("", argv[at].text)}
    BY <1>9, <2>1 DEF W!Bare, PathOf
  <2>3. /\ Before(at') = Before(at) \cup {W!Argument("", argv[at].text)}
        /\ ~W!IsPath(at') /\ stage = "check" /\ at < W!argc
    BY <1>9, <2>1, <2>2
  <2>4. W!Argument("", argv[at].text) \in W!Searched
    BY <1>9, <2>1, <2>2 DEF W!Searched
  <2> QED BY <1>1, <2>1, <2>3, <2>4, CheckStep
<1>12. CASE W!SeparateArgument
  <2>1. /\ W!Checking(argv[at]) /\ W!IsSearch(argv[at]) /\ argv[at].text = "" /\ at + 1 < W!argc
        /\ W!CheckUnsafePath(argv[at + 1]) /\ at' = at + 2
    BY <1>12 DEF W!SeparateArgument, W!Checking
  <2>2. W!Bare(at) /\ PathOf(at) = {}
    BY <1>9, <2>1 DEF W!Bare, PathOf, W!IsSearch
  <2>3. W!IsPath(at + 1) /\ ~W!IsPath(at') /\ PathOf(at + 1) = {argv[at + 1]} /\ stage = "check" /\ at < W!argc
    BY <1>9, <2>1, <2>2 DEF PathOf
  <2>4. Before(at') = Before(at) \cup {argv[at + 1]}
    BY <1>9, <2>1, <2>2, <2>3
  <2>5. argv[at + 1] \in W!Searched
    <3>1. at + 1 \in DOMAIN argv
      <4>1. at + 1 < Len(argv) + 1 /\ at \in Nat \ {0}
        BY <1>0, <2>1
      <4> QED BY <1>0, <4>1
    <3> QED BY <2>3, <3>1 DEF W!Searched
  <2> QED BY <1>1, <2>1, <2>3, <2>4, <2>5, CheckStep
<1>13. CASE W!LastArgument
  <2>1. W!Checking(argv[at]) /\ W!IsSearch(argv[at]) /\ argv[at].text = "" /\ at + 1 = W!argc /\ W!Skip(2)
    BY <1>13 DEF W!LastArgument, W!Checking
  <2>2. at' = at + 2 /\ UNCHANGED <<W!given, stage, warnings>>
    BY <2>1 DEF W!Skip, W!given
  <2>3. stage = "check" /\ at < W!argc /\ ~W!IsPath(at) /\ Before(at + 1) = Before(at) \cup PathOf(at)
    BY <1>9, <2>1, <2>2
  <2>4. PathOf(at) = {}
    BY <2>1, <2>3 DEF PathOf
  <2>5. Before(at + 1) = W!Searched /\ Before(at') = W!Searched /\ ~(at' < W!argc)
    <3>0. at \in Nat /\ at' = at + 2 /\ W!argc = at + 1
      BY <1>0, <2>1, <2>2
    <3>1. at + 1 \in Nat /\ at + 1 >= W!argc /\ at' \in Nat /\ at' >= W!argc /\ ~(at' < W!argc)
      BY ONLY <3>0
    <3> QED BY <1>0, <3>1, BeforeIs
  <2>6. Before(at') = Before(at) \cup {}
    BY <2>3, <2>4, <2>5
  <2> QED BY <2>2, <2>3, <2>5, <2>6, LoopStep
<1>14. CASE UNCHANGED W!vars
  BY <1>4, <1>14 DEF W!vars
<1> QED BY <1>5, <1>6, <1>7, <1>8, <1>10, <1>11, <1>12, <1>13, <1>14 DEF W!Next

(***************************************************************************)
(* Every path of -I and -L is judged, stuck to its option or after it, and *)
(* nothing else is: the unsafe ones are reported, or, if the environment   *)
(* asks for it, the call is refused if and only if there is one; for any   *)
(* command line.                                                           *)
(***************************************************************************)
THEOREM PathsJudged ==
    ASSUME W!BuildsAssumption, W!CommandsAssumption
    PROVE  W!Spec => []W!PathsAreJudged
<1>1. W!Init => Filled /\ Judged
  BY FilledInit, JudgedInit
<1>2. Filled /\ Judged /\ [W!Next]_W!vars => (Filled /\ Judged)'
  BY FilledNext, JudgedNext
<1>3. Judged => W!PathsAreJudged
  BY DEF Judged, W!PathsAreJudged
<1> QED BY <1>1, <1>2, <1>3, PTL DEF W!Spec

LEMMA WrapperInit == Init /\ what = "wrapper" => W!Init
  BY DEF Init

LEMMA WrapperStep == [Next]_vars /\ what = "wrapper" => [W!Next]_W!vars /\ (what = "wrapper")'
<1> SUFFICES ASSUME [Next]_vars, what = "wrapper" PROVE [W!Next]_W!vars /\ (what = "wrapper")'
  OBVIOUS
<1>1. CASE WrapperNext
  BY <1>1 DEF WrapperNext, shared
<1>2. CASE Ended \/ UNCHANGED vars
  BY <1>2 DEF Ended, vars, shared, wrapper, W!vars
<1> QED BY <1>1, <1>2 DEF Next, PatchesNext, UsersNext, ServicesNext, ImagesNext

\* toolchain-wrapper.c passes on what it was given, in an array that is long
\* enough, and judges each path to search.
THEOREM PassesOn == Spec => []WrapperPassesOn
<1>1. W!BuildsAssumption
  BY WrapperAssumption
<1>2. W!CommandsAssumption
  BY WrapperAssumption
<1>3. W!Spec => []W!ArrayHolds
  BY <1>1, <1>2, Holds, PTL
<1>4. W!Spec => []W!ArgumentsAsGiven
  BY <1>1, <1>2, AsGiven, PTL
<1>5. W!Spec => []W!PathsAreJudged
  BY <1>1, <1>2, PathsJudged, PTL
<1>6. Spec /\ what = "wrapper" => W!Spec
  BY WrapperInit, WrapperStep, PTL DEF Spec, W!Spec
<1>7. W!ArgumentsAsGiven /\ W!ArrayHolds /\ W!PathsAreJudged => WrapperPassesOn
  BY DEF WrapperPassesOn
<1>8. ~(what = "wrapper") => WrapperPassesOn
  BY DEF WrapperPassesOn
<1>9. [Next]_vars /\ ~(what = "wrapper") => ~(what = "wrapper")'
  BY DEF Next, Ended, PatchesNext, UsersNext, ServicesNext, ImagesNext, WrapperNext, vars, shared
<1> QED BY <1>3, <1>4, <1>5, <1>6, <1>7, <1>8, <1>9, PTL DEF Spec

(***************************************************************************)
(* The images of fs/common.mk.  The script that fakeroot runs is what the  *)
(* recipe wrote (ScriptInv), it runs on a target directory that belongs to *)
(* root (FileInv), and what it did so far is what its commands and the     *)
(* lines of makedevs say one after another (SoFar).                        *)
(***************************************************************************)
LEMMA PrefixIs ==
    ASSUME NEW T, NEW s \in Seq(T), NEW t \in Seq(T)
    PROVE  R!IsPrefix(s, t) <=> Len(s) <= Len(t) /\ \A i \in 1..Len(s) : s[i] = t[i]
BY DEF R!IsPrefix

LEMMA ParentIs ==
    ASSUME NEW T, NEW s \in Seq(T), s # <<>>
    PROVE  /\ R!Parent(s) \in Seq(T) /\ Len(s) \in Nat /\ Len(s) > 0 /\ Len(R!Parent(s)) = Len(s) - 1
           /\ \A i \in 1..(Len(s) - 1) : R!Parent(s)[i] = s[i]
<1>1. PICK t : t = R!Parent(s)
  OBVIOUS
<1>2. t = SubSeq(s, 1, Len(s) - 1)
  BY <1>1 DEF R!Parent, R!Front
<1>3. Len(s) \in Nat /\ Len(s) > 0
  OBVIOUS
<1>4. PICK n : n = Len(s) - 1
  OBVIOUS
<1>5. 1 \in 1..Len(s) + 1 /\ n \in (1 - 1)..Len(s) /\ n - 1 + 1 = n
  BY <1>3, <1>4
<1>6. t \in Seq(T) /\ Len(t) = n /\ \A i \in 1..n : t[i] = s[i]
  <2>1. t \in Seq(T) /\ Len(t) = n - 1 + 1 /\ \A i \in 1..n - 1 + 1 : t[i] = s[1 + i - 1]
    BY <1>2, <1>4, <1>5, SubSeqProperties
  <2> QED BY <1>5, <2>1
<1> QED BY <1>1, <1>3, <1>4, <1>6

\* A directory is a prefix of all that is below it.
LEMMA PrefixFacts ==
    ASSUME R!PathAssumption
    PROVE  /\ \A p \in Path : R!IsPrefix(p, p)
           /\ \A p, q, r \in Path : R!IsPrefix(p, q) /\ R!IsPrefix(q, r) => R!IsPrefix(p, r)
           /\ \A p, q \in Path : R!IsPrefix(p, q) /\ R!IsPrefix(q, p) => p = q
           /\ \A p, q \in Path : R!IsStrictPrefix(p, q) <=> R!IsPrefix(p, q) /\ p # q
<1>1. Path \subseteq Seq(R!Component)
  BY DEF R!PathAssumption
<1>2. \A p \in Path : R!IsPrefix(p, p)
  BY <1>1, PrefixIs
<1>3. \A p, q, r \in Path : R!IsPrefix(p, q) /\ R!IsPrefix(q, r) => R!IsPrefix(p, r)
  <2> SUFFICES ASSUME NEW p \in Path, NEW q \in Path, NEW r \in Path, R!IsPrefix(p, q), R!IsPrefix(q, r)
               PROVE  R!IsPrefix(p, r)
    OBVIOUS
  <2>1. Len(p) <= Len(q) /\ \A i \in 1..Len(p) : p[i] = q[i]
    BY <1>1, PrefixIs
  <2>2. Len(q) <= Len(r) /\ \A i \in 1..Len(q) : q[i] = r[i]
    BY <1>1, PrefixIs
  <2>3. Len(p) \in Nat /\ Len(q) \in Nat /\ Len(r) \in Nat
    BY <1>1
  <2>4. Len(p) <= Len(r) /\ \A i \in 1..Len(p) : p[i] = r[i]
    BY ONLY <2>1, <2>2, <2>3
  <2> QED BY <1>1, <2>4, PrefixIs
<1>4. \A p, q \in Path : R!IsStrictPrefix(p, q) <=> R!IsPrefix(p, q) /\ p # q
  BY DEF R!IsStrictPrefix
<1>5. \A p, q \in Path : R!IsPrefix(p, q) /\ R!IsPrefix(q, p) => p = q
  <2> SUFFICES ASSUME NEW p \in Path, NEW q \in Path, R!IsPrefix(p, q), R!IsPrefix(q, p)
               PROVE  p = q
    OBVIOUS
  <2>1. p \in Seq(R!Component) /\ q \in Seq(R!Component)
    BY <1>1
  <2>2. Len(p) <= Len(q) /\ \A i \in 1..Len(p) : p[i] = q[i]
    BY <1>1, PrefixIs
  <2>3. Len(q) <= Len(p)
    BY <1>1, PrefixIs
  <2>4. Len(p) = Len(q)
    BY ONLY <2>1, <2>2, <2>3
  <2> QED BY ONLY <2>1, <2>2, <2>4
<1> QED BY <1>2, <1>3, <1>4, <1>5

\* What is above a path is the directory it is in, or above that.
LEMMA AboveIs ==
    ASSUME R!PathAssumption, NEW p \in Path, NEW q \in Path, R!IsStrictPrefix(q, p)
    PROVE  R!Parent(p) \in Path /\ (q = R!Parent(p) \/ R!IsStrictPrefix(q, R!Parent(p)))
<1>1. p \in Seq(R!Component) /\ q \in Seq(R!Component) /\ p # <<>> /\ q # <<>>
  BY DEF R!PathAssumption
<1>2. PICK d : d = R!Parent(p)
  OBVIOUS
<1>3. /\ d \in Seq(R!Component) /\ Len(p) \in Nat /\ Len(p) > 0 /\ Len(d) = Len(p) - 1
      /\ \A i \in 1..(Len(p) - 1) : d[i] = p[i]
  BY <1>1, <1>2, ParentIs
<1>4. R!IsPrefix(q, p) /\ q # p
  BY DEF R!IsStrictPrefix
<1>5. Len(q) <= Len(p) /\ \A i \in 1..Len(q) : q[i] = p[i]
  BY <1>1, <1>4, PrefixIs
<1>6. Len(q) \in Nat /\ Len(q) > 0
  BY <1>1
<1>7. Len(q) # Len(p)
  <2> SUFFICES ASSUME Len(q) = Len(p) PROVE q = p
    BY <1>4
  <2> QED BY <1>1, <1>5
<1>8. Len(q) <= Len(d) /\ \A i \in 1..Len(q) : q[i] = d[i]
  BY ONLY <1>3, <1>5, <1>6, <1>7
<1>9. R!IsPrefix(q, d)
  BY ONLY <1>1, <1>3, <1>8, PrefixIs
<1>10. d # <<>>
  BY <1>3, <1>6, <1>8
<1>11. d \in Path
  BY <1>2, <1>10 DEF R!PathAssumption
<1> QED BY <1>2, <1>9, <1>11 DEF R!IsStrictPrefix

LEMMA NothingAboveWarning ==
    ASSUME R!PathAssumption, R!TargetAssumption
    PROVE  Warning \in Path /\ \A q \in Path : ~R!IsStrictPrefix(q, Warning)
<1>1. Warning \in Path /\ R!Parent(Warning) = <<>>
  BY DEF R!TargetAssumption
<1>2. <<>> \notin Path
  BY DEF R!PathAssumption
<1> QED BY <1>1, <1>2, AboveIs

-----------------------------------------------------------------------------
(***************************************************************************)
(* File systems, and what makedevs does to them.                           *)
(***************************************************************************)
Kinds == {"d", "f"} \cup R!Devices
IsNode(n) ==
    n = R!NoNode \/ \E kind \in Kinds : \E mode, owner, group, dev : n = R!Node(kind, mode, owner, group, dev)
Typed(fs) == fs = [p \in Path |-> fs[p]] /\ \A p \in Path : IsNode(fs[p])

LEMMA NodeFacts ==
    /\ \A n : IsNode(n) => (n # R!NoNode <=> n.kind # "none") /\ n.kind \in Kinds \cup {"none"}
    /\ \A kind \in Kinds : \A mode, owner, group, dev :
          LET n == R!Node(kind, mode, owner, group, dev)
          IN  /\ IsNode(n) /\ n # R!NoNode
              /\ n.kind = kind /\ n.mode = mode /\ n.uid = owner /\ n.gid = group /\ n.dev = dev
    /\ IsNode(R!NoNode)
    /\ R!NoNode.kind = "none" /\ R!NoNode.mode = 0 /\ R!NoNode.uid = 0 /\ R!NoNode.gid = 0
       /\ R!NoNode.dev = <<0, 0>>
<1>1. ASSUME NEW kind, NEW mode, NEW owner, NEW group, NEW dev
      PROVE  LET n == R!Node(kind, mode, owner, group, dev)
             IN  n.kind = kind /\ n.mode = mode /\ n.uid = owner /\ n.gid = group /\ n.dev = dev
  BY DEF R!Node
<1>2. R!NoNode.kind = "none" /\ R!NoNode.mode = 0 /\ R!NoNode.uid = 0 /\ R!NoNode.gid = 0
      /\ R!NoNode.dev = <<0, 0>>
  BY DEF R!NoNode
<1>3. "none" \notin Kinds
  BY DEF Kinds, R!Devices
<1>4. ASSUME NEW kind \in Kinds, NEW mode, NEW owner, NEW group, NEW dev
      PROVE  R!Node(kind, mode, owner, group, dev) # R!NoNode /\ IsNode(R!Node(kind, mode, owner, group, dev))
  BY <1>1, <1>2, <1>3, <1>4 DEF IsNode
<1>5. ASSUME NEW n, IsNode(n)
      PROVE  (n # R!NoNode <=> n.kind # "none") /\ n.kind \in Kinds \cup {"none"}
  BY <1>1, <1>2, <1>3, <1>5 DEF IsNode
<1>6. IsNode(R!NoNode)
  BY DEF IsNode
<1> QED BY <1>1, <1>2, <1>4, <1>5, <1>6

\* A node with another owner and mode
LEMMA SetFacts ==
    ASSUME NEW n, IsNode(n), n # R!NoNode, NEW l
    PROVE  /\ IsNode(R!Set(n, l)) /\ R!Set(n, l) # R!NoNode
           /\ R!Set(n, l).kind = n.kind /\ R!Set(n, l).dev = n.dev
           /\ R!Set(n, l).uid = R!IdOf(l.user) /\ R!Set(n, l).gid = R!IdOf(l.group)
           /\ R!Set(n, l).mode = IF l.mode = R!NoMode THEN n.mode ELSE l.mode
<1>1. PICK kind, mode, owner, group, dev : kind \in Kinds /\ n = R!Node(kind, mode, owner, group, dev)
  BY DEF IsNode
<1>2. PICK u, g, m : u = R!IdOf(l.user) /\ g = R!IdOf(l.group) /\ m = IF l.mode = R!NoMode THEN n.mode
           ELSE l.mode
  OBVIOUS
<1>3. PICK s : s = R!Set(n, l)
  OBVIOUS
<1>4. n.mode = mode /\ n.kind = kind /\ n.dev = dev
  BY <1>1, NodeFacts
<1>5. s = R!Node(kind, m, u, g, dev)
  <2>1. s = [n EXCEPT !.uid = u, !.gid = g, !.mode = m]
    BY <1>2, <1>3 DEF R!Set
  <2> QED BY ONLY <1>1, <2>1 DEF R!Node
<1>6. /\ IsNode(s) /\ s # R!NoNode
      /\ s.kind = kind /\ s.mode = m /\ s.uid = u /\ s.gid = g /\ s.dev = dev
  BY <1>1, <1>5, NodeFacts
<1> QED BY <1>2, <1>3, <1>4, <1>6

LEMMA IsSeen == ASSUME NEW fs, Typed(fs) PROVE \A p \in Path : R!Is(fs, p) <=> fs[p].kind # "none"
  BY NodeFacts DEF Typed, R!Is

\* What a line may do to a file system, whether it is an error or not
Safe(old, new) ==
    /\ Typed(new) /\ R!Whole(new)
    /\ \A p \in Path : R!Is(old, p) => R!Is(new, p)
    /\ Warning \in Path /\ R!Is(new, Warning) => R!Is(old, Warning)

OpenDirectory == R!Node("d", R!OpenModes, 0, 0, <<0, 0>>)

\* What a line that is not an error does to a path
EffectAt(old, new, l, p) ==
    /\ R!Is(new, p) <=> R!Is(old, p) \/ R!Makes(l, p)
    /\ p \notin R!Named(l) => new[p] = IF R!Is(old, p) \/ ~R!Makes(l, p) THEN old[p] ELSE OpenDirectory
    /\ p \in R!Named(l) /\ R!Is(new, p) =>
          /\ new[p].uid = R!IdOf(l.user) /\ new[p].gid = R!IdOf(l.group)
          /\ new[p].mode \in IF l.mode # R!NoMode THEN {l.mode}
                             ELSE IF R!Is(old, p) THEN {old[p].mode} ELSE {R!OpenModes, R!AllModes}
          /\ IF l.type \in R!Devices
             THEN new[p].kind = l.type /\ [path |-> p, dev |-> new[p].dev] \in R!Nodes(l)
             ELSE new[p].kind = (IF R!Is(old, p) THEN old[p].kind ELSE "d") /\ new[p].dev = old[p].dev
Effect(old, new, l) == \A p \in Path : EffectAt(old, new, l, p)

LEMMA SameIsSafe == ASSUME NEW fs, Typed(fs), R!Whole(fs) PROVE Safe(fs, fs)
  BY DEF Safe

\* Some of what is there gets another owner and mode.
SetIn(fs, where, l) == [p \in Path |-> IF p \in where THEN R!Set(fs[p], l) ELSE fs[p]]

LEMMA SetInFacts ==
    ASSUME NEW fs, Typed(fs), R!Whole(fs), NEW where, \A p \in Path : p \in where => R!Is(fs, p), NEW l
    PROVE  /\ Safe(fs, SetIn(fs, where, l))
           /\ \A p \in Path : R!Is(SetIn(fs, where, l), p) <=> R!Is(fs, p)
           /\ \A p \in Path : SetIn(fs, where, l)[p] = IF p \in where THEN R!Set(fs[p], l) ELSE fs[p]
<1>1. PICK new : new = SetIn(fs, where, l)
  OBVIOUS
<1>2. new = [p \in Path |-> IF p \in where THEN R!Set(fs[p], l) ELSE fs[p]]
  BY <1>1 DEF SetIn
<1>3. \A p \in Path : new[p] = IF p \in where THEN R!Set(fs[p], l) ELSE fs[p]
  BY ONLY <1>2
<1>4. ASSUME NEW p \in Path
      PROVE  IsNode(new[p]) /\ (R!Is(new, p) <=> R!Is(fs, p)) /\ new[p].kind = fs[p].kind
  <2>1. CASE p \in where
    <3>1. IsNode(fs[p]) /\ fs[p] # R!NoNode
      BY <2>1 DEF Typed, R!Is
    <3>2. new[p] = R!Set(fs[p], l)
      BY <1>3, <2>1
    <3>3. PICK n : n = fs[p]
      OBVIOUS
    <3>4. IsNode(n) /\ n # R!NoNode
      BY <3>1, <3>3
    <3>5. IsNode(R!Set(n, l)) /\ R!Set(n, l) # R!NoNode /\ R!Set(n, l).kind = n.kind
      BY ONLY <3>4, SetFacts
    <3> QED BY <3>1, <3>2, <3>3, <3>5 DEF R!Is
  <2>2. CASE p \notin where
    BY <1>3, <2>2 DEF Typed, R!Is
  <2> QED BY <2>1, <2>2
<1>5. new = [p \in Path |-> new[p]]
  BY <1>2
<1>6. Typed(new)
  BY <1>4, <1>5 DEF Typed
<1>7. R!Whole(new)
  BY <1>4 DEF R!Whole
<1> QED BY <1>1, <1>3, <1>4, <1>6, <1>7 DEF Safe

\* The directories on the way to a path are made.
LEMMA MadeFacts ==
    ASSUME R!PathAssumption, NEW fs, Typed(fs), R!Whole(fs), NEW p \in Path, NEW mode,
           ~R!IsPrefix(Warning, p)
    PROVE  LET made == R!MakeDirectory(fs, p, mode)
           IN  /\ Safe(fs, made)
               /\ \A q \in Path : R!Is(fs, q) \/ ~R!IsPrefix(q, p) => made[q] = fs[q]
               /\ R!Is(made, p) => \A q \in Path : ~R!Is(fs, q) /\ R!IsPrefix(q, p) =>
                     /\ q # p => made[q] = OpenDirectory
                     /\ q = p => made[q] = R!Node("d", IF mode = R!NoMode THEN R!AllModes
                        ELSE mode, 0, 0, <<0, 0>>)
<1>1. PICK made : made = R!MakeDirectory(fs, p, mode)
  OBVIOUS
<1> DEFINE Blocked == \E q \in Path : R!IsStrictPrefix(q, p) /\ R!Is(fs, q) /\ ~R!IsDir(fs, q)
           m == IF mode = R!NoMode THEN R!AllModes ELSE mode
           New(q) == R!Node("d", IF q # p THEN R!OpenModes ELSE m, 0, 0, <<0, 0>>)
<1>2. <<>> \notin Path
  BY DEF R!PathAssumption
<1>3. CASE Blocked
  <2>1. made = fs
    BY <1>1, <1>3 DEF R!MakeDirectory
  <2>2. ~R!Is(fs, p)
    <3>1. PICK q \in Path : R!IsStrictPrefix(q, p) /\ R!Is(fs, q) /\ ~R!IsDir(fs, q)
      BY <1>3
    <3>2. fs[q].kind # "d"
      BY <3>1 DEF R!IsDir
    <3> QED BY <3>1, <3>2 DEF R!Whole
  <2> QED BY <1>1, <2>1, <2>2, SameIsSafe
<1>4. CASE ~Blocked
  <2>1. made = [q \in Path |-> IF R!Is(fs, q) \/ ~R!IsPrefix(q, p) THEN fs[q] ELSE New(q)]
    BY <1>1, <1>4 DEF R!MakeDirectory
  <2>2. \A q \in Path : R!IsStrictPrefix(q, p) /\ R!Is(fs, q) => fs[q].kind = "d"
    BY <1>2, <1>4 DEF R!IsDir
  <2>3. \A q : IsNode(New(q)) /\ New(q) # R!NoNode /\ New(q).kind = "d"
    BY NodeFacts DEF Kinds
  <2>4. \A q : (q # p => New(q) = OpenDirectory) /\ New(p) = R!Node("d", m, 0, 0, <<0, 0>>)
    BY DEF OpenDirectory
  <2> HIDE DEF New, m, Blocked
  <2>5. \A q \in Path : made[q] = IF R!Is(fs, q) \/ ~R!IsPrefix(q, p) THEN fs[q] ELSE New(q)
    BY ONLY <2>1
  <2>6. Typed(made)
    BY <2>1, <2>3, <2>5 DEF Typed
  <2>7. \A q \in Path : R!Is(made, q) <=> R!Is(fs, q) \/ R!IsPrefix(q, p)
    BY <2>3, <2>5 DEF R!Is
  <2>8. R!Whole(made)
    <3> SUFFICES ASSUME NEW r \in Path, NEW q \in Path, R!Is(made, r), R!IsStrictPrefix(q, r)
                 PROVE  made[q].kind = "d"
      BY DEF R!Whole
    <3>1. CASE R!Is(fs, r)
      <4>1. fs[q].kind = "d"
        BY <3>1 DEF R!Whole
      <4>2. R!Is(fs, q)
        BY <4>1, IsSeen
      <4> QED BY <2>5, <4>1, <4>2
    <3>2. CASE R!IsPrefix(r, p)
      <4>1. R!IsPrefix(q, p) /\ q # p
        BY <3>2, PrefixFacts
      <4>2. R!Is(fs, q) => fs[q].kind = "d"
        BY <2>2, <4>1, PrefixFacts
      <4> QED BY <2>3, <2>5, <4>1, <4>2
    <3> QED BY <2>7, <3>1, <3>2
  <2>9. Safe(fs, made)
    BY <2>6, <2>7, <2>8 DEF Safe
  <2>10. \A q \in Path : ~R!Is(fs, q) /\ R!IsPrefix(q, p) => made[q] = New(q)
    BY <2>5
  <2> QED BY <1>1, <2>4, <2>5, <2>9, <2>10 DEF m
<1> QED BY <1>3, <1>4

-----------------------------------------------------------------------------
(***************************************************************************)
(* The lines of a device table.                                            *)
(***************************************************************************)
Outcome == Safe(fake, fake') /\ (ret' = 0 => ret = 0 /\ Effect(fake, fake', R!Current))

LEMMA DirLineOutcome ==
    ASSUME R!PathAssumption, Typed(fake), R!Whole(fake), R!LineAssumption(R!Current), R!DirLine
    PROVE  Outcome
<1>1. PICK l : l = R!Current
  OBVIOUS
<1>2. PICK made : made = R!MakeDirectory(fake, l.path, l.mode)
  OBVIOUS
<1>3. PICK p : p = l.path
  OBVIOUS
<1>4. l.type = "d" /\ p \in Path /\ ~R!IsPrefix(Warning, p)
  BY <1>1, <1>3 DEF R!DirLine, R!Applies, R!LineAssumption
<1>5. IF R!Is(made, p) THEN R!Turn([made EXCEPT ![p] = R!Set(@, l)], FALSE) ELSE R!Turn(made, TRUE)
  BY <1>1, <1>2, <1>3 DEF R!DirLine
<1>6. Safe(fake, made) /\ \A q \in Path : R!Is(fake, q) \/ ~R!IsPrefix(q, p) => made[q] = fake[q]
  BY <1>2, <1>3, <1>4, MadeFacts
<1>7. CASE ~R!Is(made, p)
  BY <1>5, <1>6, <1>7 DEF R!Turn, Outcome
<1>8. CASE R!Is(made, p)
  <2>1. PICK new : new = fake'
    OBVIOUS
  <2>2. new = [made EXCEPT ![p] = R!Set(@, l)] /\ (ret' = 0 => ret = 0)
    BY <1>5, <1>8, <2>1 DEF R!Turn
  <2>3. new = SetIn(made, {p}, l)
    BY <1>4, <1>6, <2>2 DEF SetIn, Safe, Typed
  <2>4. /\ Safe(made, new)
        /\ \A q \in Path : R!Is(new, q) <=> R!Is(made, q)
        /\ \A q \in Path : new[q] = IF q = p THEN R!Set(made[q], l) ELSE made[q]
    <3>1. Typed(made) /\ R!Whole(made) /\ \A q \in Path : q \in {p} => R!Is(made, q)
      BY <1>6, <1>8 DEF Safe
    <3>2. /\ Safe(made, SetIn(made, {p}, l))
          /\ \A q \in Path : R!Is(SetIn(made, {p}, l), q) <=> R!Is(made, q)
          /\ \A q \in Path : SetIn(made, {p}, l)[q] = IF q \in {p} THEN R!Set(made[q], l) ELSE made[q]
      BY ONLY <3>1, SetInFacts
    <3> QED BY ONLY <2>3, <3>2
  <2>5. Safe(fake, new)
    BY <1>6, <2>4 DEF Safe
  <2>6. \A q \in Path : ~R!Is(fake, q) /\ R!IsPrefix(q, p) =>
            /\ q # p => made[q] = OpenDirectory
            /\ q = p => made[q] = R!Node("d", IF l.mode = R!NoMode THEN R!AllModes ELSE l.mode, 0, 0, <<0, 0>>)
    BY <1>2, <1>3, <1>4, <1>8, MadeFacts
  <2>7. ASSUME NEW q \in Path
        PROVE  EffectAt(fake, new, l, q)
    <3>1. "d" \notin R!Devices /\ R!Named(l) = {p} /\ (R!Makes(l, q) <=> R!IsPrefix(q, p))
      BY <1>3, <1>4 DEF R!Devices, R!Named, R!Makes
    <3>2. OpenDirectory # R!NoNode
      BY NodeFacts DEF OpenDirectory, Kinds
    <3>3. R!Is(made, q) <=> R!Is(fake, q) \/ R!IsPrefix(q, p)
      BY <1>6, <1>8, <2>6, <3>2 DEF R!Is
    <3>4. CASE q # p
      BY <1>6, <2>4, <2>6, <3>1, <3>3, <3>4 DEF EffectAt
    <3>5. CASE q = p
      <4>1. PICK n : n = made[p]
        OBVIOUS
      <4>2. IsNode(n) /\ n # R!NoNode
        BY <1>4, <1>6, <1>8, <4>1 DEF Safe, Typed, R!Is
      <4>3. new[p] = R!Set(n, l)
        BY <1>4, <2>4, <4>1
      <4>4. /\ R!Set(n, l).kind = n.kind /\ R!Set(n, l).dev = n.dev
            /\ R!Set(n, l).uid = R!IdOf(l.user) /\ R!Set(n, l).gid = R!IdOf(l.group)
            /\ R!Set(n, l).mode = IF l.mode = R!NoMode THEN n.mode ELSE l.mode
        BY ONLY <4>2, SetFacts
      <4>5. CASE R!Is(fake, p)
        <5>1. n = fake[p]
          BY <1>4, <1>6, <4>1, <4>5
        <5> QED BY <1>4, <2>4, <3>1, <3>3, <3>5, <4>3, <4>4, <4>5, <5>1 DEF EffectAt
      <4>6. CASE ~R!Is(fake, p)
        <5>1. R!IsPrefix(p, p)
          BY <1>4, PrefixFacts
        <5>2. n = R!Node("d", IF l.mode = R!NoMode THEN R!AllModes ELSE l.mode, 0, 0, <<0, 0>>)
          BY <1>4, <2>6, <4>1, <4>6, <5>1
        <5>3. n.kind = "d" /\ n.dev = <<0, 0>> /\ n.mode = IF l.mode = R!NoMode THEN R!AllModes ELSE l.mode
          BY <5>2, NodeFacts DEF Kinds
        <5>4. fake[p].dev = <<0, 0>>
          BY <4>6, NodeFacts DEF R!Is
        <5> QED BY <1>4, <2>4, <3>1, <3>3, <3>5, <4>3, <4>4, <4>6, <5>1, <5>3, <5>4 DEF EffectAt
      <4> QED BY <4>5, <4>6
    <3> QED BY <3>4, <3>5
  <2>8. Effect(fake, new, l)
    BY <2>7 DEF Effect
  <2> QED BY <1>1, <2>1, <2>2, <2>5, <2>8 DEF Outcome
<1> QED BY <1>7, <1>8

\* Lines of the types f and r set what is there.
LEMMA SetEffect ==
    ASSUME NEW fs, Typed(fs), R!Whole(fs), NEW l, l.type \in {"f", "r"},
           NEW where, \A p \in Path : p \in where <=> p \in R!Named(l) /\ R!Is(fs, p)
    PROVE  Safe(fs, SetIn(fs, where, l)) /\ Effect(fs, SetIn(fs, where, l), l)
<1>1. PICK new : new = SetIn(fs, where, l)
  OBVIOUS
<1>2. /\ Safe(fs, new)
      /\ \A p \in Path : R!Is(new, p) <=> R!Is(fs, p)
      /\ \A p \in Path : new[p] = IF p \in where THEN R!Set(fs[p], l) ELSE fs[p]
  BY <1>1, SetInFacts
<1>3. l.type \notin R!Devices /\ \A p : ~R!Makes(l, p)
  BY DEF R!Devices, R!Makes
<1>4. ASSUME NEW p \in Path
      PROVE  EffectAt(fs, new, l, p)
  <2>1. CASE p \in where
    <3>1. PICK n : n = fs[p]
      OBVIOUS
    <3>2. IsNode(n) /\ n # R!NoNode
      BY <2>1, <3>1 DEF Typed, R!Is
    <3>3. new[p] = R!Set(n, l)
      BY <1>2, <2>1, <3>1
    <3>4. /\ R!Set(n, l).kind = n.kind /\ R!Set(n, l).dev = n.dev
          /\ R!Set(n, l).uid = R!IdOf(l.user) /\ R!Set(n, l).gid = R!IdOf(l.group)
          /\ R!Set(n, l).mode = IF l.mode = R!NoMode THEN n.mode ELSE l.mode
      BY ONLY <3>2, SetFacts
    <3>5. p \in R!Named(l) /\ R!Is(fs, p)
      BY <2>1
    <3> QED BY <1>2, <1>3, <3>1, <3>3, <3>4, <3>5 DEF EffectAt
  <2>2. CASE p \notin where
    <3>1. new[p] = fs[p] /\ ~(p \in R!Named(l) /\ R!Is(fs, p))
      BY <1>2, <2>2
    <3> QED BY <1>2, <1>3, <3>1 DEF EffectAt
  <2> QED BY <2>1, <2>2
<1> QED BY <1>1, <1>2, <1>4 DEF Effect

LEMMA FileLineOutcome ==
    ASSUME Typed(fake), R!Whole(fake), R!LineAssumption(R!Current), R!FileLine
    PROVE  Outcome
<1>1. PICK l : l = R!Current
  OBVIOUS
<1>2. PICK p : p = l.path
  OBVIOUS
<1>3. l.type = "f" /\ p \in Path
  BY <1>1, <1>2 DEF R!FileLine, R!Applies, R!LineAssumption
<1>4. IF fake[p].kind = "f" THEN R!Turn([fake EXCEPT ![p] = R!Set(@, l)], FALSE) ELSE R!Turn(fake, TRUE)
  BY <1>1, <1>2 DEF R!FileLine
<1>5. CASE fake[p].kind # "f"
  BY <1>4, <1>5, SameIsSafe DEF R!Turn, Outcome
<1>6. CASE fake[p].kind = "f"
  <2>1. PICK new : new = fake'
    OBVIOUS
  <2>2. new = [fake EXCEPT ![p] = R!Set(@, l)] /\ (ret' = 0 => ret = 0)
    BY <1>4, <1>6, <2>1 DEF R!Turn
  <2>3. new = SetIn(fake, {p}, l)
    BY <1>3, <2>2 DEF SetIn, Typed
  <2>4. R!Is(fake, p)
    BY <1>3, <1>6, IsSeen
  <2>5. R!Named(l) = {p}
    BY <1>2, <1>3 DEF R!Named, R!Devices
  <2>6. \A q \in Path : q \in {p} <=> q \in R!Named(l) /\ R!Is(fake, q)
    BY <2>4, <2>5
  <2>7. Safe(fake, new) /\ Effect(fake, new, l)
    BY <1>3, <2>3, <2>6, SetEffect
  <2> QED BY <1>1, <2>1, <2>2, <2>7 DEF Outcome
<1> QED BY <1>5, <1>6

LEMMA RecursiveLineOutcome ==
    ASSUME Typed(fake), R!Whole(fake), R!LineAssumption(R!Current), R!RecursiveLine
    PROVE  Outcome
<1>1. PICK l : l = R!Current
  OBVIOUS
<1>2. PICK p : p = l.path
  OBVIOUS
<1>3. l.type = "r" /\ p \in Path
  BY <1>1, <1>2 DEF R!RecursiveLine, R!Applies, R!LineAssumption
<1>4. R!Turn([q \in Path |-> IF q \in R!Below(p) /\ R!Is(fake, p) /\ R!Is(fake, q) THEN R!Set(fake[q], l)
      ELSE fake[q]],
           ~R!Is(fake, p))
  BY <1>1, <1>2 DEF R!RecursiveLine
<1>5. PICK new : new = fake'
  OBVIOUS
<1>6. /\ new = [q \in Path |-> IF q \in R!Below(p) /\ R!Is(fake, p) /\ R!Is(fake, q) THEN R!Set(fake[q], l)
         ELSE fake[q]]
      /\ ret' = 0 => ret = 0 /\ R!Is(fake, p)
  BY <1>4, <1>5 DEF R!Turn
<1>7. CASE ~R!Is(fake, p)
  <2>1. new = fake
    BY <1>6, <1>7 DEF Typed
  <2> QED BY <1>5, <1>6, <1>7, <2>1, SameIsSafe DEF Outcome
<1>8. CASE R!Is(fake, p)
  <2>1. PICK where : where = {q \in R!Below(p) : R!Is(fake, q)}
    OBVIOUS
  <2>2. new = SetIn(fake, where, l)
    BY <1>6, <1>8, <2>1 DEF SetIn
  <2>3. R!Named(l) = R!Below(p)
    BY <1>2, <1>3 DEF R!Named, R!Devices
  <2>4. Safe(fake, new) /\ Effect(fake, new, l)
    BY <1>3, <2>1, <2>2, <2>3, SetEffect
  <2> QED BY <1>1, <1>5, <1>6, <2>4 DEF Outcome
<1> QED BY <1>7, <1>8

LEMMA OtherLineOutcome ==
    ASSUME Typed(fake), R!Whole(fake), R!Comment \/ R!InvalidLine \/ R!UnknownName \/ R!OtherLine
    PROVE  Outcome
<1>1. CASE R!Comment
  <2>1. PICK l : l = R!Current
    OBVIOUS
  <2>2. l.type = "comment" /\ fake' = fake /\ ret' = ret
    BY <1>1, <2>1 DEF R!Comment, R!Turn
  <2>3. \A p : ~R!Makes(l, p) /\ p \notin R!Named(l)
    BY <2>2 DEF R!Makes, R!Named, R!Devices
  <2>4. Effect(fake, fake, l)
    BY <2>3 DEF Effect, EffectAt
  <2> QED BY <2>1, <2>2, <2>4, SameIsSafe DEF Outcome
<1>2. CASE R!InvalidLine \/ R!UnknownName \/ R!OtherLine
  <2>1. fake' = fake /\ ret' = 1
    BY <1>2 DEF R!InvalidLine, R!UnknownName, R!OtherLine, R!Turn
  <2> QED BY <2>1, SameIsSafe DEF Outcome
<1> QED BY <1>1, <1>2

LEMMA NodeLineOutcome ==
    ASSUME R!PathAssumption, R!TargetAssumption, Typed(fake), R!Whole(fake), R!LineAssumption(R!Current),
           R!NodeLine
    PROVE  Outcome
<1>1. PICK l : l = R!Current
  OBVIOUS
<1>2. PICK nodes : nodes = R!Nodes(l)
  OBVIOUS
<1>3. l.type \in R!Devices /\ \A n \in nodes : n.path \in Path \ {Warning}
  BY <1>1, <1>2 DEF R!NodeLine, R!Applies, R!LineAssumption
<1> DEFINE On(q) == \E n \in nodes : n.path = q
           Of(q) == CHOOSE n \in nodes : n.path = q
<1>4. R!Turn([q \in Path |-> IF On(q) THEN R!Mknod(Of(q), l) ELSE fake[q]], \E n \in nodes :
      ~R!CanMknod(n.path))
  BY <1>1, <1>2 DEF R!NodeLine
<1>5. PICK new : new = fake'
  OBVIOUS
<1>6. /\ new = [q \in Path |-> IF On(q) THEN R!Mknod(Of(q), l) ELSE fake[q]]
      /\ ret' = 0 => ret = 0 /\ \A n \in nodes : R!CanMknod(n.path)
  BY <1>4, <1>5 DEF R!Turn
<1>7. \A q : On(q) => Of(q) \in nodes /\ Of(q).path = q
  OBVIOUS
<1> HIDE DEF On, Of
<1>8. \A q \in Path : new[q] = IF On(q) THEN R!Mknod(Of(q), l) ELSE fake[q]
  BY ONLY <1>6
<1>9. ASSUME NEW q \in Path, On(q), R!CanMknod(q)
      PROVE  /\ IsNode(new[q]) /\ R!Is(new, q)
             /\ new[q].kind = l.type /\ new[q].mode = l.mode /\ new[q].dev = Of(q).dev
             /\ new[q].uid = R!IdOf(l.user) /\ new[q].gid = R!IdOf(l.group)
  <2>1. new[q] = R!Node(l.type, l.mode, R!IdOf(l.user), R!IdOf(l.group), Of(q).dev)
    BY <1>7, <1>8, <1>9 DEF R!Mknod
  <2>2. l.type \in Kinds
    BY <1>3 DEF Kinds
  <2> QED BY <2>1, <2>2, NodeFacts DEF R!Is
<1>10. ASSUME NEW q \in Path, ~On(q) \/ ~R!CanMknod(q)
       PROVE  IsNode(new[q]) /\ (R!Is(new, q) <=> R!Is(fake, q)) /\ new[q].kind = fake[q].kind
  <2>1. CASE ~On(q)
    BY <1>8, <2>1 DEF Typed, R!Is
  <2>2. CASE On(q)
    <3>1. PICK n : n = fake[q]
      OBVIOUS
    <3>2. new[q] = [n EXCEPT !.mode = IF R!Is(fake, q) THEN l.mode ELSE @]
      BY <1>7, <1>8, <1>10, <2>2, <3>1 DEF R!Mknod
    <3>3. IsNode(n)
      BY <3>1 DEF Typed
    <3>4. CASE n = R!NoNode
      <4>1. new[q] = [n EXCEPT !.mode = @]
        BY <3>1, <3>2, <3>4 DEF R!Is
      <4>2. new[q] = n
        BY ONLY <3>4, <4>1 DEF R!NoNode
      <4> QED BY <3>1, <3>3, <4>2 DEF R!Is
    <3>5. CASE n # R!NoNode
      <4>1. new[q] = [n EXCEPT !.mode = l.mode]
        BY <3>1, <3>2, <3>5 DEF R!Is
      <4>2. PICK kind, mode, owner, group, dev : kind \in Kinds /\ n = R!Node(kind, mode, owner, group, dev)
        BY <3>3, <3>5 DEF IsNode
      <4>3. new[q] = R!Node(kind, l.mode, owner, group, dev)
        BY ONLY <4>1, <4>2 DEF R!Node
      <4>4. IsNode(new[q]) /\ new[q] # R!NoNode /\ new[q].kind = kind /\ n.kind = kind
        BY <4>2, <4>3, NodeFacts
      <4> QED BY <3>1, <3>5, <4>4 DEF R!Is
    <3> QED BY <3>4, <3>5
  <2> QED BY <2>1, <2>2
<1>11. Typed(new)
  BY <1>6, <1>9, <1>10 DEF Typed
<1>12. \A q \in Path : fake[q].kind = "d" => new[q].kind = "d"
  BY <1>9, <1>10 DEF R!CanMknod
<1>13. R!Whole(new)
  <2> SUFFICES ASSUME NEW p \in Path, NEW q \in Path, R!Is(new, p), R!IsStrictPrefix(q, p)
               PROVE  new[q].kind = "d"
    BY DEF R!Whole
  <2>1. CASE R!Is(fake, p)
    BY <1>12, <2>1 DEF R!Whole
  <2>2. CASE ~R!Is(fake, p)
    <3>1. R!CanMknod(p)
      BY <1>10, <2>2
    <3>2. R!Parent(p) \in Path /\ (q = R!Parent(p) \/ R!IsStrictPrefix(q, R!Parent(p)))
      BY AboveIs
    <3>3. <<>> \notin Path
      BY DEF R!PathAssumption
    <3>4. fake[R!Parent(p)].kind = "d"
      BY <3>1, <3>2, <3>3 DEF R!CanMknod, R!IsDir
    <3>5. R!Is(fake, R!Parent(p))
      BY <3>2, <3>4, IsSeen
    <3>6. fake[q].kind = "d"
      BY <3>2, <3>4, <3>5 DEF R!Whole
    <3> QED BY <1>12, <3>6
  <2> QED BY <2>1, <2>2
<1>14. ~On(Warning)
  BY <1>3 DEF On
<1>15. Safe(fake, new)
  BY <1>9, <1>10, <1>11, <1>13, <1>14 DEF Safe
<1>16. ASSUME \A n \in nodes : R!CanMknod(n.path), NEW q \in Path
       PROVE  EffectAt(fake, new, l, q)
  <2>1. R!Named(l) = {n.path : n \in nodes}
    BY <1>2, <1>3 DEF R!Named, R!Devices
  <2>2. q \in R!Named(l) <=> On(q)
    BY <2>1 DEF On
  <2>3. R!Makes(l, q) <=> On(q)
    BY <1>3, <2>2 DEF R!Makes, R!Devices
  <2>4. CASE On(q)
    <3>1. Of(q) \in nodes /\ Of(q).path = q /\ R!CanMknod(q)
      BY <1>7, <1>16, <2>4
    <3>2. l.mode # R!NoMode
      BY <1>1, <1>3 DEF R!LineAssumption
    <3>3. [path |-> q, dev |-> Of(q).dev] \in nodes
      <4>1. \A n \in nodes : n = [path |-> n.path, dev |-> n.dev]
        BY <1>2 DEF R!Nodes
      <4> QED BY <3>1, <4>1
    <3>4. /\ R!Is(new, q)
          /\ new[q].kind = l.type /\ new[q].mode = l.mode /\ new[q].dev = Of(q).dev
          /\ new[q].uid = R!IdOf(l.user) /\ new[q].gid = R!IdOf(l.group)
      BY <1>9, <2>4, <3>1
    <3> QED BY <1>2, <1>3, <2>2, <2>3, <2>4, <3>2, <3>3, <3>4 DEF EffectAt
  <2>5. CASE ~On(q)
    <3>1. new[q] = fake[q]
      BY <1>8, <2>5
    <3> QED BY <2>2, <2>3, <2>5, <3>1 DEF EffectAt, R!Is
  <2> QED BY <2>4, <2>5
<1> QED BY <1>1, <1>5, <1>6, <1>15, <1>16 DEF Outcome, Effect

LEMMA ReadLineOutcome ==
    ASSUME R!PathAssumption, R!TargetAssumption, Typed(fake), R!Whole(fake), R!LineAssumption(R!Current),
           R!ReadLine
    PROVE  Outcome
<1>1. CASE R!Comment \/ R!InvalidLine \/ R!UnknownName \/ R!OtherLine
  BY <1>1, OtherLineOutcome
<1>2. CASE R!DirLine
  BY <1>2, DirLineOutcome
<1>3. CASE R!FileLine
  BY <1>3, FileLineOutcome
<1>4. CASE R!RecursiveLine
  BY <1>4, RecursiveLineOutcome
<1>5. CASE R!NodeLine
  BY <1>5, NodeLineOutcome
<1> QED BY <1>1, <1>2, <1>3, <1>4, <1>5 DEF R!ReadLine

\* The line after the one that is read, or none after an error
LEMMA ReadLineCounts ==
    ASSUME R!ReadLine, read \in Nat, Len(dtable) \in Nat, ret \in {0, 1}
    PROVE  /\ read + 1 \in 1..Len(dtable) /\ read' \in 0..Len(dtable) /\ ret' \in {0, 1}
           /\ ret' = 0 => read' = read + 1
<1>1. read < Len(dtable)
  BY DEF R!ReadLine, R!Comment, R!InvalidLine, R!UnknownName, R!OtherLine, R!DirLine, R!FileLine,
     R!RecursiveLine, R!NodeLine,
    R!Applies, R!Reads
<1>2. \/ read' = read + 1 /\ (ret' = ret \/ ret' = 1)
      \/ read' = Len(dtable) /\ ret' = 1
  <2>1. CASE R!UnknownName
    BY <2>1 DEF R!UnknownName
  <2>2. CASE ~R!UnknownName
    <3>1. PICK fs, error : R!Turn(fs, error)
      <4>1. CASE R!Comment \/ R!InvalidLine \/ R!OtherLine
        BY <4>1 DEF R!Comment, R!InvalidLine, R!OtherLine
      <4>2. CASE R!DirLine \/ R!FileLine
        BY <4>2 DEF R!DirLine, R!FileLine
      <4>3. CASE R!RecursiveLine \/ R!NodeLine
        BY <4>3 DEF R!RecursiveLine, R!NodeLine
      <4> QED BY <2>2, <4>1, <4>2, <4>3 DEF R!ReadLine
    <3> QED BY <3>1 DEF R!Turn
  <2> QED BY <2>1, <2>2
<1> QED BY <1>1, <1>2

-----------------------------------------------------------------------------
(***************************************************************************)
(* What the lines of a table make together, one line after the other.      *)
(***************************************************************************)
LEMMA LastIs ==
    ASSUME NEW n \in Nat, NEW s \in SUBSET (1..n)
    PROVE  R!Max(s \cup {n + 1}) = n + 1
<1>1. PICK t : t = s \cup {n + 1}
  OBVIOUS
<1>2. n + 1 \in t /\ \A y \in t : n + 1 >= y
  BY <1>1
<1>3. \A x \in t : (\A y \in t : x >= y) => x = n + 1
  BY <1>1, <1>2
<1>4. R!Max(t) = n + 1
  BY ONLY <1>2, <1>3 DEF R!Max
<1> QED BY <1>1, <1>4

IdIn(known, id) == IF id[1] = "number" THEN id[2] ELSE known[id[2]]

\* The owner, mode and device that lines leave at a path, by those that are
\* about it, give a mode and make a device
AsLines(known, old, new, p, lines, about, modes, devices) ==
    /\ R!Is(new, p)
    /\ <<new[p].uid, new[p].gid>> =
           IF about = {} THEN <<old[p].uid, old[p].gid>>
           ELSE <<IdIn(known, lines[R!Max(about)].user), IdIn(known, lines[R!Max(about)].group)>>
    /\ new[p].mode \in
           IF modes # {} THEN {lines[R!Max(modes)].mode}
           ELSE IF R!Is(old, p) THEN {old[p].mode} ELSE {R!OpenModes, R!AllModes}
    /\ IF devices # {}
       THEN /\ new[p].kind = lines[R!Max(devices)].type
            /\ [path |-> p, dev |-> new[p].dev] \in R!Nodes(lines[R!Max(devices)])
       ELSE /\ new[p].kind = IF R!Is(old, p) THEN old[p].kind ELSE "d"
            /\ new[p].dev = old[p].dev

Modes(lines, about) == {i \in about : lines[i].mode # R!NoMode}
DeviceLines(lines, about) == {i \in about : lines[i].type \in R!Devices}
AsTableAt(known, b, a, lines, n, p) ==
    LET about == R!About(b, lines, n, p)
    IN  IF ~R!There(b, lines, n, p) THEN a[p] = R!NoNode
        ELSE AsLines(known, b, a, p, lines, about, Modes(lines, about), DeviceLines(lines, about))
AsTableIn(known, b, a, lines, n) == \A p \in Path : AsTableAt(known, b, a, lines, n, p)

LEMMA AsTableIs ==
    ASSUME NEW b, NEW a, NEW lines, NEW n
    PROVE  R!AsTable(b, a, lines, n) <=> AsTableIn(accounts, b, a, lines, n)
BY DEF R!AsTable, AsTableIn, AsTableAt, AsLines, IdIn, R!IdOf, Modes, DeviceLines

LEMMA OneMoreLine ==
    ASSUME NEW b, NEW lines, NEW n \in Nat, NEW p \in Path
    PROVE  /\ R!There(b, lines, n + 1, p) <=> R!There(b, lines, n, p) \/ R!Makes(lines[n + 1], p)
           /\ R!About(b, lines, n, p) \in SUBSET (1..n)
           /\ ~R!There(b, lines, n, p) => ~R!Is(b, p) /\ R!About(b, lines, n, p) = {}
           /\ R!About(b, lines, n + 1, p) =
                  IF p \in R!Named(lines[n + 1]) /\ R!There(b, lines, n + 1, p)
                  THEN R!About(b, lines, n, p) \cup {n + 1} ELSE R!About(b, lines, n, p)
<1>1. 1..(n + 1) = 1..n \cup {n + 1}
  OBVIOUS
<1>2. R!There(b, lines, n + 1, p) <=> R!There(b, lines, n, p) \/ R!Makes(lines[n + 1], p)
  BY <1>1 DEF R!There
<1>3. R!About(b, lines, n, p) \in SUBSET (1..n)
  BY DEF R!About
<1>4. \A i \in 1..n : R!There(b, lines, i, p) => R!There(b, lines, n, p)
  <2>1. \A i \in 1..n : 1..i \in SUBSET (1..n)
    OBVIOUS
  <2> QED BY <2>1 DEF R!There
<1>5. ~R!There(b, lines, n, p) => ~R!Is(b, p) /\ R!About(b, lines, n, p) = {}
  BY <1>4 DEF R!There, R!About
<1>6. R!About(b, lines, n + 1, p) = R!About(b, lines, n, p) \cup
          {i \in {n + 1} : p \in R!Named(lines[i]) /\ R!There(b, lines, i, p)}
  <2> DEFINE In(i) == p \in R!Named(lines[i]) /\ R!There(b, lines, i, p)
  <2>1. R!About(b, lines, n, p) = {i \in 1..n : In(i)}
        /\ R!About(b, lines, n + 1, p) = {i \in 1..(n + 1) : In(i)}
    BY DEF R!About
  <2> HIDE DEF In
  <2>2. {i \in 1..(n + 1) : In(i)} = {i \in 1..n : In(i)} \cup {i \in {n + 1} : In(i)}
    BY <1>1
  <2> QED BY <2>1, <2>2 DEF In
<1> QED BY <1>2, <1>3, <1>5, <1>6

LEMMA NoLines ==
    ASSUME NEW b, NEW lines
    PROVE  AsTableIn(accounts, b, b, lines, 0)
<1>1. 1..0 = {}
  OBVIOUS
<1>2. ASSUME NEW p \in Path
      PROVE  AsTableAt(accounts, b, b, lines, 0, p)
  <2>1. R!There(b, lines, 0, p) <=> R!Is(b, p)
    BY <1>1 DEF R!There
  <2>2. R!About(b, lines, 0, p) = {}
    BY <1>1 DEF R!About
  <2>3. Modes(lines, {}) = {} /\ DeviceLines(lines, {}) = {}
    BY DEF Modes, DeviceLines
  <2> QED BY <2>1, <2>2, <2>3 DEF AsTableAt, AsLines, R!Is
<1> QED BY <1>2 DEF AsTableIn

LEMMA OpenDirectoryIs ==
    /\ OpenDirectory.kind = "d" /\ OpenDirectory.mode = R!OpenModes
    /\ OpenDirectory.uid = 0 /\ OpenDirectory.gid = 0 /\ OpenDirectory.dev = <<0, 0>>
BY DEF OpenDirectory, R!Node

LEMMA LineAtPath ==
    ASSUME NEW b, NEW old, NEW new, NEW lines, NEW n \in Nat, NEW p \in Path,
           AsTableAt(accounts, b, old, lines, n, p), EffectAt(old, new, lines[n + 1], p)
    PROVE  AsTableAt(accounts, b, new, lines, n + 1, p)
<1>1. PICK l : l = lines[n + 1]
  OBVIOUS
<1>2. PICK about : about = R!About(b, lines, n, p)
  OBVIOUS
<1>3. PICK about2 : about2 = R!About(b, lines, n + 1, p)
  OBVIOUS
<1>4. PICK modes : modes = Modes(lines, about)
  OBVIOUS
<1>5. PICK devices : devices = DeviceLines(lines, about)
  OBVIOUS
<1>6. /\ R!There(b, lines, n + 1, p) <=> R!There(b, lines, n, p) \/ R!Makes(l, p)
      /\ about \in SUBSET (1..n)
      /\ ~R!There(b, lines, n, p) => ~R!Is(b, p) /\ about = {}
      /\ about2 = IF p \in R!Named(l) /\ R!There(b, lines, n + 1, p) THEN about \cup {n + 1} ELSE about
  BY ONLY <1>1, <1>2, <1>3, n \in Nat, p \in Path, OneMoreLine
<1>7. IF ~R!There(b, lines, n, p) THEN old[p] = R!NoNode
      ELSE AsLines(accounts, b, old, p, lines, about, modes, devices)
  BY <1>2, <1>4, <1>5 DEF AsTableAt
<1>8. R!Is(old, p) <=> R!There(b, lines, n, p)
  BY <1>7 DEF AsLines, R!Is
<1>9. EffectAt(old, new, l, p)
  BY <1>1
<1>10. R!Is(new, p) <=> R!There(b, lines, n + 1, p)
  BY <1>6, <1>8, <1>9 DEF EffectAt
<1>11. ~R!There(b, lines, n, p) => b[p] = R!NoNode /\ old[p] = R!NoNode
  BY <1>6, <1>7 DEF R!Is
<1>12. modes = {i \in about : lines[i].mode # R!NoMode} /\ devices = {i \in about : lines[i].type \in R!Devices}
  BY <1>4, <1>5 DEF Modes, DeviceLines
<1>13. CASE ~R!There(b, lines, n + 1, p)
  BY <1>10, <1>13 DEF AsTableAt, R!Is
<1>14. CASE R!There(b, lines, n + 1, p) /\ p \notin R!Named(l)
  <2>1. about2 = about
    BY <1>6, <1>14
  <2>2. CASE R!There(b, lines, n, p)
    <3>1. new[p] = old[p]
      BY <1>8, <1>9, <1>14, <2>2 DEF EffectAt
    <3>2. AsLines(accounts, b, new, p, lines, about, modes, devices)
      BY <1>7, <2>2, <3>1 DEF AsLines, R!Is
    <3> QED BY <1>3, <1>4, <1>5, <1>14, <2>1, <3>2 DEF AsTableAt
  <2>3. CASE ~R!There(b, lines, n, p)
    <3>1. new[p] = OpenDirectory
      BY <1>6, <1>8, <1>9, <1>14, <2>3 DEF EffectAt
    <3>2. /\ new[p].kind = "d" /\ new[p].mode = R!OpenModes /\ new[p].uid = 0 /\ new[p].gid = 0
          /\ new[p].dev = <<0, 0>>
      BY ONLY <3>1, OpenDirectoryIs
    <3>3. b[p].uid = 0 /\ b[p].gid = 0 /\ b[p].dev = <<0, 0>> /\ ~R!Is(b, p)
      BY <1>6, <1>11, <2>3, NodeFacts
    <3>4. about = {} /\ modes = {} /\ devices = {}
      BY <1>6, <1>12, <2>3
    <3>5. AsLines(accounts, b, new, p, lines, about, modes, devices)
      BY <1>10, <1>14, <3>2, <3>3, <3>4 DEF AsLines
    <3> QED BY <1>3, <1>4, <1>5, <1>14, <2>1, <3>5 DEF AsTableAt
  <2> QED BY <2>2, <2>3
<1>15. CASE R!There(b, lines, n + 1, p) /\ p \in R!Named(l)
  <2>1. about2 = about \cup {n + 1} /\ about2 # {} /\ R!Max(about2) = n + 1
    BY <1>6, <1>15, LastIs
  <2>2. PICK modes2 : modes2 = Modes(lines, about2)
    OBVIOUS
  <2>3. PICK devices2 : devices2 = DeviceLines(lines, about2)
    OBVIOUS
  <2>4. modes \in SUBSET (1..n) /\ devices \in SUBSET (1..n)
    BY <1>6, <1>12
  <2>5. IF l.mode # R!NoMode THEN modes2 # {} /\ R!Max(modes2) = n + 1 ELSE modes2 = modes
    <3>1. modes2 = {i \in about \cup {n + 1} : lines[i].mode # R!NoMode}
      BY <2>1, <2>2 DEF Modes
    <3>2. modes2 = IF l.mode # R!NoMode THEN modes \cup {n + 1} ELSE modes
      BY <1>1, <1>12, <3>1
    <3> QED BY <2>4, <3>2, LastIs
  <2>6. IF l.type \in R!Devices THEN devices2 # {} /\ R!Max(devices2) = n + 1 ELSE devices2 = devices
    <3>1. devices2 = {i \in about \cup {n + 1} : lines[i].type \in R!Devices}
      BY <2>1, <2>3 DEF DeviceLines
    <3>2. devices2 = IF l.type \in R!Devices THEN devices \cup {n + 1} ELSE devices
      BY <1>1, <1>12, <3>1
    <3> QED BY <2>4, <3>2, LastIs
  <2>7. R!Is(new, p)
    BY <1>10, <1>15
  <2>8. /\ new[p].uid = R!IdOf(l.user) /\ new[p].gid = R!IdOf(l.group)
        /\ new[p].mode \in IF l.mode # R!NoMode THEN {l.mode}
                           ELSE IF R!Is(old, p) THEN {old[p].mode} ELSE {R!OpenModes, R!AllModes}
        /\ IF l.type \in R!Devices
           THEN new[p].kind = l.type /\ [path |-> p, dev |-> new[p].dev] \in R!Nodes(l)
           ELSE new[p].kind = (IF R!Is(old, p) THEN old[p].kind ELSE "d") /\ new[p].dev = old[p].dev
    BY <1>9, <1>15, <2>7 DEF EffectAt
  <2>9. <<new[p].uid, new[p].gid>> =
            <<IdIn(accounts, lines[R!Max(about2)].user), IdIn(accounts, lines[R!Max(about2)].group)>>
    BY <1>1, <2>1, <2>8 DEF IdIn, R!IdOf
  <2>10. new[p].mode \in IF modes2 # {} THEN {lines[R!Max(modes2)].mode}
                         ELSE IF R!Is(b, p) THEN {b[p].mode} ELSE {R!OpenModes, R!AllModes}
    <3>1. CASE l.mode # R!NoMode
      BY <1>1, <2>5, <2>8, <3>1
    <3>2. CASE l.mode = R!NoMode /\ R!There(b, lines, n, p)
      <4>1. new[p].mode = old[p].mode
        BY <1>8, <2>8, <3>2
      <4> QED BY <1>7, <2>5, <3>2, <4>1 DEF AsLines
    <3>3. CASE l.mode = R!NoMode /\ ~R!There(b, lines, n, p)
      <4>1. modes2 = {}
        BY <1>6, <1>12, <2>5, <3>3
      <4> QED BY <1>6, <1>8, <2>8, <3>3, <4>1
    <3> QED BY <3>1, <3>2, <3>3
  <2>11. IF devices2 # {}
         THEN /\ new[p].kind = lines[R!Max(devices2)].type
              /\ [path |-> p, dev |-> new[p].dev] \in R!Nodes(lines[R!Max(devices2)])
         ELSE /\ new[p].kind = IF R!Is(b, p) THEN b[p].kind ELSE "d"
              /\ new[p].dev = b[p].dev
    <3>1. CASE l.type \in R!Devices
      BY <1>1, <2>6, <2>8, <3>1
    <3>2. CASE l.type \notin R!Devices /\ R!There(b, lines, n, p)
      <4>1. new[p].kind = old[p].kind /\ new[p].dev = old[p].dev
        BY <1>8, <2>8, <3>2
      <4> QED BY <1>7, <2>6, <3>2, <4>1 DEF AsLines
    <3>3. CASE l.type \notin R!Devices /\ ~R!There(b, lines, n, p)
      <4>1. devices2 = {}
        BY <1>6, <1>12, <2>6, <3>3
      <4>2. new[p].kind = "d" /\ new[p].dev = old[p].dev
        BY <1>8, <2>8, <3>3
      <4>3. ~R!Is(b, p) /\ old[p] = b[p]
        BY <1>6, <1>11, <3>3
      <4> QED BY <4>1, <4>2, <4>3
    <3> QED BY <3>1, <3>2, <3>3
  <2>12. AsLines(accounts, b, new, p, lines, about2, modes2, devices2)
    BY <2>1, <2>7, <2>9, <2>10, <2>11 DEF AsLines
  <2> QED BY <1>3, <1>15, <2>2, <2>3, <2>12 DEF AsTableAt
<1> QED BY <1>13, <1>14, <1>15

LEMMA OneMoreEffect ==
    ASSUME NEW b, NEW old, NEW new, NEW lines, NEW n \in Nat,
           AsTableIn(accounts, b, old, lines, n), Effect(old, new, lines[n + 1])
    PROVE  AsTableIn(accounts, b, new, lines, n + 1)
BY LineAtPath DEF Effect, AsTableIn

-----------------------------------------------------------------------------
(***************************************************************************)
(* Sequences of which only that they are some is said                      *)
(***************************************************************************)
IsList(s) == \E T : s \in Seq(T)
Plus(s, x) == Append(s, x)
Joined(s, t) == s \o t
Rest(s) == Tail(s)

LEMMA PlusFacts ==
    ASSUME NEW s, IsList(s), NEW x
    PROVE  /\ IsList(Plus(s, x)) /\ Len(s) \in Nat /\ Len(Plus(s, x)) = Len(s) + 1
           /\ \A i \in 1..Len(s) : Plus(s, x)[i] = s[i]
           /\ Plus(s, x)[Len(s) + 1] = x
<1>1. PICK T : s \in Seq(T)
  BY DEF IsList
<1>2. s \in Seq(T \cup {x})
  BY <1>1
<1>3. PICK t : t = Plus(s, x)
  OBVIOUS
<1>4. /\ t \in Seq(T \cup {x}) /\ Len(s) \in Nat /\ Len(t) = Len(s) + 1
      /\ \A i \in 1..Len(s) : t[i] = s[i]
      /\ t[Len(s) + 1] = x
  BY <1>2, <1>3 DEF Plus
<1> QED BY <1>3, <1>4 DEF IsList

LEMMA JoinedFacts ==
    ASSUME NEW s, IsList(s), NEW t, IsList(t)
    PROVE  /\ IsList(Joined(s, t)) /\ Len(s) \in Nat /\ Len(t) \in Nat
           /\ Len(Joined(s, t)) = Len(s) + Len(t)
           /\ \A i \in 1..Len(s) : Joined(s, t)[i] = s[i]
           /\ \A i \in 1..Len(t) : Joined(s, t)[Len(s) + i] = t[i]
<1>1. PICK A, B : s \in Seq(A) /\ t \in Seq(B)
  BY DEF IsList
<1>2. PICK C : C = A \cup B
  OBVIOUS
<1>3. s \in Seq(C) /\ t \in Seq(C)
  BY <1>1, <1>2
<1>4. PICK j : j = Joined(s, t)
  OBVIOUS
<1>5. /\ j \in Seq(C) /\ Len(s) \in Nat /\ Len(t) \in Nat /\ Len(j) = Len(s) + Len(t)
      /\ \A i \in 1..Len(s) : j[i] = s[i]
      /\ \A i \in 1..Len(t) : j[Len(s) + i] = t[i]
  BY <1>3, <1>4 DEF Joined
<1> QED BY <1>4, <1>5 DEF IsList

LEMMA RestFacts ==
    ASSUME NEW s, IsList(s), s # <<>>
    PROVE  /\ IsList(Rest(s)) /\ Len(s) \in Nat /\ Len(s) > 0 /\ Len(Rest(s)) = Len(s) - 1
           /\ \A i \in 1..(Len(s) - 1) : Rest(s)[i] = s[i + 1]
<1>1. PICK T : s \in Seq(T)
  BY DEF IsList
<1>2. PICK r : r = Rest(s)
  OBVIOUS
<1>3. /\ r \in Seq(T) /\ Len(s) \in Nat /\ Len(s) > 0 /\ Len(r) = Len(s) - 1
      /\ \A i \in 1..(Len(s) - 1) : r[i] = s[i + 1]
  BY <1>1, <1>2 DEF Rest
<1> QED BY <1>2, <1>3 DEF IsList

-----------------------------------------------------------------------------
(***************************************************************************)
(* What belongs to root, and what to the users.                            *)
(***************************************************************************)
\* chown changes the owner of what is there.
To(n, id) == [n EXCEPT !.uid = id, !.gid = id]

\* As R!AddedBefore, for any table
Sooner(t, i, j) == IF t[i].auto = t[j].auto THEN i < j ELSE t[j].auto

\* What the lines of t whose numbers are in some make of fs
OwnedBy(t, some, fs) ==
    [p \in Path |->
        LET over == {i \in some : R!IsPrefix(t[i].home, p)}
            auto == {i \in over : t[i].auto}
            id == Uid[t[R!Max(IF auto # {} THEN auto ELSE over)].user]
        IN  IF over = {} \/ ~R!Is(fs, p) THEN fs[p] ELSE To(fs[p], id)]

OwnedByAll(t, fs) == OwnedBy(t, DOMAIN t, fs)

LEMMA OwnedIs == \A fs : R!Owned(fs) = OwnedByAll(utable, fs)
BY DEF R!Owned, OwnedByAll, OwnedBy, To

LEMMA MaxIs ==
    ASSUME NEW some \in SUBSET Int, NEW k \in some, \A i \in some : i # k => i < k
    PROVE  R!Max(some) = k
<1>1. \A i \in some : k >= i
  OBVIOUS
<1>2. \A x \in some : (\A y \in some : x >= y) => x = k
  OBVIOUS
<1> QED BY <1>1, <1>2 DEF R!Max

OfRoot(n) == n = R!NoNode \/ \E kind \in {"d", "f"} : \E mode : n = R!Node(kind, mode, 0, 0, <<0, 0>>)
AllOfRoot(fs) == fs = [p \in Path |-> fs[p]] /\ \A p \in Path : OfRoot(fs[p])

LEMMA OfRootIsNode == \A n : OfRoot(n) => IsNode(n)
BY DEF OfRoot, IsNode, Kinds

LEMMA AllOfRootTyped == ASSUME NEW fs, AllOfRoot(fs) PROVE Typed(fs)
BY OfRootIsNode DEF AllOfRoot, Typed

\* What is there is there for all, and the directories are directories.
LEMMA RealIs ==
    ASSUME NEW n, IsNode(n)
    PROVE  OfRoot(R!Real(n)) /\ (R!Real(n) = R!NoNode <=> n = R!NoNode)
           /\ (n.kind = "d" => R!Real(n).kind = "d")
<1>1. PICK r : r = R!Real(n)
  OBVIOUS
<1>2. CASE n = R!NoNode
  <2>1. r = R!Node("none", 0, 0, 0, <<0, 0>>)
    BY <1>1, <1>2, NodeFacts DEF R!Real
  <2>2. r = R!NoNode
    BY ONLY <2>1 DEF R!Node, R!NoNode
  <2> QED BY <1>1, <1>2, <2>2, NodeFacts DEF OfRoot
<1>3. CASE n # R!NoNode
  <2>1. PICK kind, mode, owner, group, dev : kind \in Kinds /\ n = R!Node(kind, mode, owner, group, dev)
    BY <1>3 DEF IsNode
  <2>2. n.kind = kind /\ n.mode = mode
    BY <2>1, NodeFacts
  <2>3. PICK shown \in {"d", "f"} : r = R!Node(shown, mode, 0, 0, <<0, 0>>) /\ (kind = "d" => shown = "d")
    <3>1. CASE kind \in R!Devices
      BY <1>1, <2>2, <3>1 DEF R!Real, R!Devices
    <3>2. CASE kind \in {"d", "f"}
      BY <1>1, <2>2, <3>2 DEF R!Real
    <3> QED BY <2>1, <3>1, <3>2 DEF Kinds
  <2>4. OfRoot(r) /\ r # R!NoNode /\ r.kind = shown
    BY <2>3, NodeFacts DEF OfRoot, Kinds
  <2> QED BY <1>1, <1>3, <2>2, <2>3, <2>4
<1> QED BY <1>2, <1>3

LEMMA TargetIsOfRoot == ASSUME R!TargetAssumption PROVE AllOfRoot(Target) /\ R!Whole(Target) /\ Typed(Target)
<1>1. PICK kinds : kinds = [p \in Path |-> Target[p].kind]
  OBVIOUS
<1>2. PICK modes : modes = [p \in Path |-> Target[p].mode]
  OBVIOUS
<1>3. \A p \in Path : Target[p].kind = kinds[p] /\ Target[p].mode = modes[p]
  BY <1>1, <1>2
<1>4. Target = [p \in Path |-> R!Node(kinds[p], modes[p], 0, 0, <<0, 0>>)]
  BY <1>3 DEF R!TargetAssumption
<1>5. \A p \in Path : Target[p] = R!Node(kinds[p], modes[p], 0, 0, <<0, 0>>)
  BY ONLY <1>4
<1>6. \A p \in Path : kinds[p] \in {"d", "f"} \/ Target[p] = R!NoNode
  BY <1>3 DEF R!TargetAssumption
<1>7. \A p \in Path : OfRoot(Target[p])
  BY ONLY <1>5, <1>6 DEF OfRoot
<1>8. Target = [p \in Path |-> Target[p]]
  BY ONLY <1>4
<1>9. AllOfRoot(Target)
  BY <1>7, <1>8 DEF AllOfRoot
<1> QED BY <1>9, AllOfRootTyped DEF R!TargetAssumption

\* What fakeroot shows is put in the target directory.
LEMMA ShownIsOfRoot ==
    ASSUME NEW fs, Typed(fs), R!Whole(fs), NEW real, real = [p \in Path |-> R!Real(fs[p])]
    PROVE  AllOfRoot(real) /\ R!Whole(real) /\ \A p \in Path : R!Is(real, p) <=> R!Is(fs, p)
<1>1. \A p \in Path : real[p] = R!Real(fs[p])
  OBVIOUS
<1>2. ASSUME NEW p \in Path
      PROVE  OfRoot(real[p]) /\ (R!Is(real, p) <=> R!Is(fs, p)) /\ (fs[p].kind = "d" => real[p].kind = "d")
  <2>1. PICK n : n = fs[p]
    OBVIOUS
  <2>2. IsNode(n) /\ real[p] = R!Real(n)
    BY <1>1, <2>1 DEF Typed
  <2>3. OfRoot(R!Real(n)) /\ (R!Real(n) = R!NoNode <=> n = R!NoNode) /\ (n.kind = "d" => R!Real(n).kind = "d")
    BY ONLY <2>2, RealIs
  <2> QED BY <2>1, <2>2, <2>3 DEF R!Is
<1>3. real = [p \in Path |-> real[p]]
  OBVIOUS
<1> QED BY <1>2, <1>3 DEF AllOfRoot, R!Whole

LEMMA ToIs ==
    ASSUME NEW n, IsNode(n), NEW id, n # R!NoNode \/ id = 0
    PROVE  IsNode(To(n, id)) /\ (To(n, id) = R!NoNode <=> n = R!NoNode) /\ To(n, id).kind = n.kind
<1>1. PICK t : t = To(n, id)
  OBVIOUS
<1>2. CASE n = R!NoNode
  <2>1. t = [n EXCEPT !.uid = 0, !.gid = 0]
    BY <1>1, <1>2 DEF To
  <2>2. t = R!NoNode
    BY ONLY <1>2, <2>1 DEF R!NoNode
  <2> QED BY <1>1, <1>2, <2>2
<1>3. CASE n # R!NoNode
  <2>1. PICK kind, mode, owner, group, dev : kind \in Kinds /\ n = R!Node(kind, mode, owner, group, dev)
    BY <1>3 DEF IsNode
  <2>2. t = R!Node(kind, mode, id, id, dev)
    BY ONLY <1>1, <2>1 DEF R!Node, To
  <2>3. IsNode(t) /\ t # R!NoNode /\ t.kind = kind /\ n.kind = kind
    BY <2>1, <2>2, NodeFacts
  <2> QED BY <1>1, <1>3, <2>3
<1> QED BY <1>2, <1>3

LEMMA ChownedIsSafe ==
    ASSUME NEW fs, Typed(fs), R!Whole(fs), NEW where, NEW id,
           id = 0 \/ \A p \in Path : p \in where => R!Is(fs, p),
           NEW new, new = [p \in Path |-> IF p \in where THEN To(fs[p], id) ELSE fs[p]]
    PROVE  Safe(fs, new)
<1>1. \A p \in Path : new[p] = IF p \in where THEN To(fs[p], id) ELSE fs[p]
  OBVIOUS
<1>2. ASSUME NEW p \in Path
      PROVE  IsNode(new[p]) /\ (R!Is(new, p) <=> R!Is(fs, p)) /\ new[p].kind = fs[p].kind
  <2>1. CASE p \in where
    <3>1. PICK n : n = fs[p]
      OBVIOUS
    <3>2. IsNode(n) /\ (n # R!NoNode \/ id = 0)
      BY <2>1, <3>1 DEF Typed, R!Is
    <3>3. IsNode(To(n, id)) /\ (To(n, id) = R!NoNode <=> n = R!NoNode) /\ To(n, id).kind = n.kind
      BY ONLY <3>2, ToIs
    <3> QED BY <1>1, <2>1, <3>1, <3>3 DEF R!Is
  <2>2. CASE p \notin where
    BY <1>1, <2>2 DEF Typed, R!Is
  <2> QED BY <2>1, <2>2
<1>3. new = [p \in Path |-> new[p]]
  OBVIOUS
<1> QED BY <1>2, <1>3 DEF Safe, Typed, R!Whole

\* Nothing is owned yet, and a chown to root changes nothing.
LEMMA NoneOwned ==
    ASSUME NEW fs, AllOfRoot(fs)
    PROVE  (\A t : OwnedBy(t, {}, fs) = fs) /\ [p \in Path |-> To(fs[p], 0)] = fs
<1>1. \A t : OwnedBy(t, {}, fs) = [p \in Path |-> fs[p]]
  BY DEF OwnedBy
<1>2. ASSUME NEW p \in Path
      PROVE  To(fs[p], 0) = fs[p]
  <2>1. PICK n : n = fs[p]
    OBVIOUS
  <2>2. PICK kind, mode : n = R!Node(kind, mode, 0, 0, <<0, 0>>)
    <3>1. R!NoNode = R!Node("none", 0, 0, 0, <<0, 0>>)
      BY DEF R!NoNode, R!Node
    <3> QED BY <2>1, <3>1 DEF AllOfRoot, OfRoot
  <2>3. PICK t : t = To(n, 0)
    OBVIOUS
  <2>4. t = R!Node(kind, mode, 0, 0, <<0, 0>>)
    BY ONLY <2>2, <2>3 DEF R!Node, To
  <2> QED BY <2>1, <2>2, <2>3, <2>4
<1>3. [p \in Path |-> To(fs[p], 0)] = [p \in Path |-> fs[p]]
  BY <1>2
<1> QED BY <1>1, <1>3 DEF AllOfRoot

\* What the chown -h -R of a line makes of a file system
Chowned(l, fs) ==
    [p \in Path |-> IF p \in {q \in R!Below(l.home) : R!Is(fs, q)}
                    THEN To(fs[p], Uid[l.user]) ELSE fs[p]]

\* The last chown counts.
LEMMA ToTo ==
    ASSUME NEW n, OfRoot(n), n # R!NoNode, NEW a, NEW b
    PROVE  To(To(n, a), b) = To(n, b) /\ To(n, a) # R!NoNode
<1>0. PICK kind \in {"d", "f"} : \E mode : n = R!Node(kind, mode, 0, 0, <<0, 0>>)
  BY DEF OfRoot
<1>1. PICK mode : n = R!Node(kind, mode, 0, 0, <<0, 0>>)
  BY <1>0
<1>2. PICK t : t = To(n, a)
  OBVIOUS
<1>3. t = R!Node(kind, mode, a, a, <<0, 0>>)
  BY ONLY <1>1, <1>2 DEF R!Node, To
<1>4. To(t, b) = To(n, b)
  <2>1. PICK u : u = To(t, b)
    OBVIOUS
  <2>2. PICK v : v = To(n, b)
    OBVIOUS
  <2>3. u = R!Node(kind, mode, b, b, <<0, 0>>)
    BY ONLY <1>3, <2>1 DEF R!Node, To
  <2>4. v = R!Node(kind, mode, b, b, <<0, 0>>)
    BY ONLY <1>1, <2>2 DEF R!Node, To
  <2> QED BY ONLY <2>1, <2>2, <2>3, <2>4
<1>5. t # R!NoNode
  BY <1>3, NodeFacts DEF Kinds
<1> QED BY <1>2, <1>4, <1>5

\* A line more, of a user that is added after those before
LEMMA OneMoreOwns ==
    ASSUME NEW t, DOMAIN t \subseteq Int, \A i \in DOMAIN t : t[i].auto \in BOOLEAN,
           NEW some \in SUBSET DOMAIN t, NEW k \in DOMAIN t, \A i \in some : Sooner(t, i, k),
           NEW fs, AllOfRoot(fs), NEW owned, owned = OwnedBy(t, some, fs)
    PROVE  Chowned(t[k], owned) = OwnedBy(t, some \cup {k}, fs)
<1> DEFINE Over(p) == {i \in some : R!IsPrefix(t[i].home, p)}
           Autos(p) == {i \in Over(p) : t[i].auto}
           Id(p) == Uid[t[R!Max(IF Autos(p) # {} THEN Autos(p) ELSE Over(p))].user]
           OverMore(p) == {i \in some \cup {k} : R!IsPrefix(t[i].home, p)}
           AutoMore(p) == {i \in OverMore(p) : t[i].auto}
           Last(p) == IF AutoMore(p) # {} THEN AutoMore(p) ELSE OverMore(p)
           Mine(p) == p \in {q \in R!Below(t[k].home) : R!Is(owned, q)}
           New(p) == IF Mine(p) THEN To(owned[p], Uid[t[k].user]) ELSE owned[p]
           Want(p) == IF OverMore(p) = {} \/ ~R!Is(fs, p) THEN fs[p]
                      ELSE To(fs[p], Uid[t[R!Max(Last(p))].user])
<1>1. ASSUME NEW p \in Path
      PROVE  New(p) = Want(p)
  <2>1. owned[p] = IF Over(p) = {} \/ ~R!Is(fs, p) THEN fs[p] ELSE To(fs[p], Id(p))
    BY DEF OwnedBy
  <2>2. R!Is(owned, p) <=> R!Is(fs, p)
    <3> HIDE DEF Over, Id
    <3> QED BY <2>1, ToTo DEF AllOfRoot, R!Is
  <2>3. CASE R!IsPrefix(t[k].home, p)
    <3>1. OverMore(p) # {}
      BY <2>3
    <3>2. R!Max(Last(p)) = k
      <4>1. k \in Last(p) /\ \A i \in Last(p) : i # k => i < k
        <5>1. CASE t[k].auto
          <6>1. Last(p) = AutoMore(p) /\ k \in AutoMore(p)
            BY <2>3, <5>1
          <6>2. \A i \in AutoMore(p) : i # k => i \in some /\ t[i].auto
            OBVIOUS
          <6>3. \A i \in some : t[i].auto => i < k
            BY <5>1 DEF Sooner
          <6> QED BY <6>1, <6>2, <6>3
        <5>2. CASE ~t[k].auto
          <6>1. \A i \in some : ~t[i].auto /\ i < k
            BY <5>2 DEF Sooner
          <6>2. AutoMore(p) = {}
            BY <5>2, <6>1
          <6>3. Last(p) = OverMore(p)
            BY <6>2
          <6> QED BY <2>3, <6>1, <6>3
        <5> QED BY <5>1, <5>2
      <4>2. Last(p) \in SUBSET Int
        OBVIOUS
      <4> HIDE DEF Last
      <4> QED BY <4>1, <4>2, MaxIs
    <3>3. R!Is(fs, p) => To(owned[p], Uid[t[k].user]) = To(fs[p], Uid[t[k].user])
      <4> HIDE DEF Over, Id
      <4> QED BY <2>1, ToTo DEF AllOfRoot, R!Is
    <3>4. ~R!Is(fs, p) => owned[p] = fs[p]
      BY <2>1
    <3>5. Mine(p) <=> R!Is(fs, p)
      BY <2>2, <2>3 DEF R!Below
    <3> HIDE DEF Mine, OverMore, Last
    <3> QED BY <3>1, <3>2, <3>3, <3>4, <3>5
  <2>4. CASE ~R!IsPrefix(t[k].home, p)
    <3>1. OverMore(p) = Over(p)
      BY <2>4
    <3>2. ~Mine(p)
      BY <2>4 DEF R!Below
    <3>3. AutoMore(p) = Autos(p)
      BY <3>1
    <3>4. Last(p) = IF Autos(p) # {} THEN Autos(p) ELSE Over(p)
      BY <3>1, <3>3
    <3> HIDE DEF Mine, OverMore, Over, Autos, Last
    <3> QED BY <2>1, <3>1, <3>2, <3>4
  <2> QED BY <2>3, <2>4
<1>2. OwnedBy(t, some \cup {k}, fs) = [p \in Path |-> Want(p)]
  BY DEF OwnedBy
<1>3. Chowned(t[k], owned) = [p \in Path |-> New(p)]
  BY DEF Chowned
<1> HIDE DEF New, Want
<1> QED BY <1>1, <1>2, <1>3

-----------------------------------------------------------------------------
(***************************************************************************)
(* The script, at each command of the recipe: the chown to root, one for   *)
(* each home of the users that are configured now, makedevs if there is a  *)
(* device table, the command of the image.                                 *)
(***************************************************************************)
Devs == IF conf.devices = R!NoTable THEN 0 ELSE 1

\* h lists the lines of t as mkusers adds their users.
ListsUsers(h, n, t) ==
    /\ n \in Nat /\ h \in [1..n -> DOMAIN t]
    /\ \A i \in DOMAIN t : \E j \in 1..n : h[j] = i
    /\ \A i, j \in 1..n : i < j => Sooner(t, h[i], h[j])

Chowns(s, h, n) ==
    /\ IsList(s) /\ Len(s) \in Nat /\ Len(s) >= n + 1
    /\ s[1].do = "chown"
    /\ \A i \in 1..n : s[i + 1].do = "home" /\ s[i + 1].of = conf.users[h[i]]

RunsMakedevs(s, n) == Devs = 1 => Len(s) >= n + 2 /\ s[n + 2].do = "makedevs"
Writes(s) == s[Len(s)].do = "image" /\ s[Len(s)].of = Head(todo)

AtBegin == IsList(script) /\ Len(script) = 1 /\ script[1].do = "chown"

Started == {"devices", "permissions", "command", "fakeroot", "script"}
Tabled == {"command", "fakeroot", "script"}

\* Of h, n and the script, by the command that is next
Planned(h, n) ==
    /\ ListsUsers(h, n, conf.users)
    /\ Chowns(script, h, n)
    /\ pc \in {"devices", "permissions"} => Len(script) = n + 1
    /\ pc = "command" => Len(script) = n + 1 + Devs
    /\ pc \in {"fakeroot", "script"} => Len(script) = n + 2 + Devs /\ Writes(script)
    /\ pc \in Tabled => RunsMakedevs(script, n)

\* What the script has done so far
All(h, k) == {h[i] : i \in 1..k}
AsRead(n) == AsTableIn(accounts, OwnedByAll(conf.users, before), fake, dtable, n)
Good(f) == image[f] # R!NoImage /\ Warning \notin image[f]

Remains(l, s) ==
    /\ IsList(l) /\ Len(l) \in Nat /\ Len(l) <= Len(s)
    /\ \A i \in 1..Len(l) : l[i] = s[Len(s) - Len(l) + i]

InTable == read \in 0..Len(dtable) /\ ret \in {0, 1} /\ (ret = 0 => AsRead(read))
SoFar(h, n, d) ==
    /\ d = 0 => fake = before
    /\ d \in 1..(n + 1 - Devs) => fake = OwnedBy(conf.users, All(h, d - 1), before)
    /\ d <= n => read = 0 /\ ret = 0
    /\ Devs = 1 /\ d = n + 1 => InTable
    /\ Devs = 1 /\ d = n + 2 => AsRead(Len(dtable))
    /\ d = n + 2 + Devs => Good(Head(todo))
RunsAsPlanned(h, n) == Remains(left, script) /\ SoFar(h, n, Len(script) - Len(left))

ScriptInv ==
    /\ conf \in Configs
    /\ pc = "chown" => script = <<>> /\ utable = <<>>
    /\ pc = "users" => AtBegin /\ utable = <<>>
    /\ pc = "mkusers" => AtBegin /\ utable = conf.users
    /\ pc \in Started => utable = conf.users
    /\ pc = "permissions" => conf.devices # R!NoTable /\ dtable = conf.devices
    /\ pc \in Tabled /\ Devs = 1 => dtable = conf.devices \o conf.permissions
    /\ pc \notin {"script", "failed"} => read = 0 /\ ret = 0
    /\ pc \in Started =>
          \E h, n : Planned(h, n) /\ (pc = "script" => RunsAsPlanned(h, n))

\* The target directory belongs to root and keeps what was in it, and nothing
\* but the warning can be where that is.
InRecipe == Started \cup {"chown", "users", "mkusers"}
FileInv ==
    /\ AllOfRoot(target) /\ R!Whole(target) /\ AllOfRoot(before)
    /\ Typed(fake) /\ R!Whole(fake)
    /\ target[Warning] \in {R!NoNode, Target[Warning]}
    /\ pc \in InRecipe => target[Warning] = R!NoNode
    /\ pc = "script" => ~R!Is(fake, Warning)
    /\ \A p \in Path : p # Warning /\ R!Is(Target, p) => R!Is(target, p) /\ R!Is(fake, p)

\* The images of the formats that make is through with
DoneInv ==
    /\ image = [f \in R!ToSet(Formats) |-> image[f]]
    /\ pc \notin {"off", "made"} =>
          /\ todo # <<>> /\ Remains(todo, Formats)
          /\ \A i \in 1..(Len(Formats) - Len(todo)) : Good(Formats[i])
    /\ pc = "made" => (\A f \in R!ToSet(Formats) : Good(f)) /\ R!Is(target, Warning)

LEMMA SameCardinality == \A A : R!Cardinality(A) = Cardinality(A)
  BY DEF R!Cardinality, Cardinality

LEMMA UsersAreListed ==
    ASSUME NEW t, IsList(t), NEW h \in R!SetToSeqs(DOMAIN t),
           \A i, j \in DOMAIN h : i < j => Sooner(t, h[i], h[j])
    PROVE  ListsUsers(h, Len(t), t) /\ DOMAIN h = 1..Len(t)
<1>1. DOMAIN t = 1..Len(t) /\ Len(t) \in Nat
  BY DEF IsList
<1>2. PICK n : n = Len(t)
  OBVIOUS
<1>3. IsFiniteSet(1..n) /\ Cardinality(1..n) = n
  <2>1. n \in Nat /\ n \in Int /\ 1 \in Int
    BY <1>1, <1>2
  <2>2. IsFiniteSet(1..n) /\ Cardinality(1..n) = IF 1 > n THEN 0 ELSE n - 1 + 1
    BY ONLY <2>1, FS_Interval
  <2>3. (IF 1 > n THEN 0 ELSE n - 1 + 1) = n
    BY ONLY <2>1
  <2> QED BY <2>2, <2>3
<1>4. h \in [1..n -> 1..n] /\ \A i, j \in 1..n : i # j => h[i] # h[j]
  BY <1>1, <1>2, <1>3, SameCardinality DEF R!SetToSeqs
<1>5. h \in Injection(1..n, 1..n)
  BY <1>4 DEF Injection, IsInjective
<1>6. h \in Surjection(1..n, 1..n)
  BY <1>3, <1>5, FS_Injection
<1>7. \A i \in 1..n : \E j \in 1..n : h[j] = i
  BY <1>6 DEF Surjection
<1> QED BY <1>1, <1>2, <1>4, <1>7 DEF ListsUsers

LEMMA ChownsLonger ==
    ASSUME NEW s, NEW h, NEW n \in Nat, Chowns(s, h, n), NEW x
    PROVE  Chowns(Plus(s, x), h, n)
<1>1. PICK t : t = Plus(s, x)
  OBVIOUS
<1>2. /\ IsList(t) /\ Len(s) \in Nat /\ Len(t) = Len(s) + 1
      /\ \A i \in 1..Len(s) : t[i] = s[i]
  BY <1>1, PlusFacts DEF Chowns
<1>3. 1 \in 1..Len(s) /\ \A i \in 1..n : i + 1 \in 1..Len(s)
  BY DEF Chowns
<1>4. t[1] = s[1] /\ \A i \in 1..n : t[i + 1] = s[i + 1]
  BY <1>2, <1>3
<1>5. /\ Len(s) >= n + 1 /\ s[1].do = "chown"
      /\ \A i \in 1..n : s[i + 1].do = "home" /\ s[i + 1].of = conf.users[h[i]]
  BY DEF Chowns
<1>6. Len(t) \in Nat /\ Len(t) >= n + 1
  BY <1>2, <1>5
<1>7. /\ t[1].do = "chown"
      /\ \A i \in 1..n : t[i + 1].do = "home" /\ t[i + 1].of = conf.users[h[i]]
  BY ONLY <1>4, <1>5
<1>8. Chowns(t, h, n)
  BY <1>2, <1>6, <1>7 DEF Chowns
<1> QED BY <1>1, <1>8

-----------------------------------------------------------------------------
(***************************************************************************)
(* The recipe writes the script.                                           *)
(***************************************************************************)
LEMMA NotPlannedYet ==
    ASSUME ScriptInv, conf' \in Configs, pc' \notin Started \cup {"users", "mkusers"},
           pc' = "chown" => script' = <<>> /\ utable' = <<>>, pc' # "failed" => read' = 0 /\ ret' = 0
    PROVE  ScriptInv'
BY DEF ScriptInv, Started, Tabled

LEMMA DeviceTableStep ==
    ASSUME ScriptInv, R!DeviceTable \/ R!NoDeviceTable
    PROVE  ScriptInv'
<1>1. /\ pc = "devices" /\ UNCHANGED <<conf, script, utable, todo, read, ret>>
      /\ \/ pc' = "command" /\ Devs = 0
         \/ pc' = "permissions" /\ conf.devices # R!NoTable /\ dtable' = conf.devices
  BY DEF R!DeviceTable, R!NoDeviceTable, R!Go, R!files, R!devs, Devs
<1>2. PICK h, n : Planned(h, n)
  BY <1>1 DEF ScriptInv, Started
<1>3. Devs' = Devs
  BY <1>1 DEF Devs
<1>4. Planned(h, n)'
  BY <1>1, <1>2, <1>3 DEF Planned, Chowns, RunsMakedevs, Tabled
<1>5. (pc \in Tabled /\ Devs = 1 => dtable = conf.devices \o conf.permissions)'
  BY <1>1, <1>3 DEF Tabled
<1>6. (pc = "permissions" => conf.devices # R!NoTable /\ dtable = conf.devices)'
  BY <1>1
<1>7. conf' \in Configs /\ utable' = conf'.users /\ pc' \in {"command", "permissions"} /\ read' = 0 /\ ret' = 0
  BY <1>1 DEF ScriptInv, Started
<1> QED BY <1>4, <1>5, <1>6, <1>7 DEF ScriptInv

LEMMA BeginStep ==
    ASSUME ScriptInv, R!Chown
    PROVE  ScriptInv'
<1>1. PICK c : script' = Plus(script, c) /\ c.do = "chown"
  <2>1. script' = Append(script, [do |-> "chown", of |-> <<>>])
    BY DEF R!Chown
  <2> QED BY <2>1 DEF Plus
<1>2. script = <<>> /\ utable' = <<>> /\ conf' = conf /\ pc' = "users" /\ read' = 0 /\ ret' = 0
  BY DEF R!Chown, R!Go, R!devs, ScriptInv
<1>3. IsList(script) /\ Len(script) = 0
  <2>1. <<>> \in Seq({})
    OBVIOUS
  <2> QED BY <1>2, <2>1 DEF IsList
<1>4. PICK t : t = script'
  OBVIOUS
<1>5. IsList(t) /\ Len(t) = 1 /\ t[1] = c
  <2>1. t = Plus(script, c)
    BY <1>1, <1>4
  <2>2. IsList(t) /\ Len(t) = Len(script) + 1 /\ t[Len(script) + 1] = c
    BY ONLY <1>3, <2>1, PlusFacts
  <2> QED BY <1>3, <2>2
<1>6. AtBegin'
  BY <1>1, <1>4, <1>5 DEF AtBegin, IsList
<1> QED BY <1>2, <1>6 DEF ScriptInv, Started, Tabled

LEMMA HomesStep ==
    ASSUME R!ConfigsAssumption, ScriptInv, R!MkUsers
    PROVE  ScriptInv'
<1> DEFINE Chown1(i) == [do |-> "home", of |-> conf.users[i]]
<1>1. PICK h \in R!SetToSeqs(DOMAIN conf.users) :
          /\ \A i, j \in DOMAIN h : i < j => Sooner(conf.users, h[i], h[j])
          /\ script' = Joined(script, [i \in DOMAIN h |-> Chown1(h[i])])
  <2>1. utable = conf.users
    BY DEF R!MkUsers, ScriptInv
  <2>2. PICK h \in R!SetToSeqs(DOMAIN utable) :
            /\ \A i, j \in DOMAIN h : i < j => R!AddedBefore(h[i], h[j])
            /\ script' = script \o [i \in DOMAIN h |-> [do |-> "home", of |-> utable[h[i]]]]
    BY DEF R!MkUsers
  <2>3. \A i, j \in DOMAIN h : i < j => Sooner(conf.users, h[i], h[j])
    BY <2>1, <2>2 DEF R!AddedBefore, Sooner
  <2>4. script' = Joined(script, [i \in DOMAIN h |-> Chown1(h[i])])
    BY <2>1, <2>2 DEF Joined
  <2>5. h \in R!SetToSeqs(DOMAIN conf.users)
    BY <2>1, <2>2
  <2> QED BY <2>3, <2>4, <2>5
<1>2. conf' = conf /\ utable' = conf.users /\ pc' = "devices" /\ AtBegin /\ read' = 0 /\ ret' = 0
  BY DEF R!MkUsers, R!Go, R!devs, ScriptInv
<1>3. IsList(conf.users)
  BY DEF ScriptInv, R!ConfigsAssumption, IsList
<1>4. PICK n : ListsUsers(h, n, conf.users) /\ DOMAIN h = 1..n
  BY <1>1, <1>3, UsersAreListed
<1>5. PICK t : t = [i \in 1..n |-> Chown1(h[i])]
  OBVIOUS
<1>6. t \in Seq({Chown1(h[i]) : i \in 1..n}) /\ Len(t) = n
  BY <1>4, <1>5 DEF ListsUsers
<1>7. IsList(t)
  BY <1>6 DEF IsList
<1>8. PICK s : s = script'
  OBVIOUS
<1>9. s = Joined(script, t)
  BY <1>1, <1>4, <1>5, <1>8
<1>10. /\ IsList(s) /\ Len(s) = n + 1
       /\ s[1] = script[1]
       /\ \A i \in 1..n : s[i + 1] = t[i]
  <2>1. IsList(script) /\ Len(script) = 1
    BY <1>2 DEF AtBegin
  <2>2. /\ IsList(s) /\ Len(s) = Len(script) + Len(t)
        /\ \A i \in 1..Len(script) : s[i] = script[i]
        /\ \A i \in 1..Len(t) : s[Len(script) + i] = t[i]
    <3>1. /\ IsList(Joined(script, t)) /\ Len(script) \in Nat /\ Len(t) \in Nat
          /\ Len(Joined(script, t)) = Len(script) + Len(t)
          /\ \A i \in 1..Len(script) : Joined(script, t)[i] = script[i]
          /\ \A i \in 1..Len(t) : Joined(script, t)[Len(script) + i] = t[i]
      <4>1. PICK was : was = script
        OBVIOUS
      <4>2. IsList(was) /\ IsList(t)
        BY <1>7, <2>1, <4>1
      <4>3. /\ IsList(Joined(was, t)) /\ Len(was) \in Nat /\ Len(t) \in Nat
            /\ Len(Joined(was, t)) = Len(was) + Len(t)
            /\ \A i \in 1..Len(was) : Joined(was, t)[i] = was[i]
            /\ \A i \in 1..Len(t) : Joined(was, t)[Len(was) + i] = t[i]
        BY ONLY <4>2, JoinedFacts
      <4> QED BY <4>1, <4>3
    <3> QED BY ONLY <1>9, <3>1
  <2>3. n \in Nat
    BY <1>4 DEF ListsUsers
  <2> QED BY <1>6, <2>1, <2>2, <2>3
<1>11. \A i \in 1..n : s[i + 1].do = "home" /\ s[i + 1].of = conf.users[h[i]]
  BY <1>5, <1>10
<1>12. s[1].do = "chown" /\ n \in Nat
  BY <1>2, <1>4, <1>10 DEF AtBegin, ListsUsers
<1>13. Chowns(s, h, n)
  BY <1>10, <1>11, <1>12 DEF Chowns
<1>14. Planned(h, n)'
  BY <1>2, <1>4, <1>8, <1>10, <1>13 DEF Planned, Chowns, IsList, Tabled, ListsUsers
<1> QED BY <1>2, <1>14 DEF ScriptInv, Started, Tabled

LEMMA PermissionsStep ==
    ASSUME ScriptInv, R!Permissions
    PROVE  ScriptInv'
<1>1. PICK c : script' = Plus(script, c) /\ c.do = "makedevs"
  <2>1. script' = Append(script, [do |-> "makedevs", of |-> <<>>])
    BY DEF R!Permissions
  <2> QED BY <2>1 DEF Plus
<1>2. /\ conf' = conf /\ utable' = conf.users /\ pc' = "command"
      /\ pc = "permissions" /\ Devs = 1 /\ dtable' = conf.devices \o conf.permissions
      /\ read' = 0 /\ ret' = 0
  BY DEF R!Permissions, R!Go, R!devs, ScriptInv, Started, Devs
<1>3. PICK h, n : Planned(h, n)
  BY <1>2 DEF ScriptInv, Started
<1>4. n \in Nat /\ Chowns(script, h, n) /\ Len(script) = n + 1
  BY <1>2, <1>3 DEF Planned, ListsUsers
<1>5. PICK s : s = script'
  OBVIOUS
<1>6. Chowns(s, h, n)
  BY <1>1, <1>4, <1>5, ChownsLonger
<1>7. Len(s) = n + 2 /\ s[n + 2] = c
  BY <1>1, <1>4, <1>5, PlusFacts DEF Chowns
<1>8. Devs' = Devs
  BY <1>2 DEF Devs
<1>9. Planned(h, n)'
  BY <1>1, <1>2, <1>3, <1>5, <1>6, <1>7, <1>8, <1>4
     DEF Planned, Chowns, IsList, RunsMakedevs, ListsUsers, Tabled
<1> QED BY <1>2, <1>9 DEF ScriptInv, Started, Tabled

LEMMA CommandStep ==
    ASSUME ScriptInv, R!Command
    PROVE  ScriptInv'
<1>1. PICK c : script' = Plus(script, c) /\ c.do = "image" /\ c.of = Head(todo)
  <2>1. script' = Append(script, [do |-> "image", of |-> Head(todo)])
    BY DEF R!Command
  <2> QED BY <2>1 DEF Plus
<1>2. /\ conf' = conf /\ utable' = conf.users /\ pc' = "fakeroot"
      /\ pc = "command" /\ dtable' = dtable /\ todo' = todo /\ read' = 0 /\ ret' = 0
  BY DEF R!Command, R!Go, R!devs, ScriptInv, Started
<1>3. PICK h, n : Planned(h, n)
  BY <1>2 DEF ScriptInv, Started
<1>4. n \in Nat /\ Chowns(script, h, n) /\ Len(script) = n + 1 + Devs /\ RunsMakedevs(script, n)
  BY <1>2, <1>3 DEF Planned, ListsUsers, Tabled
<1>5. PICK s : s = script'
  OBVIOUS
<1>6. Chowns(s, h, n)
  BY <1>1, <1>4, <1>5, ChownsLonger
<1>7. Devs \in {0, 1}
  BY DEF Devs
<1>8. Len(s) = n + 2 + Devs /\ s[n + 2 + Devs] = c /\ (Devs = 1 => s[n + 2] = script[n + 2])
  <2>1. Len(s) = Len(script) + 1 /\ s[Len(script) + 1] = c /\ \A i \in 1..Len(script) : s[i] = script[i]
    <3>1. PICK was : was = script
      OBVIOUS
    <3>2. IsList(was) /\ s = Plus(was, c)
      BY <1>1, <1>4, <1>5, <3>1 DEF Chowns
    <3>3. Len(s) = Len(was) + 1 /\ s[Len(was) + 1] = c /\ \A i \in 1..Len(was) : s[i] = was[i]
      BY ONLY <3>2, PlusFacts
    <3> QED BY <3>1, <3>3
  <2> QED BY <1>4, <1>7, <2>1
<1>9. Devs' = Devs
  BY <1>2 DEF Devs
<1>10. RunsMakedevs(s, n) /\ Writes(s)
  BY <1>1, <1>4, <1>7, <1>8 DEF RunsMakedevs, Writes
<1>11. Chowns(s, h, n)' /\ RunsMakedevs(s, n)' /\ Writes(s)'
  BY <1>2, <1>6, <1>9, <1>10 DEF Chowns, RunsMakedevs, Writes, IsList
<1>12. Planned(h, n)'
  BY <1>2, <1>3, <1>5, <1>8, <1>9, <1>11 DEF Planned, Chowns, RunsMakedevs, Writes, IsList, ListsUsers, Tabled
<1>13. (pc \in Tabled /\ Devs = 1 => dtable = conf.devices \o conf.permissions)'
  BY <1>2, <1>9 DEF ScriptInv, Tabled
<1> QED BY <1>2, <1>12, <1>13 DEF ScriptInv, Started

LEMMA FakerootStep ==
    ASSUME ScriptInv, R!Fakeroot
    PROVE  ScriptInv'
<1>1. /\ conf' = conf /\ script' = script /\ utable' = utable /\ dtable' = dtable
      /\ pc = "fakeroot" /\ pc' = "script" /\ left' = script /\ fake' = target /\ before' = target
      /\ todo' = todo /\ read' = 0 /\ ret' = 0
  BY DEF R!Fakeroot, R!files, R!devs, ScriptInv
<1>2. PICK h, n : Planned(h, n)
  BY <1>1 DEF ScriptInv, Started
<1>3. Devs' = Devs
  BY <1>1 DEF Devs
<1>4. Planned(h, n)'
  BY <1>1, <1>2, <1>3 DEF Planned, Chowns, RunsMakedevs, Writes, Tabled
<1>5. Len(script) \in Nat /\ n \in Nat /\ IsList(script)
  BY <1>2 DEF Planned, Chowns, ListsUsers
<1>6. Remains(script, script)
  BY <1>5 DEF Remains
<1>7. Remains(left, script)'
  BY <1>1, <1>6 DEF Remains, IsList
<1>8. Len(script') - Len(left') = 0
  BY <1>1, <1>5
<1>9. SoFar(h, n, 0)'
  <2>1. Devs' \in {0, 1}
    BY <1>3 DEF Devs
  <2>2. PICK k : k = Devs'
    OBVIOUS
  <2>3. k \in {0, 1} /\ n \in Nat
    BY <1>5, <2>1, <2>2
  <2>4. 0 \notin 1..(n + 1 - k) /\ 0 # n + 1 /\ 0 # n + 2 /\ 0 # n + 2 + k
    BY ONLY <2>3
  <2>5. 0 \notin 1..(n + 1 - Devs') /\ 0 # n + 1 /\ 0 # n + 2 /\ 0 # n + 2 + Devs'
    BY <2>2, <2>4
  <2> QED BY <1>1, <2>5 DEF SoFar
<1>10. RunsAsPlanned(h, n)'
  BY <1>7, <1>8, <1>9 DEF RunsAsPlanned
<1>11. (pc \in Tabled /\ Devs = 1 => dtable = conf.devices \o conf.permissions)'
  BY <1>1, <1>3 DEF ScriptInv, Tabled
<1> QED BY <1>1, <1>4, <1>10, <1>11 DEF ScriptInv, Started

-----------------------------------------------------------------------------
(***************************************************************************)
(* The script runs under fakeroot.                                         *)
(***************************************************************************)
\* Which command it is tells how far the script is.
LEMMA WhichCommand ==
    ASSUME NEW h, NEW n, Planned(h, n), pc = "script", NEW d \in Nat, d < Len(script)
    PROVE  /\ n \in Nat /\ Devs \in {0, 1} /\ Len(script) = n + 2 + Devs
           /\ script[d + 1].do = "chown" => d = 0
           /\ script[d + 1].do = "home" => d \in 1..n /\ script[d + 1].of = conf.users[h[d]]
           /\ script[d + 1].do = "makedevs" => Devs = 1 /\ d = n + 1
           /\ script[d + 1].do = "image" => d = n + 1 + Devs /\ script[d + 1].of = Head(todo)
<1>1. n \in Nat /\ Devs \in {0, 1} /\ Len(script) = n + 2 + Devs
  BY DEF Planned, ListsUsers, Devs
<1>2. script[1].do = "chown" /\ \A i \in 1..n : script[i + 1].do = "home" /\ script[i + 1].of = conf.users[h[i]]
  BY DEF Planned, Chowns
<1>3. Devs = 1 => script[n + 2].do = "makedevs"
  BY DEF Planned, RunsMakedevs, Tabled
<1>4. script[n + 2 + Devs].do = "image" /\ script[n + 2 + Devs].of = Head(todo)
  BY <1>1 DEF Planned, Writes
<1>5. d = 0 \/ d \in 1..n \/ (d = n + 1 /\ Devs = 1) \/ d = n + 1 + Devs
  BY <1>1
<1>6. CASE d = 0
  BY <1>1, <1>2, <1>6
<1>7. CASE d \in 1..n
  BY <1>1, <1>2, <1>7
<1>8. CASE d = n + 1 /\ Devs = 1
  BY <1>1, <1>3, <1>8
<1>9. CASE d = n + 1 + Devs
  <2>1. d + 1 = n + 2 + Devs
    BY <1>1, <1>9
  <2> QED BY <1>1, <1>4, <1>9, <2>1
<1> QED BY <1>5, <1>6, <1>7, <1>8, <1>9

LEMMA OneLess ==
    ASSUME NEW l, NEW s, Remains(l, s), l # <<>>, Len(s) \in Nat, NEW d, d = Len(s) - Len(l)
    PROVE  /\ d \in Nat /\ d < Len(s) /\ Head(l) = s[d + 1]
           /\ Remains(Rest(l), s) /\ Len(s) - Len(Rest(l)) = d + 1
<1>1. PICK r : r = Rest(l)
  OBVIOUS
<1>2. /\ IsList(r) /\ Len(l) \in Nat /\ Len(l) > 0 /\ Len(r) = Len(l) - 1
      /\ \A i \in 1..(Len(l) - 1) : r[i] = l[i + 1]
  BY <1>1, RestFacts DEF Remains
<1>3. Len(l) <= Len(s) /\ \A i \in 1..Len(l) : l[i] = s[Len(s) - Len(l) + i]
  BY DEF Remains
<1>4. Head(l) = l[1]
  <2>1. PICK T : l \in Seq(T)
    BY DEF Remains, IsList
  <2> QED BY <2>1
<1>5. d \in Nat /\ d < Len(s) /\ Head(l) = s[d + 1]
  BY <1>2, <1>3, <1>4
<1>6. Len(r) \in Nat /\ Len(r) <= Len(s) /\ Len(s) - Len(r) = d + 1
  BY <1>2, <1>3
<1>7. \A i \in 1..Len(r) : r[i] = s[Len(s) - Len(r) + i]
  BY <1>2, <1>3
<1>8. Remains(r, s)
  BY <1>2, <1>6, <1>7 DEF Remains
<1> QED BY <1>1, <1>5, <1>6, <1>8

\* A command of the script: what it leaves to prove
LEMMA ScriptGoesOn ==
    ASSUME ScriptInv, pc = "script", left # <<>>, R!Continue,
           \A h, n, d : /\ Planned(h, n) /\ n \in Nat /\ d \in Nat /\ d < Len(script)
                        /\ SoFar(h, n, d) /\ Head(left) = script[d + 1]
                        => SoFar(h, n, d + 1)'
    PROVE  ScriptInv'
<1>1. /\ UNCHANGED <<conf, accounts, utable, dtable, script, pc, todo, before>>
      /\ left' = Rest(left)
  BY DEF R!Continue, Rest
<1>2. PICK h, n : Planned(h, n) /\ RunsAsPlanned(h, n)
  BY DEF ScriptInv, Started
<1>3. PICK d : d = Len(script) - Len(left)
  OBVIOUS
<1>4. Len(script) \in Nat /\ n \in Nat
  BY <1>2 DEF Planned, Chowns, ListsUsers
<1>5. Remains(left, script)
  BY <1>2 DEF RunsAsPlanned
<1>6. /\ d \in Nat /\ d < Len(script) /\ Head(left) = script[d + 1]
      /\ Remains(Rest(left), script) /\ Len(script) - Len(Rest(left)) = d + 1
  BY ONLY left # <<>>, <1>3, <1>4, <1>5, OneLess
<1>7. SoFar(h, n, d)
  BY <1>2, <1>3 DEF RunsAsPlanned
<1>8. SoFar(h, n, d + 1)'
  BY <1>2, <1>4, <1>6, <1>7
<1>9. Remains(left, script)'
  BY <1>1, <1>6 DEF Remains, IsList
<1>10. Len(script') - Len(left') = d + 1
  BY <1>1, <1>6
<1>11. RunsAsPlanned(h, n)'
  BY <1>8, <1>9, <1>10 DEF RunsAsPlanned
<1>12. Devs' = Devs
  BY <1>1 DEF Devs
<1>13. Planned(h, n)'
  BY <1>1, <1>2, <1>12 DEF Planned, Chowns, RunsMakedevs, Writes, Tabled
<1>14. (pc \in Tabled /\ Devs = 1 => dtable = conf.devices \o conf.permissions)'
  BY <1>1, <1>12 DEF ScriptInv, Tabled
<1>15. conf' \in Configs /\ utable' = conf'.users /\ pc' = "script"
  BY <1>1 DEF ScriptInv, Started
<1> QED BY <1>11, <1>13, <1>14, <1>15 DEF ScriptInv
\* What a configuration asks makedevs for
LEMMA TableIsList ==
    ASSUME R!ConfigsAssumption, ScriptInv, pc \in Tabled, Devs = 1
    PROVE  Len(dtable) \in Nat /\ \A i \in 1..Len(dtable) : R!LineAssumption(dtable[i])
<1>1. PICK c \in Configs : c = conf
  BY DEF ScriptInv
<1>2. PICK a : a = c.devices
  OBVIOUS
<1>3. PICK b : b = c.permissions
  OBVIOUS
<1>4. /\ a \in Seq(R!ToSet(a)) /\ b \in Seq(R!ToSet(b))
      /\ \A l \in R!ToSet(a) \cup R!ToSet(b) : R!LineAssumption(l)
  BY <1>2, <1>3 DEF R!ConfigsAssumption
<1>5. PICK t : t = Joined(a, b)
  OBVIOUS
<1>6. dtable = t
  BY <1>1, <1>2, <1>3, <1>5 DEF ScriptInv, Joined
<1>7. Len(t) \in Nat /\ \A i \in 1..Len(t) : t[i] \in R!ToSet(a) \cup R!ToSet(b)
  BY ONLY <1>4, <1>5 DEF Joined
<1> QED BY <1>4, <1>6, <1>7

\* The homes are owned by their users, one after the other.
LEMMA HomesSoFar ==
    ASSUME NEW h, NEW n \in Nat, NEW d \in 0..n, R!ConfigsAssumption, ScriptInv, Planned(h, n), pc = "script",
           R!Continue, UNCHANGED R!devs, read = 0, ret = 0, fake' = OwnedBy(conf.users, All(h, d), before)
    PROVE  SoFar(h, n, d + 1)'
<1>1. UNCHANGED <<conf, accounts, dtable, before, read, ret>>
  BY DEF R!Continue, R!devs
<1>2. PICK k : k = Devs
  OBVIOUS
<1>3. k \in {0, 1} /\ Devs' = k
  BY <1>1, <1>2 DEF Devs
<1>4. d + 1 # 0 /\ (d + 1) - 1 = d /\ d + 1 # n + 2 /\ d + 1 # n + 2 + k
  BY <1>3
<1>5. fake' = OwnedBy(conf'.users, All(h, (d + 1) - 1), before')
  BY <1>1, <1>4
<1>6. ASSUME Devs = 1, d + 1 = n + 1
      PROVE  InTable'
  <2>1. Len(dtable) \in Nat /\ 0 \in 0..Len(dtable)
    BY <1>6, TableIsList DEF Tabled
  <2>2. All(h, d) = DOMAIN conf.users
    BY <1>6 DEF Planned, ListsUsers, All
  <2>3. PICK b : b = OwnedByAll(conf.users, before)
    OBVIOUS
  <2>4. AsTableIn(accounts, b, b, dtable, 0)
    BY NoLines
  <2>5. fake' = b /\ OwnedByAll(conf.users, before)' = b
    BY <1>1, <2>2, <2>3 DEF OwnedByAll
  <2>7. AsRead(0)'
    BY <1>1, <2>4, <2>5 DEF AsRead
  <2>8. read' = 0 /\ ret' = 0 /\ dtable' = dtable
    BY <1>1
  <2> QED BY <2>1, <2>7, <2>8 DEF InTable, AsRead
<1>7. (Devs = 1)' <=> Devs = 1
  BY <1>2, <1>3
<1> QED BY <1>1, <1>2, <1>3, <1>4, <1>5, <1>6, <1>7 DEF SoFar

LEMMA AllOneMore ==
    ASSUME NEW h, NEW k \in Nat
    PROVE  All(h, k + 1) = All(h, k) \cup {h[k + 1]}
<1>1. 1..(k + 1) = 1..k \cup {k + 1}
  OBVIOUS
<1> QED BY <1>1 DEF All

LEMMA ChownAllStep ==
    ASSUME R!ConfigsAssumption, FileInv, ScriptInv, R!ChownAll
    PROVE  ScriptInv'
<1>1. /\ pc = "script" /\ left # <<>> /\ Head(left).do = "chown" /\ R!Continue /\ UNCHANGED R!devs
      /\ fake' = [p \in Path |-> To(fake[p], 0)]
  BY DEF R!ChownAll, R!Running, R!Shows, To
<1>2. ASSUME NEW h, NEW n \in Nat, NEW d \in Nat, Planned(h, n), d < Len(script),
             SoFar(h, n, d), Head(left) = script[d + 1]
      PROVE  SoFar(h, n, d + 1)'
  <2>1. d = 0
    BY <1>1, <1>2, WhichCommand
  <2>2. fake = before /\ read = 0 /\ ret = 0
    BY <1>2, <2>1 DEF SoFar
  <2>3. fake' = before
    BY <1>1, <2>2, NoneOwned DEF FileInv
  <2>4. All(h, 0) = {}
    BY DEF All
  <2>5. fake' = OwnedBy(conf.users, All(h, d), before)
    BY <2>1, <2>3, <2>4, NoneOwned DEF FileInv
  <2> QED BY <1>1, <1>2, <2>1, <2>2, <2>5, HomesSoFar
<1> QED BY <1>1, <1>2, ScriptGoesOn

LEMMA ChownHomeStep ==
    ASSUME R!ConfigsAssumption, FileInv, ScriptInv, R!ChownHome
    PROVE  ScriptInv'
<1>1. PICK l : l = Head(left).of
  OBVIOUS
<1>2. /\ pc = "script" /\ left # <<>> /\ Head(left).do = "home" /\ R!Continue /\ UNCHANGED R!devs
      /\ fake' = Chowned(l, fake)
  BY <1>1 DEF R!ChownHome, R!Running, R!Shows, Chowned, To
<1>3. ASSUME NEW h, NEW n \in Nat, NEW d \in Nat, Planned(h, n), d < Len(script),
             SoFar(h, n, d), Head(left) = script[d + 1]
      PROVE  SoFar(h, n, d + 1)'
  <2>1. d \in 1..n /\ l = conf.users[h[d]] /\ Devs \in {0, 1}
    BY <1>1, <1>2, <1>3, WhichCommand
  <2>2. fake = OwnedBy(conf.users, All(h, d - 1), before) /\ read = 0 /\ ret = 0
    <3>1. d \in 1..(n + 1 - Devs) /\ d <= n
      BY <2>1
    <3> QED BY <1>3, <3>1 DEF SoFar
  <2>3. PICK t : t = conf.users
    OBVIOUS
  <2>4. /\ h \in [1..n -> DOMAIN t]
        /\ \A i, j \in 1..n : i < j => Sooner(t, h[i], h[j])
    BY <1>3, <2>3 DEF Planned, ListsUsers
  <2>5. DOMAIN t \subseteq Int /\ \A i \in DOMAIN t : t[i].auto \in BOOLEAN
    <3>1. PICK c \in Configs : c = conf
      BY DEF ScriptInv
    <3>2. t \in Seq(R!ToSet(t)) /\ \A k \in R!ToSet(t) : R!UserAssumption(k)
      BY <2>3, <3>1 DEF R!ConfigsAssumption
    <3>3. DOMAIN t = 1..Len(t) /\ Len(t) \in Nat
      BY ONLY <3>2
    <3>4. \A i \in DOMAIN t : t[i] \in R!ToSet(t)
      BY DEF R!ToSet
    <3> QED BY <3>2, <3>3, <3>4 DEF R!UserAssumption
  <2>6. All(h, d - 1) \in SUBSET DOMAIN t /\ h[d] \in DOMAIN t /\ \A i \in All(h, d - 1) : Sooner(t, i, h[d])
    <3>1. \A i \in 1..(d - 1) : i \in 1..n /\ i < d
      BY <2>1
    <3> QED BY <2>1, <2>4, <3>1 DEF All
  <2>7. All(h, d) = All(h, d - 1) \cup {h[d]}
    <3>1. d - 1 \in Nat /\ (d - 1) + 1 = d
      BY <2>1
    <3> QED BY <3>1, AllOneMore
  <2>8. fake' = OwnedBy(conf.users, All(h, d), before)
    <3>1. AllOfRoot(before)
      BY DEF FileInv
    <3>2. PICK some : some = All(h, d - 1)
      OBVIOUS
    <3>3. PICK k : k = h[d]
      OBVIOUS
    <3>4. Chowned(t[k], fake) = OwnedBy(t, some \cup {k}, before)
      BY <2>2, <2>3, <2>5, <2>6, <3>1, <3>2, <3>3, OneMoreOwns
    <3> QED BY <1>2, <2>1, <2>3, <2>7, <3>2, <3>3, <3>4
  <2>9. d \in 0..n
    BY <2>1
  <2> QED BY <1>2, <1>3, <2>2, <2>8, <2>9, HomesSoFar
<1> QED BY <1>2, <1>3, ScriptGoesOn

\* makedevs reads one line after the other.
LEMMA LineBegins ==
    ASSUME R!ConfigsAssumption, ScriptInv, R!Running("makedevs"), R!ReadLine,
           NEW h, NEW n, Planned(h, n), RunsAsPlanned(h, n)
    PROVE  /\ Devs = 1 /\ n \in Nat /\ Len(script) - Len(left) = n + 1 /\ InTable
           /\ Len(dtable) \in Nat /\ read \in Nat /\ R!LineAssumption(R!Current)
           /\ read' \in 0..Len(dtable) /\ ret' \in {0, 1} /\ (ret' = 0 => read' = read + 1)
<1>1. pc = "script" /\ left # <<>> /\ Head(left).do = "makedevs"
  BY DEF R!Running
<1>2. PICK d : d = Len(script) - Len(left)
  OBVIOUS
<1>3. d \in Nat /\ d < Len(script) /\ Head(left) = script[d + 1]
  <2>1. Len(script) \in Nat /\ Remains(left, script)
    BY DEF Planned, Chowns, RunsAsPlanned
  <2> QED BY ONLY <1>1, <1>2, <2>1, OneLess
<1>4. Devs = 1 /\ d = n + 1 /\ n \in Nat
  BY <1>1, <1>3, WhichCommand
<1>5. InTable
  BY <1>2, <1>4 DEF RunsAsPlanned, SoFar
<1>6. Len(dtable) \in Nat /\ \A i \in 1..Len(dtable) : R!LineAssumption(dtable[i])
  BY <1>1, <1>4, TableIsList DEF Tabled
<1>7. read \in 0..Len(dtable) /\ ret \in {0, 1}
  BY <1>5 DEF InTable
<1>8. /\ read + 1 \in 1..Len(dtable) /\ read' \in 0..Len(dtable) /\ ret' \in {0, 1}
      /\ ret' = 0 => read' = read + 1
  BY <1>6, <1>7, ReadLineCounts
<1>9. R!LineAssumption(R!Current)
  BY <1>6, <1>8 DEF R!Current
<1> QED BY <1>2, <1>4, <1>5, <1>6, <1>7, <1>8, <1>9

LEMMA MakedevsLineStep ==
    ASSUME R!PathAssumption, R!TargetAssumption, R!ConfigsAssumption, FileInv, ScriptInv, R!MakedevsLine
    PROVE  ScriptInv'
<1>1. /\ UNCHANGED <<conf, accounts, utable, dtable, script, pc, todo, left, before, image>>
      /\ pc = "script" /\ R!Running("makedevs") /\ R!ReadLine
  BY DEF R!MakedevsLine, R!Running
<1>2. PICK h, n : Planned(h, n) /\ RunsAsPlanned(h, n)
  BY <1>1 DEF ScriptInv, Started
<1>3. /\ Devs = 1 /\ n \in Nat /\ Len(script) - Len(left) = n + 1 /\ InTable
      /\ Len(dtable) \in Nat /\ read \in Nat /\ R!LineAssumption(R!Current)
      /\ read' \in 0..Len(dtable) /\ ret' \in {0, 1} /\ (ret' = 0 => read' = read + 1)
  BY <1>1, <1>2, LineBegins
<1>4. Outcome
  BY <1>1, <1>3, ReadLineOutcome DEF FileInv
<1>5. Devs' = Devs
  BY <1>1 DEF Devs
<1>6. ret' = 0 => AsRead(read)'
  <2> SUFFICES ASSUME ret' = 0 PROVE AsRead(read)'
    OBVIOUS
  <2>1. PICK new : new = fake'
    OBVIOUS
  <2>2. PICK k : k = read
    OBVIOUS
  <2>3. Effect(fake, new, dtable[k + 1]) /\ ret = 0 /\ k \in Nat
    BY <1>3, <1>4, <2>1, <2>2 DEF Outcome, R!Current
  <2>4. AsTableIn(accounts, OwnedByAll(conf.users, before), fake, dtable, k)
    BY <1>3, <2>2, <2>3 DEF InTable, AsRead
  <2>5. AsTableIn(accounts, OwnedByAll(conf.users, before), new, dtable, k + 1)
    BY <2>3, <2>4, OneMoreEffect
  <2>6. fake' = new /\ read' = k + 1 /\ OwnedByAll(conf.users, before)' = OwnedByAll(conf.users, before)
    BY <1>1, <1>3, <2>1, <2>2
  <2> QED BY <1>1, <2>5, <2>6 DEF AsRead
<1>7. InTable'
  BY <1>1, <1>3, <1>6 DEF InTable
<1>8. SoFar(h, n, n + 1)'
  <2>1. n + 1 # 0 /\ n + 1 \notin 1..(n + 1 - 1) /\ ~(n + 1 <= n) /\ n + 1 # n + 2 /\ n + 1 # n + 2 + 1
    BY <1>3
  <2>2. Devs' = 1
    BY <1>3, <1>5
  <2> QED BY <1>7, <2>1, <2>2 DEF SoFar
<1>9. Len(script') - Len(left') = n + 1
  BY <1>1, <1>3
<1>10. Remains(left, script)'
  BY <1>1, <1>2 DEF RunsAsPlanned, Remains, IsList
<1>11. RunsAsPlanned(h, n)'
  BY <1>8, <1>9, <1>10 DEF RunsAsPlanned
<1>12. Planned(h, n)'
  BY <1>1, <1>2, <1>5 DEF Planned, Chowns, RunsMakedevs, Writes, Tabled
<1>13. (pc \in Tabled /\ Devs = 1 => dtable = conf.devices \o conf.permissions)'
  BY <1>1, <1>5 DEF ScriptInv, Tabled
<1>14. conf' \in Configs /\ utable' = conf'.users /\ pc' = "script"
  BY <1>1 DEF ScriptInv, Started
<1> QED BY <1>11, <1>12, <1>13, <1>14 DEF ScriptInv

LEMMA MakedevsEndStep ==
    ASSUME R!ConfigsAssumption, ScriptInv, R!MakedevsEnd
    PROVE  ScriptInv'
<1>1. /\ pc = "script" /\ left # <<>> /\ Head(left).do = "makedevs" /\ read = Len(dtable)
      /\ fake' = fake /\ image' = image /\ UNCHANGED R!devs
      /\ \/ ret = 0 /\ R!Continue
         \/ pc' = "failed" /\ conf' = conf
  BY DEF R!MakedevsEnd, R!Running
<1>2. CASE pc' = "failed" /\ conf' = conf
  BY <1>2, NotPlannedYet DEF Started, ScriptInv
<1>3. CASE ret = 0 /\ R!Continue
  <2>1. UNCHANGED <<before, conf, accounts, dtable, read>>
    BY <1>1, <1>3 DEF R!Continue, R!devs
  <2>2. ASSUME NEW h, NEW n \in Nat, NEW d \in Nat, Planned(h, n), d < Len(script),
               SoFar(h, n, d), Head(left) = script[d + 1]
        PROVE  SoFar(h, n, d + 1)'
    <3>1. Devs = 1 /\ d = n + 1
      BY <1>1, <2>2, WhichCommand
    <3>2. AsRead(Len(dtable))
      BY <1>1, <1>3, <2>2, <3>1 DEF SoFar, InTable
    <3>3. AsRead(Len(dtable))'
      <4>1. PICK b : b = OwnedByAll(conf.users, before)
        OBVIOUS
      <4>2. OwnedByAll(conf.users, before)' = b
        BY <2>1, <4>1
      <4> QED BY <1>1, <2>1, <3>2, <4>1, <4>2 DEF AsRead
    <3>4. Devs' = 1
      BY <2>1, <3>1 DEF Devs
    <3>5. d + 1 # 0 /\ d + 1 # n + 1 /\ d + 1 \notin 1..(n + 1 - 1) /\ ~(d + 1 <= n) /\ d + 1 # n + 2 + 1
      BY <3>1
    <3> QED BY <3>3, <3>4, <3>5 DEF SoFar
  <2> QED BY <1>1, <1>3, <2>2, ScriptGoesOn
<1> QED BY <1>1, <1>2, <1>3

\* The command of the image writes it.
LEMMA WrittenIsGood ==
    ASSUME R!PathAssumption, R!TargetAssumption, R!FormatsAssumption, FileInv, DoneInv, pc = "script",
           NEW f \in R!ToSet(Formats), image' = [image EXCEPT ![f] = {p \in Path : R!Is(fake, p)}]
    PROVE  Good(f)' /\ \A g \in R!ToSet(Formats) : Good(g) => Good(g)'
<1>1. PICK paths : paths = {p \in Path : R!Is(fake, p)}
  OBVIOUS
<1>2. Warning \notin paths
  BY <1>1 DEF FileInv
<1>3. paths # {}
  <2>1. PICK p \in Path : p # Warning /\ R!Is(Target, p)
    BY DEF R!TargetAssumption
  <2> QED BY <1>1, <2>1 DEF FileInv
<1>4. PICK new : new = image'
  OBVIOUS
<1>5. \A g \in R!ToSet(Formats) : new[g] = IF g = f THEN paths ELSE image[g]
  BY <1>1, <1>4 DEF DoneInv
<1> QED BY <1>2, <1>3, <1>4, <1>5 DEF Good, R!NoImage

LEMMA NextFormat ==
    ASSUME R!FormatsAssumption, todo # <<>>, Remains(todo, Formats)
    PROVE  /\ Len(Formats) \in Nat /\ Len(todo) \in Nat /\ Len(todo) > 0
           /\ Len(Formats) - Len(todo) + 1 \in 1..Len(Formats)
           /\ Head(todo) = Formats[Len(Formats) - Len(todo) + 1] /\ Head(todo) \in R!ToSet(Formats)
           /\ \A i \in 1..Len(Formats) : Formats[i] \in R!ToSet(Formats)
           /\ Remains(Rest(todo), Formats)
           /\ Len(Formats) - Len(Rest(todo)) = Len(Formats) - Len(todo) + 1
<1>1. PICK l : l = todo
  OBVIOUS
<1>2. PICK s : s = Formats
  OBVIOUS
<1>3. PICK d : d = Len(s) - Len(l)
  OBVIOUS
<1>4. s \in Seq(R!ToSet(s))
  BY <1>2 DEF R!FormatsAssumption
<1>5. Len(s) \in Nat /\ \A i \in 1..Len(s) : s[i] \in R!ToSet(s)
  BY ONLY <1>4
<1>6. l # <<>> /\ Remains(l, s)
  BY <1>1, <1>2
<1>7. d \in Nat /\ d < Len(s) /\ Head(l) = s[d + 1] /\ Remains(Rest(l), s) /\ Len(s) - Len(Rest(l)) = d + 1
  BY ONLY <1>3, <1>5, <1>6, OneLess
<1>8. Len(l) \in Nat /\ Len(l) <= Len(s)
  BY <1>6 DEF Remains
<1>9. Len(l) > 0 /\ d + 1 \in 1..Len(s)
  BY <1>3, <1>5, <1>7, <1>8
<1> QED BY <1>1, <1>2, <1>3, <1>5, <1>7, <1>8, <1>9

LEMMA WriteStep ==
    ASSUME R!PathAssumption, R!TargetAssumption, R!FormatsAssumption, FileInv, ScriptInv, DoneInv, R!WriteImage
    PROVE  ScriptInv'
<1>1. /\ pc = "script" /\ left # <<>> /\ Head(left).do = "image" /\ R!Continue
      /\ image' = [image EXCEPT ![Head(left).of] = {p \in Path : R!Is(fake, p)}]
      /\ fake' = fake
  BY DEF R!WriteImage, R!Running
<1>2. UNCHANGED <<conf, todo, accounts, before, dtable>>
  BY <1>1 DEF R!Continue
<1>3. Head(todo) \in R!ToSet(Formats)
  BY <1>1, NextFormat DEF DoneInv
<1>4. ASSUME NEW h, NEW n \in Nat, NEW d \in Nat, Planned(h, n), d < Len(script),
             SoFar(h, n, d), Head(left) = script[d + 1]
      PROVE  SoFar(h, n, d + 1)'
  <2>1. PICK k : k = Devs
    OBVIOUS
  <2>2. d = n + 1 + k /\ k \in {0, 1} /\ Head(left).of = Head(todo)
    BY <1>1, <1>4, <2>1, WhichCommand
  <2>3. Devs' = k
    BY <1>2, <2>1 DEF Devs
  <2>4. Good(Head(todo))'
    <3>1. PICK f : f = Head(todo)
      OBVIOUS
    <3>2. Good(f)'
      BY <1>1, <1>3, <2>2, <3>1, WrittenIsGood
    <3> QED BY <1>2, <3>1, <3>2 DEF Good
  <2>5. d + 1 # 0 /\ d + 1 \notin 1..(n + 1 - k) /\ ~(d + 1 <= n) /\ (k = 1 => d + 1 # n + 1 /\ d + 1 # n + 2)
    BY <2>2
  <2> QED BY <2>3, <2>4, <2>5 DEF SoFar
<1> QED BY <1>1, <1>4, ScriptGoesOn

LEMMA ScriptStep ==
    ASSUME R!RootfsAssumption, FileInv, ScriptInv, DoneInv, [R!Next]_R!vars
    PROVE  ScriptInv'
<1> USE DEF R!RootfsAssumption
<1>1. CASE R!Make \/ R!Clean \/ R!Restore \/ R!End \/ R!Stop
  <2>1. /\ conf' \in Configs /\ pc' \notin Started \cup {"users", "mkusers", "failed"}
        /\ pc' = "chown" => script' = <<>> /\ utable' = <<>>
        /\ read' = 0 /\ ret' = 0
    <3>1. conf \in Configs /\ (pc \in {"off", "clean", "made"} => read = 0 /\ ret = 0)
      BY DEF ScriptInv
    <3>2. CASE R!Make \/ R!Clean \/ R!End
      BY <3>1, <3>2 DEF R!Make, R!Clean, R!End, R!Go, R!devs, Started
    <3>3. CASE R!Restore \/ R!Stop
      BY <3>1, <3>3 DEF R!Restore, R!Stop, R!Over, Started
    <3> QED BY <1>1, <3>2, <3>3
  <2> QED BY <2>1, NotPlannedYet
<1>2. CASE R!Chown
  BY <1>2, BeginStep
<1>3. CASE R!UsersTable
  <2>1. /\ UNCHANGED <<conf, script>> /\ AtBegin /\ pc' = "mkusers"
        /\ utable' = conf.users /\ read' = 0 /\ ret' = 0
    <3>1. UNCHANGED <<conf, script, read, ret>> /\ pc = "users" /\ pc' = "mkusers" /\ utable' = utable \o conf.users
      BY <1>3 DEF R!UsersTable, R!Go, R!devs
    <3>2. AtBegin /\ utable = <<>> /\ conf \in Configs /\ read = 0 /\ ret = 0
      BY <3>1 DEF ScriptInv
    <3>3. PICK t : t = conf.users
      OBVIOUS
    <3>4. t \in Seq(R!ToSet(t))
      BY <3>2, <3>3 DEF R!ConfigsAssumption
    <3>5. <<>> \o t = t
      BY ONLY <3>4
    <3> QED BY <3>1, <3>2, <3>3, <3>5
  <2> QED BY <2>1 DEF ScriptInv, AtBegin, IsList, Started, Tabled
<1>4. CASE R!MkUsers
  BY <1>4, HomesStep
<1>5. CASE R!DeviceTable \/ R!NoDeviceTable
  BY <1>5, DeviceTableStep
<1>6. CASE R!Permissions
  BY <1>6, PermissionsStep
<1>7. CASE R!Command
  BY <1>7, CommandStep
<1>8. CASE R!Fakeroot
  BY <1>8, FakerootStep
<1>9. CASE R!ChownAll
  BY <1>9, ChownAllStep
<1>10. CASE R!ChownHome
  BY <1>10, ChownHomeStep
<1>11. CASE R!MakedevsLine
  BY <1>11, MakedevsLineStep
<1>12. CASE R!MakedevsEnd
  BY <1>12, MakedevsEndStep
<1>13. CASE R!WriteImage
  BY <1>13, WriteStep
<1>14. CASE UNCHANGED R!vars
  <2>1. /\ UNCHANGED <<conf, target, accounts, utable, dtable, script, pc, left, fake, before>>
        /\ UNCHANGED <<todo, image, read, ret>>
    BY <1>14 DEF R!vars, R!files, R!devs
  <2>2. Devs' = Devs
    BY <2>1 DEF Devs
  <2>3. \A h, n : Planned(h, n)' <=> Planned(h, n)
    BY <2>1, <2>2 DEF Planned, Chowns, RunsMakedevs, Writes, Tabled
  <2>4. \A n : AsRead(n)' <=> AsRead(n)
    BY <2>1 DEF AsRead
  <2>5. \A h, n, d : SoFar(h, n, d)' <=> SoFar(h, n, d)
    BY <2>1, <2>2, <2>4 DEF SoFar, InTable, Good
  <2>6. \A h, n : RunsAsPlanned(h, n)' <=> RunsAsPlanned(h, n)
    BY <2>1, <2>5 DEF RunsAsPlanned, Remains, IsList
  <2> QED BY <2>1, <2>2, <2>3, <2>6 DEF ScriptInv, AtBegin, IsList
<1> QED BY <1>1, <1>2, <1>3, <1>4, <1>5, <1>6, <1>7, <1>8, <1>9, <1>10, <1>11, <1>12, <1>13, <1>14 DEF R!Next

-----------------------------------------------------------------------------
(***************************************************************************)
(* The target directory, whatever fails.                                   *)
(***************************************************************************)
\* Nothing is where the warning would be, which is no directory.
LEMMA WarningFacts ==
    ASSUME R!PathAssumption, R!TargetAssumption
    PROVE  /\ Warning \in Path /\ R!Is(Target, Warning) /\ OfRoot(Target[Warning])
           /\ Target[Warning].kind # "d" /\ R!NoNode.kind # "d"
<1>1. Warning \in Path /\ Target[Warning].kind = "f"
  BY DEF R!TargetAssumption
<1>2. R!NoNode.kind = "none"
  BY DEF R!NoNode
<1>3. OfRoot(Target[Warning])
  BY <1>1, TargetIsOfRoot DEF AllOfRoot
<1>4. R!Is(Target, Warning)
  BY <1>1, <1>2 DEF R!Is
<1> QED BY <1>1, <1>2, <1>3, <1>4

\* The warning comes and goes.
Put(fs, n) == [fs EXCEPT ![Warning] = n]

LEMMA WarningReplaced ==
    ASSUME R!PathAssumption, R!TargetAssumption, NEW fs, AllOfRoot(fs), R!Whole(fs),
           fs[Warning] \in {R!NoNode, Target[Warning]},
           NEW n \in {R!NoNode, Target[Warning]}, NEW new, new = Put(fs, n)
    PROVE  AllOfRoot(new) /\ R!Whole(new) /\ \A p \in Path : new[p] = IF p = Warning THEN n ELSE fs[p]
<1>1. OfRoot(n)
  BY WarningFacts DEF OfRoot
<1>2. AllOfRoot(new) /\ \A p \in Path : new[p] = IF p = Warning THEN n ELSE fs[p]
  <2>1. \A p \in Path : new[p] = IF p = Warning THEN n ELSE fs[p]
    BY DEF AllOfRoot, Put
  <2>2. new = [p \in Path |-> new[p]]
    BY DEF AllOfRoot, Put
  <2>3. \A p \in Path : OfRoot(new[p])
    BY <1>1, <2>1 DEF AllOfRoot
  <2> QED BY <2>1, <2>2, <2>3 DEF AllOfRoot
<1>3. fs[Warning].kind # "d"
  BY WarningFacts
<1>4. ASSUME NEW p \in Path, NEW q \in Path, R!Is(new, p), R!IsStrictPrefix(q, p)
      PROVE  new[q].kind = "d"
  <2>1. p # Warning
    BY <1>4, NothingAboveWarning
  <2>2. R!Is(fs, p)
    BY <1>2, <1>4, <2>1 DEF R!Is
  <2>3. fs[q].kind = "d"
    BY <1>4, <2>2 DEF R!Whole
  <2> QED BY <1>2, <1>3, <2>3
<1> QED BY <1>2, <1>4 DEF R!Whole

\* A step of the script: what it leaves to prove
LEMMA FakeStep ==
    ASSUME R!PathAssumption, R!TargetAssumption, FileInv, pc = "script", pc' \in {"script", "failed"},
           before' = before,
           Safe(fake, fake'), target' = [p \in Path |-> R!Real(fake'[p])]
    PROVE  FileInv'
<1>1. PICK new : new = fake'
  OBVIOUS
<1>2. PICK real : real = target'
  OBVIOUS
<1>3. Typed(new) /\ R!Whole(new) /\ (R!Is(new, Warning) => R!Is(fake, Warning))
  BY <1>1, WarningFacts DEF Safe
<1>4. \A p \in Path : R!Is(fake, p) => R!Is(new, p)
  BY <1>1 DEF Safe
<1>5. real = [p \in Path |-> R!Real(new[p])]
  BY <1>1, <1>2
<1>6. AllOfRoot(real) /\ R!Whole(real) /\ \A p \in Path : R!Is(real, p) <=> R!Is(new, p)
  BY <1>3, <1>5, ShownIsOfRoot
<1>7. ~R!Is(new, Warning) /\ real[Warning] = R!NoNode
  BY <1>3, <1>6, WarningFacts DEF FileInv, R!Is
<1>8. \A p \in Path : p # Warning /\ R!Is(Target, p) => R!Is(real, p) /\ R!Is(new, p)
  BY <1>4, <1>6 DEF FileInv
<1> QED BY <1>1, <1>2, <1>3, <1>6, <1>7, <1>8 DEF FileInv, AllOfRoot, OfRoot, Typed, R!Whole, R!Is

LEMMA MkUsersFiles ==
    ASSUME R!PathAssumption, R!TargetAssumption, R!ConfigsAssumption, FileInv, ScriptInv, R!MkUsers
    PROVE  FileInv'
<1> DEFINE Of(p) == {l \in R!ToSet(utable) : R!IsPrefix(p, l.home)}
           OnWay(p) == \E l \in R!ToSet(utable) : R!IsPrefix(p, l.home)
           New(p) == OnWay(p) /\ ~R!Is(target, p)
           dir == R!Node("d", 493, 0, 0, <<0, 0>>)
<1>1. /\ pc = "mkusers" /\ pc' = "devices" /\ UNCHANGED <<before, fake>>
      /\ \A p \in Path : OnWay(p) /\ R!Is(target, p) => R!IsDir(target, p)
      /\ target' = [p \in Path |-> IF New(p) THEN dir ELSE target[p]]
  <2>1. \A p : Of(p) # {} <=> OnWay(p)
    OBVIOUS
  <2>2. /\ \A p \in Path : Of(p) # {} /\ R!Is(target, p) => R!IsDir(target, p)
        /\ target' = [p \in Path |-> IF Of(p) # {} /\ ~R!Is(target, p) THEN dir ELSE target[p]]
    BY DEF R!MkUsers, R!AddUsers
  <2>3. /\ \A p \in Path : OnWay(p) /\ R!Is(target, p) => R!IsDir(target, p)
        /\ target' = [p \in Path |-> IF New(p) THEN dir ELSE target[p]]
    <3> HIDE DEF Of, OnWay, dir
    <3> QED BY <2>1, <2>2
  <2> QED BY <2>3 DEF R!MkUsers, R!Go
<1>2. PICK new : new = target'
  OBVIOUS
<1>3. \A l \in R!ToSet(utable) : l.home \in Path /\ ~R!IsPrefix(Warning, l.home)
  <2>1. PICK c \in Configs : c = conf
    BY DEF ScriptInv
  <2>2. utable = c.users
    BY <1>1, <2>1 DEF ScriptInv
  <2> QED BY <2>2 DEF R!ConfigsAssumption, R!UserAssumption
<1>4. <<>> \notin Path
  BY DEF R!PathAssumption
<1>5. \A p \in Path : OnWay(p) /\ R!Is(target, p) => target[p].kind = "d"
  BY <1>1, <1>4 DEF R!IsDir
<1>6. OfRoot(dir) /\ dir # R!NoNode /\ dir.kind = "d"
  <2>1. "d" \in Kinds
    BY DEF Kinds
  <2>2. dir # R!NoNode /\ dir.kind = "d"
    BY <2>1, NodeFacts
  <2>3. OfRoot(R!Node("d", 493, 0, 0, <<0, 0>>))
    BY DEF OfRoot
  <2> QED BY <2>2, <2>3
<1>7. \A p, q \in Path : OnWay(p) /\ R!IsStrictPrefix(q, p) => OnWay(q)
  BY <1>3, PrefixFacts
<1>8. ~OnWay(Warning)
  BY <1>3
<1> HIDE DEF OnWay, dir
<1>9. new = [p \in Path |-> IF New(p) THEN dir ELSE target[p]]
  BY <1>1, <1>2
<1>10. \A p \in Path : new[p] = IF New(p) THEN dir ELSE target[p]
  BY ONLY <1>9
<1>11. new = [p \in Path |-> new[p]]
  BY ONLY <1>9
<1>12. \A p \in Path : OfRoot(new[p]) /\ (R!Is(new, p) <=> R!Is(target, p) \/ OnWay(p))
  BY <1>6, <1>10 DEF FileInv, AllOfRoot, R!Is
<1>13. ASSUME NEW p \in Path, NEW q \in Path, R!Is(new, p), R!IsStrictPrefix(q, p)
       PROVE  new[q].kind = "d"
  <2>1. CASE R!Is(target, p)
    <3>1. target[q].kind = "d"
      BY <1>13, <2>1 DEF FileInv, R!Whole
    <3> QED BY <1>6, <1>10, <3>1
  <2>2. CASE OnWay(p)
    <3>1. OnWay(q)
      BY <1>7, <1>13, <2>2
    <3> QED BY <1>5, <1>6, <1>10, <3>1
  <2> QED BY <1>12, <1>13, <2>1, <2>2
<1>14. AllOfRoot(new) /\ R!Whole(new)
  BY <1>11, <1>12, <1>13 DEF AllOfRoot, R!Whole
<1>15. new[Warning] = target[Warning]
  BY <1>8, <1>10, WarningFacts
<1>16. \A p \in Path : R!Is(target, p) => R!Is(new, p)
  BY <1>12
<1>17. target[Warning] = R!NoNode
  BY <1>1 DEF FileInv, InRecipe
<1> QED BY <1>1, <1>2, <1>14, <1>15, <1>16, <1>17 DEF FileInv, AllOfRoot, OfRoot, Typed, R!Whole, R!Is

LEMMA FilesSame ==
    ASSUME FileInv, UNCHANGED <<target, before, fake>>,
           pc' \in InRecipe => pc \in InRecipe, pc' = "script" => pc = "script"
    PROVE  FileInv'
BY DEF FileInv, AllOfRoot, OfRoot, Typed, R!Whole, R!Is

LEMMA FileStep ==
    ASSUME R!RootfsAssumption, FileInv, ScriptInv, [R!Next]_R!vars
    PROVE  FileInv'
<1> USE DEF R!RootfsAssumption
<1>1. CASE R!Make \/ R!Chown \/ R!UsersTable \/ R!DeviceTable \/ R!NoDeviceTable \/ R!Permissions
           \/ R!Command \/ R!End
  <2>1. /\ UNCHANGED <<target, before, fake>>
        /\ pc' \in InRecipe => pc \in InRecipe
        /\ pc' = "script" => pc = "script"
    BY <1>1 DEF R!Make, R!Chown, R!UsersTable, R!DeviceTable, R!NoDeviceTable, R!Permissions, R!Command,
       R!End, R!files, R!Go,
      InRecipe, Started
  <2> QED BY <2>1, FilesSame
<1>2. CASE R!WriteImage \/ R!MakedevsEnd \/ UNCHANGED R!vars
  <2>1. /\ UNCHANGED <<target, before, fake>>
        /\ pc' \in InRecipe => pc \in InRecipe
        /\ pc' = "script" => pc = "script"
    BY <1>2 DEF R!WriteImage, R!MakedevsEnd, R!Continue, R!Running, R!vars, R!files, InRecipe, Started
  <2> QED BY <2>1, FilesSame
<1>3. CASE R!Clean
  <2>1. target' = Put(target, R!NoNode) /\ UNCHANGED <<before, fake>> /\ pc' = "chown"
    BY <1>3 DEF R!Clean, R!Go, Put
  <2>2. PICK new : new = target'
    OBVIOUS
  <2>3. AllOfRoot(new) /\ R!Whole(new) /\ \A p \in Path : new[p] = IF p = Warning THEN R!NoNode ELSE target[p]
    <3>1. /\ R!PathAssumption /\ R!TargetAssumption /\ AllOfRoot(target) /\ R!Whole(target)
          /\ target[Warning] \in {R!NoNode, Target[Warning]}
      BY DEF FileInv
    <3>2. R!NoNode \in {R!NoNode, Target[Warning]}
      OBVIOUS
    <3> QED BY ONLY <2>1, <2>2, <3>1, <3>2, WarningReplaced
  <2>4. new[Warning] = R!NoNode
    BY <2>3, WarningFacts
  <2>5. AllOfRoot(target)' /\ R!Whole(target)' /\ AllOfRoot(before)' /\ Typed(fake)' /\ R!Whole(fake)'
    BY <2>1, <2>2, <2>3 DEF FileInv, AllOfRoot, OfRoot, Typed, R!Whole, R!Is
  <2>6. /\ (target[Warning] \in {R!NoNode, Target[Warning]})'
        /\ (pc \in InRecipe => target[Warning] = R!NoNode)'
        /\ (pc = "script" => ~R!Is(fake, Warning))'
    BY <2>1, <2>2, <2>4
  <2>7. (\A p \in Path : p # Warning /\ R!Is(Target, p) => R!Is(target, p) /\ R!Is(fake, p))'
    BY <2>1, <2>2, <2>3 DEF FileInv, R!Is
  <2> QED BY <2>5, <2>6, <2>7 DEF FileInv
<1>4. CASE R!MkUsers
  BY <1>4, MkUsersFiles
<1>5. CASE R!Fakeroot
  <2>1. UNCHANGED target /\ fake' = target /\ before' = target /\ pc = "fakeroot" /\ pc' = "script"
    BY <1>5 DEF R!Fakeroot, R!files
  <2>2. Typed(target) /\ target[Warning] = R!NoNode
    BY <2>1, AllOfRootTyped DEF FileInv, InRecipe, Started
  <2> QED BY <2>1, <2>2 DEF FileInv, AllOfRoot, OfRoot, Typed, R!Whole, R!Is
<1>6. CASE R!ChownAll
  <2>1. PICK new : new = fake'
    OBVIOUS
  <2>2. /\ new = [p \in Path |-> IF p \in Path THEN To(fake[p], 0) ELSE fake[p]]
        /\ target' = [p \in Path |-> R!Real(fake'[p])] /\ before' = before /\ pc = "script" /\ pc' = "script"
    BY <1>6, <2>1 DEF R!ChownAll, R!Running, R!Shows, R!Continue, To
  <2>3. Safe(fake, new)
    BY <2>2, ChownedIsSafe DEF FileInv
  <2> QED BY <2>1, <2>2, <2>3, FakeStep
<1>7. CASE R!ChownHome
  <2>1. PICK new : new = fake'
    OBVIOUS
  <2>2. PICK l : l = Head(left).of
    OBVIOUS
  <2>3. PICK mine : mine = {p \in R!Below(l.home) : R!Is(fake, p)}
    OBVIOUS
  <2>4. /\ new = [p \in Path |-> IF p \in mine THEN To(fake[p], Uid[l.user]) ELSE fake[p]]
        /\ target' = [p \in Path |-> R!Real(fake'[p])] /\ before' = before /\ pc = "script" /\ pc' = "script"
    BY <1>7, <2>1, <2>2, <2>3 DEF R!ChownHome, R!Running, R!Shows, R!Continue, To
  <2>5. Safe(fake, new)
    BY <2>3, <2>4, ChownedIsSafe DEF FileInv
  <2> QED BY <2>1, <2>4, <2>5, FakeStep
<1>8. CASE R!MakedevsLine
  <2>1. /\ R!Running("makedevs") /\ R!ReadLine /\ pc = "script" /\ pc' = "script" /\ before' = before
        /\ target' = [p \in Path |-> R!Real(fake'[p])]
    BY <1>8 DEF R!MakedevsLine, R!Running
  <2>2. PICK h, n : Planned(h, n) /\ RunsAsPlanned(h, n)
    BY <2>1 DEF ScriptInv, Started
  <2>3. R!LineAssumption(R!Current)
    BY <2>1, <2>2, LineBegins
  <2>4. Safe(fake, fake')
    BY <2>1, <2>3, ReadLineOutcome DEF FileInv, Outcome
  <2> QED BY <2>1, <2>4, FakeStep
<1>9. CASE R!Restore
  <2>1. /\ target' = Put(target, Target[Warning]) /\ before' = Target /\ fake' = Target
        /\ pc' \in {"made", "clean"}
    BY <1>9 DEF R!Restore, R!Over, Put
  <2>2. PICK new : new = target'
    OBVIOUS
  <2>3. /\ AllOfRoot(new) /\ R!Whole(new)
        /\ \A p \in Path : new[p] = IF p = Warning THEN Target[Warning] ELSE target[p]
    <3>1. /\ R!PathAssumption /\ R!TargetAssumption /\ AllOfRoot(target) /\ R!Whole(target)
          /\ target[Warning] \in {R!NoNode, Target[Warning]}
      BY DEF FileInv
    <3>2. Target[Warning] \in {R!NoNode, Target[Warning]}
      OBVIOUS
    <3> QED BY ONLY <2>1, <2>2, <3>1, <3>2, WarningReplaced
  <2>4. new[Warning] = Target[Warning]
    BY <2>3, WarningFacts
  <2>5. AllOfRoot(Target) /\ R!Whole(Target) /\ Typed(Target)
    BY TargetIsOfRoot
  <2>6. AllOfRoot(target)' /\ R!Whole(target)' /\ AllOfRoot(before)' /\ Typed(fake)' /\ R!Whole(fake)'
    BY <2>1, <2>2, <2>3, <2>5 DEF AllOfRoot, OfRoot, Typed, R!Whole, R!Is
  <2>7. (target[Warning] \in {R!NoNode, Target[Warning]})' /\ pc' \notin InRecipe \cup {"script"}
    BY <2>1, <2>2, <2>4 DEF InRecipe, Started
  <2>8. (\A p \in Path : p # Warning /\ R!Is(Target, p) => R!Is(target, p) /\ R!Is(fake, p))'
    BY <2>1, <2>2, <2>3 DEF FileInv, R!Is
  <2> QED BY <2>6, <2>7, <2>8 DEF FileInv
<1>10. CASE R!Stop
  <2>1. UNCHANGED target /\ before' = Target /\ fake' = Target /\ pc' = "off"
    BY <1>10 DEF R!Stop, R!Over, R!files
  <2> QED BY <2>1, TargetIsOfRoot DEF FileInv, AllOfRoot, OfRoot, Typed, R!Whole, R!Is, InRecipe, Started
<1> QED BY <1>1, <1>2, <1>3, <1>4, <1>5, <1>6, <1>7, <1>8, <1>9, <1>10 DEF R!Next

-----------------------------------------------------------------------------
(***************************************************************************)
(* The images, one format after the other.                                 *)
(***************************************************************************)
LEMMA ImagesSame ==
    ASSUME DoneInv, UNCHANGED <<image, todo>>, pc \notin {"off", "made"}, pc' \notin {"off", "made"}
    PROVE  DoneInv'
BY DEF DoneInv, Good, Remains, IsList

\* When the script is over, its image is written.
LEMMA ScriptIsOver ==
    ASSUME ScriptInv, pc = "script", left = <<>>
    PROVE  Good(Head(todo))
<1>1. PICK h, n : Planned(h, n) /\ RunsAsPlanned(h, n)
  BY DEF ScriptInv, Started
<1>2. Len(left) = 0 /\ Len(script) = n + 2 + Devs /\ Len(script) \in Nat
  BY <1>1 DEF Planned, Chowns
<1>3. Len(script) - Len(left) = n + 2 + Devs
  BY <1>2
<1> QED BY <1>1, <1>3 DEF RunsAsPlanned, SoFar

LEMMA DoneStep ==
    ASSUME R!RootfsAssumption, FileInv, ScriptInv, DoneInv, [R!Next]_R!vars
    PROVE  DoneInv'
<1> USE DEF R!RootfsAssumption
<1>1. CASE R!Clean \/ R!Chown \/ R!UsersTable \/ R!MkUsers \/ R!DeviceTable \/ R!NoDeviceTable
           \/ R!Permissions \/ R!Command
  <2>1. UNCHANGED <<image, todo>> /\ pc \notin {"off", "made"} /\ pc' \notin {"off", "made"}
    BY <1>1 DEF R!Clean, R!Chown, R!UsersTable, R!MkUsers, R!DeviceTable, R!NoDeviceTable, R!Permissions,
       R!Command, R!Go
  <2> QED BY <2>1, ImagesSame
<1>2. CASE R!Fakeroot \/ R!ChownAll \/ R!ChownHome \/ R!MakedevsLine \/ R!MakedevsEnd
  <2>1. UNCHANGED <<image, todo>> /\ pc \notin {"off", "made"} /\ pc' \notin {"off", "made"}
    BY <1>2 DEF R!Fakeroot, R!ChownAll, R!ChownHome, R!MakedevsLine, R!MakedevsEnd, R!Running, R!Continue
  <2> QED BY <2>1, ImagesSame
<1>3. CASE R!Make
  <2>1. image' = image /\ todo' = Formats /\ pc' = "clean"
    BY <1>3 DEF R!Make
  <2>2. PICK s : s = Formats
    OBVIOUS
  <2>3. s \in Seq(R!ToSet(s)) /\ s # <<>>
    BY <2>2 DEF R!FormatsAssumption
  <2>4. Remains(s, s) /\ 1..(Len(s) - Len(s)) = {}
    <3>1. IsList(s) /\ Len(s) \in Nat
      BY ONLY <2>3 DEF IsList
    <3> QED BY <3>1 DEF Remains
  <2> QED BY <2>1, <2>2, <2>3, <2>4 DEF DoneInv, Remains, IsList
<1>4. CASE R!WriteImage
  <2>1. /\ image' = [image EXCEPT ![Head(left).of] = {p \in Path : R!Is(fake, p)}]
        /\ todo' = todo /\ pc = "script" /\ pc' = "script"
    BY <1>4 DEF R!WriteImage, R!Running, R!Continue
  <2>2. Head(left).of = Head(todo)
    <3>1. PICK h, n : Planned(h, n) /\ RunsAsPlanned(h, n)
      BY <2>1 DEF ScriptInv, Started
    <3>2. left # <<>> /\ Head(left).do = "image"
      BY <1>4 DEF R!WriteImage, R!Running
    <3>3. PICK d : d = Len(script) - Len(left)
      OBVIOUS
    <3>4. d \in Nat /\ d < Len(script) /\ Head(left) = script[d + 1]
      <4>1. Len(script) \in Nat /\ Remains(left, script)
        BY <3>1 DEF Planned, Chowns, RunsAsPlanned
      <4> QED BY ONLY <3>2, <3>3, <4>1, OneLess
    <3> QED BY <2>1, <3>1, <3>2, <3>4, WhichCommand
  <2>3. PICK f \in R!ToSet(Formats) : f = Head(todo)
    BY <2>1, NextFormat DEF DoneInv
  <2>4. \A g \in R!ToSet(Formats) : Good(g) => Good(g)'
    BY <2>1, <2>2, <2>3, WrittenIsGood
  <2>5. Remains(todo, Formats) /\ todo # <<>>
    BY <2>1 DEF DoneInv
  <2>6. \A i \in 1..(Len(Formats) - Len(todo)) : Formats[i] \in R!ToSet(Formats)
    <3>1. /\ Len(Formats) \in Nat /\ Len(todo) \in Nat /\ Len(todo) > 0
          /\ \A i \in 1..Len(Formats) : Formats[i] \in R!ToSet(Formats)
      BY <2>5, NextFormat
    <3> QED BY <3>1
  <2>7. \A i \in 1..(Len(Formats) - Len(todo)) : Good(Formats[i])'
    BY <2>1, <2>4, <2>6 DEF DoneInv
  <2>8. image' = [g \in R!ToSet(Formats) |-> image'[g]]
    BY <2>1 DEF DoneInv
  <2> QED BY <2>1, <2>5, <2>7, <2>8 DEF DoneInv, Good, Remains, IsList
<1>5. CASE R!Restore
  <2>1. /\ image' = image /\ todo' = Rest(todo) /\ pc = "script" /\ left = <<>>
        /\ pc' = (IF Len(todo) = 1 THEN "made" ELSE "clean")
        /\ target' = [target EXCEPT ![Warning] = Target[Warning]]
    BY <1>5 DEF R!Restore, R!Over, Rest
  <2>2. todo # <<>> /\ Remains(todo, Formats) /\ Good(Head(todo))
    BY <2>1, ScriptIsOver DEF DoneInv
  <2>3. PICK k : k = Len(Formats) - Len(todo)
    OBVIOUS
  <2>4. /\ Len(Formats) \in Nat /\ Len(todo) \in Nat /\ Len(todo) > 0
        /\ k + 1 \in 1..Len(Formats) /\ Good(Formats[k + 1])
        /\ Remains(Rest(todo), Formats) /\ Len(Formats) - Len(Rest(todo)) = k + 1
    BY <2>2, <2>3, NextFormat
  <2>5. k \in Nat /\ \A i \in 1..k : Good(Formats[i])
    <3>1. \A i \in 1..(Len(Formats) - Len(todo)) : Good(Formats[i])
      BY <2>1 DEF DoneInv
    <3> QED BY <2>3, <2>4, <3>1
  <2>6. \A i \in 1..(k + 1) : Good(Formats[i])
    BY <2>4, <2>5
  <2>7. CASE Len(todo) # 1
    <3>1. Len(Rest(todo)) = Len(todo) - 1 /\ Rest(todo) # <<>>
      <4>1. Len(Rest(todo)) = Len(todo) - 1
        BY <2>2, RestFacts DEF Remains
      <4> QED BY <2>4, <2>7, <4>1
    <3> QED BY <2>1, <2>4, <2>6, <2>7, <3>1 DEF DoneInv, Good, Remains, IsList
  <2>8. CASE Len(todo) = 1
    <3>1. k + 1 = Len(Formats)
      BY <2>3, <2>4, <2>8
    <3>2. \A f \in R!ToSet(Formats) : Good(f)
      <4>1. R!ToSet(Formats) = {Formats[i] : i \in 1..Len(Formats)}
        <5>1. PICK s : s = Formats
          OBVIOUS
        <5>2. s \in Seq(R!ToSet(s))
          BY <5>1 DEF R!FormatsAssumption
        <5>3. DOMAIN s = 1..Len(s)
          BY ONLY <5>2
        <5> QED BY <5>1, <5>3 DEF R!ToSet
      <4> QED BY <2>6, <3>1, <4>1
    <3>3. R!Is(target, Warning)'
      BY <2>1, WarningFacts DEF R!Is, FileInv, AllOfRoot
    <3> QED BY <2>1, <2>8, <3>2, <3>3 DEF DoneInv, Good
  <2> QED BY <2>7, <2>8
<1>6. CASE R!End
  BY <1>6 DEF R!End, DoneInv
<1>7. CASE R!Stop
  BY <1>7 DEF R!Stop, DoneInv
<1>8. CASE UNCHANGED R!vars
  BY <1>8 DEF R!vars, R!files, DoneInv, Good, Remains, IsList, R!Is
<1> QED BY <1>1, <1>2, <1>3, <1>4, <1>5, <1>6, <1>7, <1>8 DEF R!Next

-----------------------------------------------------------------------------
LEMMA ImagesBegin ==
    ASSUME R!RootfsAssumption, R!Init
    PROVE  FileInv /\ ScriptInv /\ DoneInv
<1>1. FileInv
  BY TargetIsOfRoot DEF R!RootfsAssumption, R!Init, FileInv, InRecipe, Started
<1>2. ScriptInv
  BY DEF R!Init, ScriptInv, Started, Tabled
<1>3. DoneInv
  BY DEF R!Init, DoneInv
<1> QED BY <1>1, <1>2, <1>3

\* fakeroot shows what the tables that are configured make of the target
\* directory, when the command of an image runs.
LEMMA ScriptIsEnough ==
    ASSUME ScriptInv
    PROVE  R!ImageAsTables
<1> SUFFICES ASSUME R!Running("image")
             PROVE  /\ conf.devices = R!NoTable => fake = R!Owned(before)
                    /\ conf.devices # R!NoTable =>
                       LET lines == conf.devices \o conf.permissions
                       IN  R!AsTable(R!Owned(before), fake, lines, Len(lines))
  BY DEF R!ImageAsTables
<1>1. pc = "script" /\ left # <<>> /\ Head(left).do = "image"
  BY DEF R!Running
<1>2. utable = conf.users
  BY <1>1 DEF ScriptInv, Started
<1>3. PICK h, n : Planned(h, n) /\ RunsAsPlanned(h, n)
  BY <1>1 DEF ScriptInv, Started
<1>4. PICK d : d = Len(script) - Len(left)
  OBVIOUS
<1>5. d \in Nat /\ d < Len(script) /\ Head(left) = script[d + 1]
  <2>1. Len(script) \in Nat /\ Remains(left, script)
    BY <1>3 DEF Planned, Chowns, RunsAsPlanned
  <2> QED BY ONLY <1>1, <1>4, <2>1, OneLess
<1>6. d = n + 1 + Devs /\ n \in Nat
  BY <1>1, <1>3, <1>5, WhichCommand
<1>7. SoFar(h, n, d)
  BY <1>3, <1>4 DEF RunsAsPlanned
<1>8. CASE conf.devices = R!NoTable
  <2>1. Devs = 0 /\ d \in 1..(n + 1 - Devs) /\ d - 1 = n
    BY <1>6, <1>8 DEF Devs
  <2>2. fake = OwnedBy(conf.users, All(h, n), before)
    BY <1>7, <2>1 DEF SoFar
  <2>3. All(h, n) = DOMAIN conf.users
    BY <1>3 DEF Planned, ListsUsers, All
  <2> QED BY <1>2, <1>8, <2>2, <2>3, OwnedIs DEF OwnedByAll
<1>9. CASE conf.devices # R!NoTable
  <2>1. Devs = 1 /\ d = n + 2
    BY <1>6, <1>9 DEF Devs
  <2>2. AsRead(Len(dtable))
    BY <1>7, <2>1 DEF SoFar
  <2>3. dtable = conf.devices \o conf.permissions
    BY <1>1, <2>1 DEF ScriptInv, Tabled
  <2>4. R!AsTable(R!Owned(before), fake, dtable, Len(dtable))
    BY <1>2, <2>2, OwnedIs, AsTableIs DEF AsRead
  <2> QED BY <1>9, <2>3, <2>4
<1> QED BY <1>8, <1>9

LEMMA DoneIsEnough == DoneInv => R!ImagesAreWhole
BY DEF DoneInv, R!ImagesAreWhole, Good

LEMMA ImagesInit == Init /\ what = "images" => R!Init
  BY DEF Init

LEMMA ImagesStep == [Next]_vars /\ what = "images" => [R!Next]_R!vars /\ (what = "images")'
<1> SUFFICES ASSUME [Next]_vars, what = "images" PROVE [R!Next]_R!vars /\ (what = "images")'
  OBVIOUS
<1>1. CASE ImagesNext
  BY <1>1 DEF ImagesNext
<1>2. CASE Ended \/ UNCHANGED vars
  <2>1. UNCHANGED <<shared, images>>
    BY <1>2 DEF Ended, vars
  <2> QED BY <2>1 DEF shared, images, R!vars, R!files, R!devs
<1> QED BY <1>1, <1>2 DEF Next, PatchesNext, UsersNext, ServicesNext, WrapperNext

LEMMA ImagesOnly == [Next]_vars /\ ~(what = "images") => ~(what = "images")'
  BY DEF Next, Ended, PatchesNext, UsersNext, ServicesNext, ImagesNext, WrapperNext, vars, shared

\* fs/common.mk: an image has the owners, modes and devices of the tables that
\* are configured, whatever was tried, killed or left behind before it, and a
\* make that ends well leaves all images, without the warning.
THEOREM ImagesByTables == Spec => []ImagesAsTables
<1>1. Init /\ what = "images" => FileInv /\ ScriptInv /\ DoneInv
  BY ImagesAssumption, ImagesInit, ImagesBegin
<1>2. FileInv /\ ScriptInv /\ DoneInv /\ [R!Next]_R!vars => (FileInv /\ ScriptInv /\ DoneInv)'
  BY ImagesAssumption, FileStep, ScriptStep, DoneStep
<1>3. FileInv /\ ScriptInv /\ DoneInv => ImagesAsTables
  BY ScriptIsEnough, DoneIsEnough DEF ImagesAsTables
<1>4. ~(what = "images") => ImagesAsTables
  BY DEF ImagesAsTables
<1> QED BY <1>1, <1>2, <1>3, <1>4, ImagesStep, ImagesOnly, PTL DEF Spec

(***************************************************************************)
(* mkusers: what is proved of the module MkUsers holds of its instance.    *)
(***************************************************************************)
UP == INSTANCE MkUsers_proofs WITH Skeleton <- SkeletonGroups

LEMMA MkUsersRangeAssumption == U!RangeAssumption => UP!RangeAssumption
  BY DEF U!RangeAssumption, UP!RangeAssumption

LEMMA MkUsersSkeletonAssumption == U!SkeletonAssumption => UP!SkeletonAssumption
  BY DEF U!SkeletonAssumption, UP!SkeletonAssumption, U!Id, UP!Id, U!None, UP!None

LEMMA MkUsersTablesAssumption == U!TablesAssumption => UP!TablesAssumption
  BY DEF U!TablesAssumption, UP!TablesAssumption, U!Line, UP!Line, U!NoUser, UP!NoUser, U!Automatic,
         UP!Automatic

LEMMA MkUsersSkeletonOutside == U!SkeletonOutside => UP!SkeletonOutside
  BY DEF U!SkeletonOutside, UP!SkeletonOutside

LEMMA MkUsersInit == U!Init => UP!Init
  BY DEF U!Init, UP!Init, U!None, UP!None

LEMMA MkUsersvars == U!vars = UP!vars
  BY DEF U!vars, UP!vars, U!files, UP!files

LEMMA MkUsersAsTable == U!AsTable <=> UP!AsTable
  BY DEF U!AsTable, UP!AsTable, U!None, UP!None, U!Creates, UP!Creates, U!NoUser, UP!NoUser, U!Automatic,
         UP!Automatic, U!ToSet, UP!ToSet

LEMMA MkUsersGeneratedIsUnique == U!GeneratedIsUnique <=> UP!GeneratedIsUnique
  BY DEF U!GeneratedIsUnique, UP!GeneratedIsUnique, U!None, UP!None

LEMMA MkUsersRefusedForReason == U!RefusedForReason <=> UP!RefusedForReason
  BY DEF U!RefusedForReason, UP!RefusedForReason, U!SkeletonKept, UP!SkeletonKept, U!None, UP!None, U!Given,
         UP!Given, U!Automatic, UP!Automatic, U!Creates, UP!Creates, U!NoUser, UP!NoUser

LEMMA MkUsersRepeatsLast == U!RepeatsLast <=> UP!RepeatsLast
  BY DEF U!RepeatsLast, UP!RepeatsLast, U!SkeletonKept, UP!SkeletonKept, U!None, UP!None, U!Given, UP!Given,
         U!Automatic, UP!Automatic

LEMMA MkUsersNext == U!Next => UP!Next
<1> SUFFICES ASSUME U!Next PROVE UP!Next
  OBVIOUS
<1>1. U!Run => UP!Run
  BY DEF U!Run, UP!Run, U!Pass, UP!Pass, U!None, UP!None, U!files, UP!files
<1>2. U!EndPass => UP!EndPass
  BY DEF U!EndPass, UP!EndPass, U!Running, UP!Running, U!Exit, UP!Exit, U!files, UP!files, U!Pass, UP!Pass
<1>3. U!Skip => UP!Skip
  BY DEF U!Skip, UP!Skip, U!Running, UP!Running, U!Mine, UP!Mine, U!Here, UP!Here, U!Automatic,
         UP!Automatic, U!NoUser, UP!NoUser, U!Advance, UP!Advance, U!files, UP!files
<1>4. U!AddGroup => UP!AddGroup
  BY DEF U!AddGroup, UP!AddGroup, U!GroupDue, UP!GroupDue, U!Running, UP!Running, U!Mine, UP!Mine, U!Here,
         UP!Here, U!Automatic, UP!Automatic, U!NoUser, UP!NoUser, U!NoIdLeft, UP!NoIdLeft, U!None, UP!None,
         U!Generate, UP!Generate, U!Name, UP!Name, U!Wanted, UP!Wanted, U!Advance, UP!Advance, U!Min, UP!Min
<1>5. U!NoGid => UP!NoGid
  BY DEF U!NoGid, UP!NoGid, U!GroupDue, UP!GroupDue, U!Running, UP!Running, U!Mine, UP!Mine, U!Here,
         UP!Here, U!Automatic, UP!Automatic, U!NoUser, UP!NoUser, U!NoIdLeft, UP!NoIdLeft, U!None, UP!None,
         U!Generate, UP!Generate, U!Name, UP!Name, U!Exit, UP!Exit, U!files, UP!files, U!Min, UP!Min
<1>6. U!AddUser => UP!AddUser
  BY DEF U!AddUser, UP!AddUser, U!Here, UP!Here, U!UserDue, UP!UserDue, U!Mine, UP!Mine, U!Automatic,
         UP!Automatic, U!NoUser, UP!NoUser, U!Valid, UP!Valid, U!Name, UP!Name, U!None, UP!None, U!NoIdLeft,
         UP!NoIdLeft, U!Generate, UP!Generate, U!Wanted, UP!Wanted, U!Advance, UP!Advance, U!ToSet,
         UP!ToSet, U!Min, UP!Min
<1>7. U!Refuse => UP!Refuse
  BY DEF U!Refuse, UP!Refuse, U!UserDue, UP!UserDue, U!Mine, UP!Mine, U!Here, UP!Here, U!Automatic,
         UP!Automatic, U!NoUser, UP!NoUser, U!Valid, UP!Valid, U!Name, UP!Name, U!None, UP!None, U!NoIdLeft,
         UP!NoIdLeft, U!Generate, UP!Generate, U!Exit, UP!Exit, U!files, UP!files, U!Min, UP!Min
<1>8. U!KilledInGroup => UP!KilledInGroup
  BY DEF U!KilledInGroup, UP!KilledInGroup, U!GroupDue, UP!GroupDue, U!Running, UP!Running, U!Mine, UP!Mine,
         U!Here, UP!Here, U!Automatic, UP!Automatic, U!NoUser, UP!NoUser, U!NoIdLeft, UP!NoIdLeft, U!None,
         UP!None, U!Generate, UP!Generate, U!Name, UP!Name, U!Exit, UP!Exit, U!Min, UP!Min
<1>9. U!LoseUser => UP!LoseUser
  BY DEF U!LoseUser, UP!LoseUser, U!UserDue, UP!UserDue, U!Mine, UP!Mine, U!Here, UP!Here, U!Automatic,
         UP!Automatic, U!NoUser, UP!NoUser, U!Valid, UP!Valid, U!Name, UP!Name, U!None, UP!None, U!NoIdLeft,
         UP!NoIdLeft, U!Generate, UP!Generate, U!Exit, UP!Exit, U!Min, UP!Min
<1>10. U!Kill => UP!Kill
  BY DEF U!Kill, UP!Kill, U!Running, UP!Running, U!Exit, UP!Exit, U!None, UP!None, U!files, UP!files
<1> QED BY <1>1, <1>2, <1>3, <1>4, <1>5, <1>6, <1>7, <1>8, <1>9, <1>10 DEF U!Next, UP!Next

LEMMA UsersBegin == Init /\ what = "users" => UP!Init
  BY MkUsersInit DEF Init

LEMMA UsersStep == [Next]_vars /\ what = "users" => [UP!Next]_UP!vars /\ (what = "users")'
<1> SUFFICES ASSUME [Next]_vars, what = "users" PROVE [UP!Next]_UP!vars /\ (what = "users")'
  OBVIOUS
<1>1. CASE UsersNext
  BY <1>1, MkUsersNext DEF UsersNext
<1>2. CASE Ended \/ UNCHANGED vars
  <2>1. UNCHANGED <<what, pc, users>>
    BY <1>2 DEF Ended, vars, shared
  <2> QED BY <2>1 DEF users, UP!vars, UP!files
<1> QED BY <1>1, <1>2 DEF Next, PatchesNext, WrapperNext, ServicesNext, ImagesNext

LEMMA UsersOnly == [Next]_vars /\ ~(what = "users") => ~(what = "users")'
  BY DEF Next, Ended, PatchesNext, UsersNext, ServicesNext, ImagesNext, WrapperNext, vars, shared

LEMMA UsersSpec == Spec /\ what = "users" => UP!Spec
  BY UsersBegin, UsersStep, PTL DEF Spec, UP!Spec

LEMMA UsersSettings == UP!RangeAssumption /\ UP!SkeletonAssumption /\ UP!TablesAssumption
  BY UsersAssumption, MkUsersRangeAssumption, MkUsersSkeletonAssumption, MkUsersTablesAssumption

\* After a success of mkusers /etc/group and /etc/passwd are as the table says,
\* with no id given out twice, and it refuses a table only for a reason.
THEOREM UsersByTable == ASSUME U!SkeletonOutside PROVE Spec => []UsersAsTable
<1>1. UP!RangeAssumption
  BY UsersSettings
<1>2. UP!SkeletonAssumption
  BY UsersSettings
<1>3. UP!TablesAssumption
  BY UsersSettings
<1>4. UP!SkeletonOutside
  BY MkUsersSkeletonOutside
<1>5. UP!Spec => []UP!AsTable
  BY <1>1, <1>2, <1>3, UP!AsTheTable, PTL
<1>6. UP!Spec => []UP!GeneratedIsUnique
  BY <1>1, <1>2, <1>3, UP!Unique, PTL
<1>7. UP!Spec => []UP!RefusedForReason
  BY <1>1, <1>2, <1>3, <1>4, UP!Refusal, PTL
<1>8. UP!AsTable /\ UP!GeneratedIsUnique /\ UP!RefusedForReason => UsersAsTable
  BY MkUsersAsTable, MkUsersGeneratedIsUnique, MkUsersRefusedForReason DEF UsersAsTable
<1>9. ~(what = "users") => UsersAsTable
  BY DEF UsersAsTable
<1> QED BY <1>5, <1>6, <1>7, <1>8, <1>9, UsersSpec, UsersOnly, PTL DEF Spec

\* mkusers for the next image, or after a kill, ends with the ids and members
\* of the last success.
THEOREM UsersAgain == ASSUME U!SkeletonOutside PROVE Spec => SameAgain
<1>1. UP!RangeAssumption
  BY UsersSettings
<1>2. UP!SkeletonAssumption
  BY UsersSettings
<1>3. UP!TablesAssumption
  BY UsersSettings
<1>4. UP!SkeletonOutside
  BY MkUsersSkeletonOutside
<1>5. UP!Spec => [][UP!RepeatsLast]_UP!vars
  BY <1>1, <1>2, <1>3, <1>4, UP!SameAgain, PTL
<1>6. [UP!RepeatsLast]_UP!vars => [what = "users" => U!RepeatsLast]_vars
  <2>1. UNCHANGED UP!vars => last' = last
    BY DEF UP!vars
  <2> QED BY <2>1, MkUsersRepeatsLast DEF U!RepeatsLast
<1>7. ~(what = "users") => [what = "users" => U!RepeatsLast]_vars
  OBVIOUS
<1> QED BY <1>5, <1>6, <1>7, UsersSpec, UsersOnly, PTL DEF Spec, SameAgain

(***************************************************************************)
(* The s6 services, likewise.                                              *)
(***************************************************************************)
SP == INSTANCE S6Services_proofs WITH Skeleton <- SkeletonServices

LEMMA S6WithinAssumption == S!WithinAssumption => SP!WithinAssumption
  BY DEF S!WithinAssumption, SP!WithinAssumption, S!Name, SP!Name

LEMMA S6SkeletonAssumption == S!SkeletonAssumption => SP!SkeletonAssumption
  BY DEF S!SkeletonAssumption, SP!SkeletonAssumption, S!Name, SP!Name, S!Listed, SP!Listed, S!Cardinality,
         SP!Cardinality

LEMMA S6ServicesAssumption == S!ServicesAssumption => SP!ServicesAssumption
  BY DEF S!ServicesAssumption, SP!ServicesAssumption, S!Name, SP!Name

LEMMA S6PostBuildAssumption == S!PostBuildAssumption => SP!PostBuildAssumption
  BY DEF S!PostBuildAssumption, SP!PostBuildAssumption, S!Name, SP!Name

LEMMA S6TargetAssumption == S!TargetAssumption => SP!TargetAssumption
  BY DEF S!TargetAssumption, SP!TargetAssumption, S!Name, SP!Name

LEMMA S6CompilesLast == S!CompilesLast => SP!CompilesLast
  BY DEF S!CompilesLast, SP!CompilesLast

LEMMA S6WantsAlone == S!WantsAlone => SP!WantsAlone
  BY DEF S!WantsAlone, SP!WantsAlone, S!Wants, SP!Wants

LEMMA S6Init == S!Init => SP!Init
  BY DEF S!Init, SP!Init, S!NoDb, SP!NoDb

LEMMA S6vars == S!vars = SP!vars
  BY DEF S!vars, SP!vars, S!target, SP!target

LEMMA S6ServicesInDb == S!ServicesInDb <=> SP!ServicesInDb
  BY DEF S!ServicesInDb, SP!ServicesInDb, S!DbIsCurrent, SP!DbIsCurrent, S!ImageNext, SP!ImageNext,
         S!Compiled, SP!Compiled, S!NoServiceTwice, SP!NoServiceTwice, S!Listed, SP!Listed,
         S!EnabledIsThere, SP!EnabledIsThere, S!Wants, SP!Wants, S!DhcpIsThere, SP!DhcpIsThere,
         S!Cardinality, SP!Cardinality

LEMMA S6Next == S!Next => SP!Next
<1> SUFFICES ASSUME S!Next PROVE SP!Next
  OBVIOUS
<1>1. S!Make => SP!Make
  BY DEF S!Make, SP!Make, S!Wants, SP!Wants, S!target, SP!target
<1>2. S!Busybox => SP!Busybox
  BY DEF S!Busybox, SP!Busybox, S!Stop, SP!Stop, S!target, SP!target
<1>3. S!InstallSkeleton => SP!InstallSkeleton
  BY DEF S!InstallSkeleton, SP!InstallSkeleton, S!Listed, SP!Listed, S!NoDb, SP!NoDb
<1>4. S!InterruptSkeleton => SP!InterruptSkeleton
  BY DEF S!InterruptSkeleton, SP!InterruptSkeleton, S!NoDb, SP!NoDb, S!Stop, SP!Stop
<1>5. S!BeginServices => SP!BeginServices
  BY DEF S!BeginServices, SP!BeginServices, S!target, SP!target
<1>6. S!CopyService => SP!CopyService
  BY DEF S!CopyService, SP!CopyService
<1>7. S!AddService => SP!AddService
  BY DEF S!AddService, SP!AddService, S!Add, SP!Add, S!Listed, SP!Listed
<1>8. S!EndServices => SP!EndServices
  BY DEF S!EndServices, SP!EndServices, S!Wants, SP!Wants, S!target, SP!target
<1>9. S!RenderDhcp => SP!RenderDhcp
  BY DEF S!RenderDhcp, SP!RenderDhcp, S!Package, SP!Package, S!Add, SP!Add, S!Listed, SP!Listed
<1>10. S!BuildServiceDb => SP!BuildServiceDb
  BY DEF S!BuildServiceDb, SP!BuildServiceDb, S!Compile, SP!Compile, S!Compiles, SP!Compiles, S!Listed,
         SP!Listed, S!Compiled, SP!Compiled, S!NoDb, SP!NoDb, S!Stop, SP!Stop
<1>11. S!CopyOverlay => SP!CopyOverlay
  BY DEF S!CopyOverlay, SP!CopyOverlay
<1>12. S!PostBuildScript => SP!PostBuildScript
  BY DEF S!PostBuildScript, SP!PostBuildScript, S!RunScript, SP!RunScript, S!Add, SP!Add, S!Listed,
         SP!Listed, S!Compile, SP!Compile, S!Compiles, SP!Compiles, S!Compiled, SP!Compiled, S!NoDb,
         SP!NoDb, S!Stop, SP!Stop
<1>13. S!Rootfs => SP!Rootfs
  BY DEF S!Rootfs, SP!Rootfs, S!ImageNext, SP!ImageNext, S!Stop, SP!Stop, S!target, SP!target
<1>14. S!Fail => SP!Fail
  BY DEF S!Fail, SP!Fail, S!Stop, SP!Stop, S!target, SP!target
<1>15. S!Reinstall => SP!Reinstall
  BY DEF S!Reinstall, SP!Reinstall, S!target, SP!target
<1>16. S!Reconfigure => SP!Reconfigure
  BY DEF S!Reconfigure, SP!Reconfigure, S!target, SP!target
<1> QED BY <1>1, <1>2, <1>3, <1>4, <1>5, <1>6, <1>7, <1>8, <1>9, <1>10, <1>11, <1>12, <1>13, <1>14, <1>15,
           <1>16 DEF S!Next, SP!Next

LEMMA ServicesBegin == Init /\ what = "services" => SP!Init
  BY S6Init DEF Init

LEMMA ServicesStep == [Next]_vars /\ what = "services" => [SP!Next]_SP!vars /\ (what = "services")'
<1> SUFFICES ASSUME [Next]_vars, what = "services" PROVE [SP!Next]_SP!vars /\ (what = "services")'
  OBVIOUS
<1>1. CASE ServicesNext
  BY <1>1, S6Next DEF ServicesNext
<1>2. CASE Ended \/ UNCHANGED vars
  <2>1. UNCHANGED <<shared, services>>
    BY <1>2 DEF Ended, vars
  <2> QED BY <2>1 DEF shared, services, SP!vars, SP!target
<1> QED BY <1>1, <1>2 DEF Next, PatchesNext, WrapperNext, UsersNext, ImagesNext

LEMMA ServicesOnly == [Next]_vars /\ ~(what = "services") => ~(what = "services")'
  BY DEF Next, Ended, PatchesNext, UsersNext, ServicesNext, ImagesNext, WrapperNext, vars, shared

LEMMA ServicesSpec == Spec /\ what = "services" => SP!Spec
  BY ServicesBegin, ServicesStep, PTL DEF Spec, SP!Spec

\* The database an image boots with has the services that are in the target
\* directory by then, those that are enabled, each once, and the DHCP client.
THEOREM ServicesCompiled == ASSUME S!CompilesLast, S!WantsAlone PROVE Spec => []ServicesInDb
<1>1. SP!Configuration
  BY ServicesAssumption, S6WithinAssumption, S6SkeletonAssumption, S6ServicesAssumption,
     S6PostBuildAssumption, S6TargetAssumption DEF SP!Configuration
<1>2. SP!CompilesLast
  BY S6CompilesLast
<1>3. SP!WantsAlone
  BY S6WantsAlone
<1>4. SP!Spec => []SP!ServicesInDb
  BY <1>1, <1>2, <1>3, SP!InDb, PTL
<1>5. SP!ServicesInDb => ServicesInDb
  BY S6ServicesInDb DEF ServicesInDb
<1>6. ~(what = "services") => ServicesInDb
  BY DEF ServicesInDb
<1> QED BY <1>4, <1>5, <1>6, ServicesSpec, ServicesOnly, PTL DEF Spec
=============================================================================

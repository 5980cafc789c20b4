--------------------------- MODULE ToolchainWrapper --------------------------
(***************************************************************************)
(* The wrapper that stands for the cross compiler                          *)
(* (toolchain/toolchain-wrapper.c): it puts the arguments the              *)
(* configuration calls for in front of those it was given, refuses or      *)
(* reports paths of the build machine, and runs the compiler, through      *)
(* ccache if it is built in.                                               *)
(*                                                                         *)
(* An argument is an option and the text stuck to it; a bare text has the  *)
(* option "".                                                              *)
(***************************************************************************)
EXTENDS Integers, SequencesExt

CONSTANTS
    Commands,   \* argv without argv[0], each a sequence of arguments
    Builds,     \* what the wrapper may be compiled with: the constant part of
                \* predef_args after the compiler, and which of BR_CCACHE,
                \* BR_FLOAT_ABI, BR_ARCH and BR_CPU are defined
    Begins      \* for each text, the unsafe paths it begins with

unsafe_paths == {"/lib", "/usr/include", "/usr/lib", "/usr/local/include", "/usr/local/lib"}
EXCLUSIVE_ARGS == 3

Defines == {"CCACHE", "FLOAT_ABI", "ARCH", "CPU"}

Arguments == [option : STRING, text : STRING]
BuildsAssumption == \A b \in Builds : b.defines \subseteq Defines /\ b.predef \in Seq(Arguments)
CommandsAssumption ==
    /\ Commands \subseteq Seq(Arguments)
    /\ \A c \in Commands : \A i \in DOMAIN c : c[i].text \in DOMAIN Begins \cup {""}
BeginsAssumption == \A t \in DOMAIN Begins : Begins[t] \subseteq unsafe_paths

Argument(option, text) == [option |-> option, text |-> text]
Ccache == Argument("", "ccache")
Compiler == Argument("", "path")
FloatAbi == Argument("-mfloat-abi=", "BR_FLOAT_ABI")
March == Argument("-march=", "BR_ARCH")
Mcpu == Argument("-mcpu=", "BR_CPU")

VARIABLES
    build,      \* what it was compiled with
    argv,       \* what it was called with
    environ,    \* those of the environment variables that matter that are set
    args,       \* the array that is filled
    at,         \* the i of the loop over paths
    warnings,   \* what was reported: an argument and the unsafe path
    stage,      \* the next part of main
    executed    \* what was executed, or the code it exited with

vars == <<build, argv, environ, args, at, warnings, stage, executed>>
given == <<build, argv, environ>>

Init ==
    /\ build \in Builds
    /\ argv \in Commands
    /\ environ \in SUBSET {"BR_COMPILER_PARANOID_UNSAFE_PATH", "BR_NO_CCACHE"}
    /\ args = <<>> /\ at = 1 /\ warnings = {}
    /\ stage = "paths" /\ executed = [rc |-> 0 - 1, args |-> <<>>]

argc == Len(argv) + 1
predef_args == (IF "CCACHE" \in build.defines THEN <<Ccache>> ELSE <<>>) \o <<Compiler>> \o build.predef
Slots == Len(predef_args) + argc + EXCLUSIVE_ARGS

Exit(rc) ==
    /\ stage' = "done" /\ executed' = [rc |-> rc, args |-> <<>>]
    /\ UNCHANGED <<given, args, warnings>>

\* The directory it is in, and from it those of the compiler and the sysroot:
\* memory or the link may be missing, or the name be too long.
Locate ==
    /\ stage = "paths"
    /\ \/ Exit(2) /\ UNCHANGED at
       \/ Exit(3) /\ UNCHANGED at
       \/ /\ args' = predef_args
          /\ stage' = "float"
          /\ UNCHANGED <<given, at, warnings, executed>>

\* Mutant: the name of the option alone
OverridesFloatName(a) == a.option = "-mfloat-abi="
OverridesFloat(a) == a.option \in {"-mfloat-abi=", "-msoft-float", "-mhard-float"}
OverridesCpu(a) == a.option \in {"-march=", "-mtune=", "-mcpu="}

\* What is appended unless an argument overrides it
FloatOverridden == \E i \in DOMAIN argv : OverridesFloat(argv[i])
CpuOverridden == \E i \in DOMAIN argv : OverridesCpu(argv[i])
AddUnless(overridden, define, a) == IF define \in build.defines /\ ~overridden THEN <<a>> ELSE <<>>

AddFloatAbi ==
    /\ stage = "float"
    /\ args' = args \o AddUnless(FloatOverridden, "FLOAT_ABI", FloatAbi)
    /\ stage' = "cpu"
    /\ UNCHANGED <<given, at, warnings, executed>>

AddCpu ==
    /\ stage = "cpu"
    /\ args' = args \o AddUnless(CpuOverridden, "ARCH", March) \o AddUnless(CpuOverridden, "CPU", Mcpu)
    /\ stage' = "check"
    /\ UNCHANGED <<given, at, warnings, executed>>

-----------------------------------------------------------------------------
IsSearch(a) == a.option \in {"-I", "-L"}
paranoid == "BR_COMPILER_PARANOID_UNSAFE_PATH" \in environ

\* The unsafe paths a path begins with; an argument with an option begins with
\* a dash.
Unsafe(a) == IF a.option # "" \/ a.text = "" THEN {} ELSE Begins[a.text]

Reports(a) == {a} \X Unsafe(a)

\* check_unsafe_path
CheckUnsafePath(a) ==
    IF paranoid /\ Unsafe(a) # {} THEN Exit(1)
    ELSE /\ warnings' = warnings \cup Reports(a)
         /\ UNCHANGED <<given, args, stage, executed>>

Checking(a) == stage = "check" /\ at < argc /\ argv[at] = a
Skip(n) == at' = at + n /\ UNCHANGED <<given, args, warnings, stage, executed>>

OtherArgument == \E a \in ToSet(argv) : Checking(a) /\ ~IsSearch(a) /\ Skip(1)

\* The option and the path stuck together
JoinedArgument ==
    \E a \in ToSet(argv) :
        /\ Checking(a) /\ IsSearch(a) /\ a.text # ""
        /\ CheckUnsafePath(Argument("", a.text))
        /\ at' = at + 1

\* Mutant: the path is taken for an option again
SeparateArgumentAgain ==
    \E a \in ToSet(argv) :
        /\ Checking(a) /\ IsSearch(a) /\ a.text = "" /\ at + 1 < argc
        /\ CheckUnsafePath(argv[at + 1])
        /\ at' = at + 1

\* The path is an argument of its own, if there is one.
SeparateArgument ==
    \E a \in ToSet(argv) :
        /\ Checking(a) /\ IsSearch(a) /\ a.text = "" /\ at + 1 < argc
        /\ CheckUnsafePath(argv[at + 1])
        /\ at' = at + 2

LastArgument ==
    \E a \in ToSet(argv) : Checking(a) /\ IsSearch(a) /\ a.text = "" /\ at + 1 = argc /\ Skip(2)

\* The arguments that were given, and execv, which may fail
Execute ==
    /\ stage = "check" /\ at >= argc
    /\ args' = args \o argv
    /\ \E rc \in {0, 2} :
          executed' = [rc |-> rc, args |-> IF "CCACHE" \in build.defines /\ "BR_NO_CCACHE" \in environ
                                           THEN Tail(args') ELSE args']
    /\ stage' = "done"
    /\ UNCHANGED <<given, at, warnings>>

Next ==
    \/ Locate \/ AddFloatAbi \/ AddCpu \/ Execute
    \/ OtherArgument \/ JoinedArgument \/ SeparateArgument \/ LastArgument

Spec == Init /\ [][Next]_vars

-----------------------------------------------------------------------------
\* A reference for the paths: an argument is the path of the -I or -L before
\* it if that is an option itself, not a path, which is so when an odd number
\* of bare ones precedes it.
Bare(i) == argv[i].option \in {"-I", "-L"} /\ argv[i].text = ""
IsPath(i) ==
    \E j \in 1..i - 1 :
        /\ (i - j) % 2 = 1
        /\ \A k \in j..i - 1 : Bare(k)
        /\ j = 1 \/ ~Bare(j - 1)
Searched ==
    {argv[i] : i \in {j \in DOMAIN argv : IsPath(j)}}
    \cup {Argument("", argv[i].text) :
            i \in {j \in DOMAIN argv : IsSearch(argv[j]) /\ argv[j].text # "" /\ ~IsPath(j)}}

Some(s, options) == \E i \in DOMAIN s : s[i].option \in options

\* What the compiler gets ends with what was asked for, as it was.  An option
\* of the configuration comes with one that excludes it only if it is always
\* there (-msoft-float).
ArgumentsAsGiven ==
    executed.rc = 0 =>
        LET added == SubSeq(executed.args, 1, Len(executed.args) - Len(argv))
            Both(options) == Some(argv, options) /\ Some(added, options)
        IN  /\ executed.args = added \o argv
            /\ added # <<>>
            /\ added[1] = IF "CCACHE" \in build.defines /\ "BR_NO_CCACHE" \notin environ
                          THEN Ccache ELSE Compiler
            /\ \A options \in {{"-march=", "-mtune=", "-mcpu="},
                               {"-mfloat-abi=", "-msoft-float", "-mhard-float"}} :
                  Both(options) => Some(build.predef, options)

\* The array is never longer than was allocated, with the NULL at its end.
ArrayHolds == Len(args) + (IF stage = "done" /\ executed.args # <<>> THEN 1 ELSE 0) <= Slots

\* Each path to search is judged, whether it is stuck to its option or
\* not, and nothing else is; one that is unsafe is refused if so asked.
PathsAreJudged ==
    stage = "done" /\ executed.rc \in {0, 1} =>
        LET unsafe == {a \in Searched : Unsafe(a) # {}}
        IN  IF paranoid THEN warnings = {} /\ (executed.rc = 1 <=> unsafe # {})
            ELSE executed.rc = 0 /\ warnings = UNION {Reports(a) : a \in unsafe}
=============================================================================

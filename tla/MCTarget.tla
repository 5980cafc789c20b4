------------------------------- MODULE MCTarget ------------------------------
(***************************************************************************)
(* The scripts of TargetScripts, each on an instance of its own.           *)
(*                                                                         *)
(* Patches: a tarball from DL_DIR with a series file, then the directory   *)
(* of the package, with patches, one compressed, a file of another kind,   *)
(* and a directory between them.  Users: all tables of two lines and some  *)
(* of three and four, over four users and four groups of which one comes   *)
(* with the skeleton; three ids to generate.  Services: the ODROID-C2      *)
(* demo, whose overlay has a getty that a post-build script enables before *)
(* another one compiles the database; dropbear and httpd; a DHCP interface *)
(* that may change.                                                        *)
(***************************************************************************)
EXTENDS TargetScripts

-----------------------------------------------------------------------------
Entry(n, k, x) == [name |-> n, kind |-> k, is |-> x]

PatchTouches ==
    [p \in {"p1", "p2", "p3", "p4"} |-> IF p \in {"p2", "p3"} THEN {"f1", "f2"} ELSE {"f1"}]
DirContent ==
    [d \in {"top", "tarball", "pkg", "sub"} |->
        CASE d = "top" -> {Entry(1, "archive", "tarball"), Entry(2, "patch", "p4")}
          [] d = "tarball" -> {Entry(1, "patch", "p2"), Entry(2, "unsupported", "p1")}
          [] d = "pkg" -> {Entry(1, "unsupported", "p4"), Entry(2, "dir", "sub"),
                           Entry(3, "compressed", "p4")}
          [] d = "sub" -> {Entry(1, "patch", "p3"), Entry(2, "unsupported", "p4")}]

SeriesOfTarball == [d \in DOMAIN DirContent |-> IF d = "tarball" THEN <<2, 1>> ELSE <<"none">>]
TwoCalls == << <<"top", {1}>>, <<"pkg", {2, 3}>> >>
FragileHunks == {<<"p1", "f1">>, <<"p2", "f2">>, <<"p4", "f1">>}

-----------------------------------------------------------------------------
A == 0 - 1      \* Auto
UserLine(u, i, g, j, gs) ==
    [username |-> u, uid |-> i, group |-> g, gid |-> j, groups |-> gs, home |-> TRUE]

Lines ==
    {UserLine(u, i, g, j, <<>>) :
        u \in {"u", "v"}, i \in {A, 11}, g \in {"a", "sys"}, j \in {A, 11}}
    \cup {UserLine("u", A, "a", A, <<"b", "sys">>), UserLine("v", 0, "b", 5, <<>>),
          UserLine("-", A, "b", 11, <<>>), UserLine("-", A, "b", 5, <<>>),
          UserLine("-", A, "b", A, <<"a">>), UserLine("root", A, "a", A, <<>>),
          [UserLine("u", 10, "a", A, <<>>) EXCEPT !.home = FALSE]}

SomeTables ==
    {<<k, l>> : k \in Lines, l \in Lines}
    \cup {<<UserLine("u", A, "a", A, <<>>), UserLine("v", A, "a", A, <<"b">>),
            UserLine("w", i, "c", j, <<>>)>> : i \in {A, 10, 11}, j \in {A, 10}}
    \cup {<<UserLine("-", A, "sys", 10, <<>>), UserLine("u", A, "a", A, <<"b", "c">>)>>,
          <<UserLine("u", A, "a", A, <<>>), UserLine("v", A, "a", A, <<>>),
            UserLine("w", A, "a", A, <<>>), UserLine("x", A, "a", A, <<>>)>>,
          <<UserLine("u", A, "a", A, <<"sys", "b", "c">>)>>}

GidOfSys == [g \in Group |-> IF g = "sys" THEN 5 ELSE 0 - 2]

ASSUME U!SkeletonOutside

-----------------------------------------------------------------------------
Dhcp == {"udhcpc-eth0", "udhcpc-eth0.1"}
Names == {"klogd", "init-lo", "dropbear", "httpd", "getty-tty1"} \cup Dhcp
NamesWithin == [n \in Names |-> IF n = "udhcpc-eth0" THEN {n, "udhcpc-eth0.1"} ELSE {n}]

ContentsOfBundles ==
    [b \in Bundle |-> CASE b = "services-local" -> <<"klogd">>
                        [] b = "services-net" -> <<>>
                        [] b = "setup-net" -> <<"init-lo">>]
NetServices == [s \in {"dropbear", "httpd"} |-> "services-net"]
Scripts == << <<"enable", "getty-tty1", "services-local">>, <<"compile">> >>

ASSUME S!CompilesLast /\ S!WantsAlone

-----------------------------------------------------------------------------
\* A name, and a number or none
C(n) == <<n, 0 - 1>>
Dev == <<C("dev")>>
Tty(n) == <<C("dev"), <<"tty", n>>>>
Srv == <<C("srv")>>
Www == <<C("srv"), C("www")>>
Page == <<C("srv"), C("www"), C("page")>>
HomeOfU == <<C("home")>>
Logs == <<C("home"), C("logs")>>
Readme == <<C("warning")>>
Paths == {Dev, Tty(A), Tty(1), Tty(2), Srv, Www, Page, HomeOfU, Logs, Readme}

Entries == [p \in Paths |->
    [kind |-> CASE p \in {Dev, Srv} -> "d" [] p = Readme -> "f" [] OTHER -> "none",
     mode |-> CASE p \in {Dev, Srv} -> 493 [] p = Readme -> 420 [] OTHER -> 0,
     uid |-> 0, gid |-> 0, dev |-> <<0, 0>>]]

DeviceLine(p, t, m, o, ns) ==
    [path |-> p, type |-> t, mode |-> m, user |-> o, group |-> o, numbers |-> ns]
ByRoot == <<"number", 0>>
By(u) == <<"name", u>>

\* Two ttys in a line, one of which replaces a pipe
Ttys == <<DeviceLine(Dev, "d", 493, ByRoot, <<>>), DeviceLine(Tty(1), "p", 438, ByRoot, <<>>),
          DeviceLine(Tty(A), "c", 384, ByRoot, <<4, 1, 1, 1, 2>>)>>
\* A user that must be there, all of a directory, and a comment
OfUser == <<[type |-> "comment"], DeviceLine(Tty(2), "b", 432, By("u"), <<8, 3>>),
            DeviceLine(Srv, "r", A, By("u"), <<>>)>>
\* A number that is too large, a type there is none of
Wrong == <<DeviceLine(Srv, "d", 448, ByRoot, <<16>>), DeviceLine(Srv, "s", 448, ByRoot, <<>>)>>
NoTable == <<[type |-> "none"]>>

\* A directory on the way to another, where all was given a mode before
ForWww == <<DeviceLine(Srv, "r", 488, ByRoot, <<>>), DeviceLine(Page, "d", 504, By("www"), <<>>)>>
\* A file that is there if a device was before, of a user that was made before
ForTty == <<DeviceLine(Tty(2), "f", 384, By("u"), <<>>)>>

Configured(us, d, p) == [users |-> us, devices |-> d, permissions |-> p]

\* The home of a user may be below another's.
Adds(u, h, a) == [user |-> u, home |-> h, auto |-> a]
U1 == Adds("u", HomeOfU, TRUE)
Www2 == Adds("www", Www, TRUE)
Log3 == Adds("log", Logs, TRUE)
Uids == [u \in {"u", "www", "log"} |-> CASE u = "u" -> 1 [] u = "www" -> 2 [] OTHER -> 3]
TarAndExt2 == <<"tar", "ext2">>
SomeConfigs ==
    {Configured(<<>>, NoTable, ForWww), Configured(<<U1, Log3>>, Ttys, ForWww),
     Configured(<<Www2, Log3, Adds("u", HomeOfU, FALSE)>>, OfUser, <<>>),
     Configured(<<>>, ForTty, <<>>), Configured(<<>>, Wrong, <<>>)}

-----------------------------------------------------------------------------
Word(o, t) == [option |-> o, text |-> t]
Words == {Word("-I", ""), Word("-L", ""), Word("-I", "/usr/lib"), Word("-L", "/opt"),
          Word("", "/usr/lib"), Word("", "/lib64"), Word("-mtune=", "/opt"), Word("-mhard-float", "")}

CommandLines == UNION {[1..n -> Words] : n \in 0..3}
SomeBuilds ==
    {[predef |-> <<>>, defines |-> {"CCACHE", "FLOAT_ABI"}],
     [predef |-> <<Word("--sysroot", "/opt")>>, defines |-> {"FLOAT_ABI", "ARCH", "CPU"}],
     [predef |-> <<Word("-msoft-float", "")>>, defines |-> {"CPU"}]}
BeginsWith ==
    [t \in {"/usr/lib", "/lib64", "/opt"} |->
        CASE t = "/usr/lib" -> {"/usr/lib"} [] t = "/lib64" -> {"/lib"} [] OTHER -> {}]
=============================================================================

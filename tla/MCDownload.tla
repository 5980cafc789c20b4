----------------------------- MODULE MCDownload -----------------------------
(***************************************************************************)
(* Instances of Download: one file, contents that are right, wrong or cut  *)
(* short, and the .hash files that tell them apart.                        *)
(***************************************************************************)
EXTENDS Download

CONSTANTS good, bad, tarball, b1, b2

Line(type, digest) == [type |-> type, digest |-> digest, file |-> tarball]

\* Not there; empty; right; "none"; right, then a type nobody knows.
AllHashFiles ==
    {NoHashFile, <<>>, <<Line("known", good)>>, <<Line("none", good)>>,
     <<Line("known", good), Line("unknown", good)>>}

\* Those with which a good file is not refused
UsableHashFiles == {NoHashFile, <<Line("known", good)>>, <<Line("none", good)>>}

RightHash == {<<Line("known", good)>>}

Setting(p, o, b) == [primary |-> p, only |-> o, backup |-> b]

\* Everything set, only a primary site, upstream alone, and nothing at all.
FourConfs ==
    {Setting(TRUE, FALSE, TRUE), Setting(TRUE, TRUE, FALSE),
     Setting(FALSE, FALSE, FALSE), Setting(FALSE, TRUE, TRUE)}

TwoConfs == {Setting(TRUE, FALSE, TRUE), Setting(FALSE, FALSE, FALSE)}

OneConf == {Setting(FALSE, FALSE, FALSE)}
=============================================================================

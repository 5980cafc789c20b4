----------------------------- MODULE MCKSession -----------------------------
(***************************************************************************)
(* Any front end, with the Kconfig files of KSamples.                      *)
(***************************************************************************)
EXTENDS KSession, KSamples

\* That there is no .config takes the place of one that is empty.
SomeFiles(n) == FilesOf(n) \ {<<>>}
=============================================================================

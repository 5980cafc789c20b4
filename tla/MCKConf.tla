------------------------------ MODULE MCKConf ------------------------------
(***************************************************************************)
(* conf, with the Kconfig files of KSamples.                               *)
(***************************************************************************)
EXTENDS KConf, KSamples
=============================================================================

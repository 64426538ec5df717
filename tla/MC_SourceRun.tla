--------------------------- MODULE MC_SourceRun ---------------------------
(***************************************************************************)
(* Instances of SourceRun for TLC: the programs of MC_SourcePrograms that  *)
(* are not compiled as they are meant.                                     *)
(***************************************************************************)
EXTENDS SourceRun, MC_SourcePrograms, RadixConfig
=============================================================================

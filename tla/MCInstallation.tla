---------------------------- MODULE MCInstallation ----------------------------
(***************************************************************************)
(* Instances of Installation for TLC: all constants are given in the cfg.  *)
(***************************************************************************)
EXTENDS Installation
=============================================================================

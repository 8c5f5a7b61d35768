---------------------------- MODULE MCCacheLock ----------------------------
(***************************************************************************)
(* Instances of CacheLock for TLC.                                         *)
(***************************************************************************)
EXTENDS CacheLock
=============================================================================

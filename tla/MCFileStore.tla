---------------------------- MODULE MCFileStore ----------------------------
(***************************************************************************)
(* Instances of FileStore for TLC.                                         *)
(***************************************************************************)
EXTENDS FileStoreSnapshot
=============================================================================

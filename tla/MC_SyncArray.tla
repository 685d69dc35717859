---------------------------- MODULE MC_SyncArray ----------------------------
(* A small instance of SyncArray.                                             *)
EXTENDS SyncArray
=============================================================================

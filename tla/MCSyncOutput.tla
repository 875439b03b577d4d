---------------------------- MODULE MCSyncOutput ----------------------------
(***************************************************************************)
(* Instances of SyncOutput for TLC.                                        *)
(***************************************************************************)
EXTENDS SyncOutput
=============================================================================

------------------------------ MODULE MCShmtx ------------------------------
(***************************************************************************)
(* Shmtx for TLC.                                                          *)
(***************************************************************************)
EXTENDS Shmtx
=============================================================================

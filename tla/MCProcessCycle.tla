--------------------------- MODULE MCProcessCycle ---------------------------
(***************************************************************************)
(* ProcessCycle for TLC.                                                   *)
(***************************************************************************)
EXTENDS ProcessCycle

OneWorker == <<"worker">>
WorkerAndLoader == <<"worker", "loader">>
=============================================================================

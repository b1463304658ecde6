--------------------------- MODULE MCAcceptMutex ---------------------------
(***************************************************************************)
(* AcceptMutex for TLC.                                                    *)
(***************************************************************************)
EXTENDS AcceptMutex, TLC

Symmetry == Permutations(Workers)
=============================================================================

------------------------------ MODULE MCNimLedger ------------------------------
(* TLC instance of NimLedger; the bounds are in MCNimLedger.cfg. *)
EXTENDS NimLedger
=============================================================================

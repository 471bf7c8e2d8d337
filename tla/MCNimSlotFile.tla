---------------------------- MODULE MCNimSlotFile ----------------------------
(* TLC instance of NimSlotFile: the processes are model values; the bounds are
   in the .cfg files. *)
EXTENDS NimSlotFile
=============================================================================

---------------------------- MODULE MCWorkQueue ----------------------------
(***************************************************************************)
(* Model checking of WorkQueue.  The constants are given in the .cfg:      *)
(* threads and items are model values.                                     *)
(***************************************************************************)
EXTENDS WorkQueue
=============================================================================

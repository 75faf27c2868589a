------------------------- MODULE MCDecryptPipeline -------------------------
(***************************************************************************)
(* Model checking of DecryptPipeline; the constants are in the .cfg files. *)
(***************************************************************************)
EXTENDS DecryptPipeline
=============================================================================

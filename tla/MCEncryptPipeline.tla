------------------------- MODULE MCEncryptPipeline -------------------------
(***************************************************************************)
(* Model checking of EncryptPipeline; the constants are in the .cfg files. *)
(***************************************************************************)
EXTENDS EncryptPipeline
=============================================================================

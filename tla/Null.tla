-------------------------------- MODULE Null --------------------------------
(***************************************************************************)
(* The null pointer, for the modules that MCServices puts together.         *)
(***************************************************************************)
CONSTANT NULL
=============================================================================

--------------------------- MODULE MCDefinedErrors ---------------------------
(* Instances of DefinedErrors for TLC. *)
EXTENDS DefinedErrors
==============================================================================

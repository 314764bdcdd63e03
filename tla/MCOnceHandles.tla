---------------------------- MODULE MCOnceHandles ----------------------------
(* Instances of OnceHandles for TLC. *)
EXTENDS OnceHandles
==============================================================================

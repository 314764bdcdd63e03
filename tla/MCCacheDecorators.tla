-------------------------- MODULE MCCacheDecorators --------------------------
(* Instances of CacheDecorators for TLC. *)
EXTENDS CacheDecorators
==============================================================================

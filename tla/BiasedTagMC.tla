---------------------------- MODULE BiasedTagMC ----------------------------
(* BiasedTag for TLC. *)
EXTENDS BiasedTag
=============================================================================

----------------------------- MODULE SiteTableMC -----------------------------
(* SiteTable for TLC. *)
EXTENDS SiteTable
=============================================================================

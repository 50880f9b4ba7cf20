---------------------------- MODULE GenRegionsMC ----------------------------
(* GenRegions following the last card of one region. *)
EXTENDS GenRegions, TLC

CONSTANT r1

MCFollowed == {<<r1, RegionBlocks>>}
=============================================================================

---------------------------- MODULE MCPoolPages ----------------------------
(***************************************************************************)
(* An organizer who creates pools, two pools that compete for two codes, a *)
(* guest, one page whose screen is followed and one answer from another    *)
(* tab of the organizer.                                                   *)
(***************************************************************************)
EXTENDS PoolPages, TLC

MCSymmetry == Permutations(PoolId) \cup Permutations(Code)
=============================================================================

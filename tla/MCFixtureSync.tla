--------------------------- MODULE MCFixtureSync ---------------------------
(***************************************************************************)
(* Two matches, kickoffs 0 (which the program refuses) and 1, and two       *)
(* syncs that overlap.  There are no pools and no picks.                   *)
(***************************************************************************)
EXTENDS FixtureSync

MCKeccak == [p \in Goals \X Goals \X Salt |-> p]
=============================================================================

--------------------------- MODULE MCScoreIngest ---------------------------
(***************************************************************************)
(* One covered match, one that only the admin settles.                     *)
(***************************************************************************)
EXTENDS ScoreIngest
=============================================================================

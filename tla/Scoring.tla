------------------------------ MODULE Scoring ------------------------------
(***************************************************************************)
(* backend/src/scoring.ts, and its copy app/src/lib/scoring.ts: the points *)
(* of a pick against a result.  A scoreline is a pair <<home, away>>.      *)
(***************************************************************************)
EXTENDS Integers

Difference(s) == s[1] - s[2]

(* Math.sign of the goal difference: who wins. *)
Outcome(s) == IF Difference(s) > 0 THEN 1 ELSE IF Difference(s) < 0 THEN -1 ELSE 0

ScorePick(pick, result) ==
    IF pick = result THEN 5
    ELSE IF Outcome(pick) # Outcome(result) THEN 0
    ELSE IF Difference(pick) = Difference(result) THEN 3
    ELSE 1
=============================================================================

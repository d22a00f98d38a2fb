----------------------------- MODULE MCPoolView -----------------------------
(***************************************************************************)
(* One match, which may be rescheduled once the page is open, and two      *)
(* commits, the second from a row that was drawn anew while the first is   *)
(* under way.  The state space is bounded: the second only is under way    *)
(* before the list changes or a ranking or an error came, and the list and *)
(* the ranking do not show an error both.                                  *)
(***************************************************************************)
EXTENDS PoolView

Second == CHOOSE t \in Try : TRUE
Early == live = 1 /\ standings = Nothing /\ ~rankingError /\ ~fixturesError

Bounded == (Under(Second) => Early) /\ ~(rankingError /\ fixturesError)

MCInit == ViewInit /\ deadline = schedule[1]
MCNext == ViewNext /\ Bounded'

MCSpec == MCInit /\ [][MCNext]_viewVars /\ ViewFairness
=============================================================================

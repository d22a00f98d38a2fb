----------------------------- MODULE MatchBoard -----------------------------
(***************************************************************************)
(* What the results promise to those who read them, with no memory, table, *)
(* stream, snapshot or restart: the board shows of a match nothing that    *)
(* was not told of it, calls a match over only when it is, reopens nothing,*)
(* and corrects the score of a match it calls over only to one the match   *)
(* stood at when, or after, it ended.                                      *)
(*                                                                         *)
(* The feed may tell the end several times, with and without a score, and  *)
(* a score after the end.  ScoreIngest implements this specification       *)
(* (RefinesMatchBoard).                                                    *)
(***************************************************************************)

CONSTANTS
    Match,
    Followed,   \* the matches the feed covers; the others are the admin's
    Scoreline,
    NilNil,
    NoResult

VARIABLES
    told,      \* told[m]: the scorelines the feed has told of m
    stood,     \* stood[m]: those m stood at when it ended, or at a time since
    board      \* board[m]: what is shown of m

Init ==
    /\ told = [m \in Match |-> {}]
    /\ stood = [m \in Match |-> {}]
    /\ board = [m \in Match |-> NoResult]

Over(m) == stood[m] # {}

(* A score, also one that is told with the end once more, or after it. *)
Score(m, s) ==
    /\ m \in Followed
    /\ told' = [told EXCEPT ![m] = @ \cup {s}]
    /\ stood' = IF Over(m) THEN [stood EXCEPT ![m] = @ \cup {s}] ELSE stood
    /\ UNCHANGED board

(* The end alone: the match stands at a score told before, or at 0-0. *)
End(m, s) ==
    /\ m \in Followed /\ ~Over(m)
    /\ s \in told[m] \/ (told[m] = {} /\ s = NilNil)
    /\ stood' = [stood EXCEPT ![m] = {s}]
    /\ UNCHANGED <<told, board>>

(* The end, told with the score. *)
EndAt(m, s) ==
    /\ m \in Followed /\ ~Over(m)
    /\ told' = [told EXCEPT ![m] = @ \cup {s}]
    /\ stood' = [stood EXCEPT ![m] = {s}]
    /\ UNCHANGED board

Credible(m, r) ==
    /\ r.score \in told[m] \/ (r.score = NilNil /\ Over(m))
    /\ r.final => Over(m)

Shut(m) == board[m] # NoResult /\ board[m].final

Show(m, r) ==
    /\ Shut(m) => r.final
    /\ m \in Followed =>
          /\ Credible(m, r)
          /\ Shut(m) => r.score = board[m].score \/ r.score \in stood[m]
    /\ board' = [board EXCEPT ![m] = r]
    /\ UNCHANGED <<told, stood>>

Next ==
    \E m \in Match :
        \/ \E s \in Scoreline : Score(m, s) \/ End(m, s) \/ EndAt(m, s)
        \/ \E r \in [score : Scoreline, final : BOOLEAN] : Show(m, r)

Spec == Init /\ [][Next]_<<told, stood, board>>
=============================================================================

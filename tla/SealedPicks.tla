---------------------------- MODULE SealedPicks ----------------------------
(***************************************************************************)
(* What the chain promises a participant, with no mention of clocks,       *)
(* accounts, transactions or errors.  A pick is sealed while its fixture   *)
(* is open, stays as it was sealed, and once the fixture is closed it can  *)
(* be shown, once, as a scoreline that opens the seal.                     *)
(*                                                                         *)
(* AcertanaProgram implements this specification (RefinesSealedPicks).     *)
(***************************************************************************)

CONSTANTS
    Key,      \* identities of picks: records with a field fixture_id
    Fixture,  \* fixtures a pick can be about
    Seal,     \* what a participant publishes instead of the scoreline
    Opens,    \* the triples <<seal, home, away>> such that seal opens as home-away
    NoPick    \* the value of a key nobody has sealed a pick for

VARIABLES
    picks,    \* picks[k]: NoPick, or [seal, shown]; shown is <<>> or <<home, away>>
    closed    \* the fixtures that no longer take picks

Hidden == << >>

Init ==
    /\ picks = [k \in Key |-> NoPick]
    /\ closed = {}

SealPick(k, s) ==
    /\ k.fixture_id \notin closed
    /\ picks[k] = NoPick
    /\ picks' = [picks EXCEPT ![k] = [seal |-> s, shown |-> Hidden]]
    /\ UNCHANGED closed

Close(F) ==
    /\ closed' = closed \cup F
    /\ UNCHANGED picks

Show(k, h, a) ==
    /\ k.fixture_id \in closed
    /\ picks[k] # NoPick
    /\ picks[k].shown = Hidden
    /\ <<picks[k].seal, h, a>> \in Opens
    /\ picks' = [picks EXCEPT ![k] = [seal |-> picks[k].seal, shown |-> <<h, a>>]]
    /\ UNCHANGED closed

Next ==
    \/ \E k \in Key, s \in Seal : SealPick(k, s)
    \/ \E F \in SUBSET Fixture : Close(F)
    \/ \E k \in Key : \E t \in Opens : Show(k, t[2], t[3])

Spec == Init /\ [][Next]_<<picks, closed>>
=============================================================================

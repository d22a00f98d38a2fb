------------------------- MODULE MCPickLifecycle -------------------------
(***************************************************************************)
(* Small instances of PickLifecycle: one participant, one pool, one or     *)
(* two fixtures that kick off one after the other, scorelines 0-0 and      *)
(* (where two picks compete) 1-0.                                          *)
(***************************************************************************)
EXTENDS PickLifecycle

MCKeccak == [p \in Goals \X Goals \X Salt |-> <<"keccak", p>>]
MCDigest == {MCKeccak[p] : p \in Goals \X Goals \X Salt}
MCPool == [organizer |-> Self, pool_id |-> 1]
MCKickoffTs == {1, 2}
EarlyFixture == CHOOSE f \in FixtureId : TRUE
MCKickoff == [f \in FixtureId |-> IF f = EarlyFixture THEN 1 ELSE 2]
\* The backend heard of an earlier kickoff for every fixture but the first.
MCDbKickoff == [f \in FixtureId |-> 1]
\* Both at once, where liveness is checked; the backend's one is early again.
MCSameKickoff == [f \in FixtureId |-> 1]
MCEarlyDb == [f \in FixtureId |-> IF f = EarlyFixture THEN 1 ELSE 0]
\* The other pick comes before or after the one whose fixture may be deleted.
MCDeletable == {EarlyFixture}
MCSaltOf == [f \in FixtureId |-> CHOOSE s \in Salt : TRUE]
OneScore == {<<0, 0>>}
TwoScores == {<<0, 0>>, <<1, 0>>}
=============================================================================

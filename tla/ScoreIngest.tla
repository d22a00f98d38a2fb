---------------------------- MODULE ScoreIngest ----------------------------
(***************************************************************************)
(* How results reach the store: the TxLINE stream (txline/client.ts),      *)
(* which loses what happens while it is down, and backfill passes          *)
(* (txline/backfill.ts), which ask for a snapshot, wait, and apply an      *)
(* answer that the stream may have overtaken.  Results of fixtures the     *)
(* feed does not cover come from POST /admin/results.                      *)
(***************************************************************************)
EXTENDS ResultsStore, Naturals, Sequences

CONSTANTS
    Covered,        \* the fixtures TxLINE covers
    Backfill,       \* backfill passes that may be in progress at once
    Corrections,    \* whether the feed may correct a scoreline after the end
    MaxActions,     \* bound on the feed's actions per fixture
    MaxRestarts     \* bound on backend restarts

ASSUME IngestConstants ==
    /\ Covered \subseteq FixtureId
    /\ Corrections \in BOOLEAN
    /\ MaxActions \in Nat
    /\ MaxRestarts \in Nat

VARIABLES
    history,    \* history[f]: TxLINE's actions for f, in Seq order
    streaming,  \* whether the stream is connected
    next,       \* next[f]: the first action of f the stream has yet to send
    pass,       \* pass[b]: a backfillResults call in progress
    restarts,
    endsHeard   \* history: the fixtures an end with its scoreline was applied to

vars == <<results, table, history, streaming, next, pass, restarts, endsHeard>>

Pass == [active : BOOLEAN, todo : SUBSET FixtureId,
         asked : FixtureId \cup {NoResult}, answer : Event \cup {NoResult}]
IdlePass == [active |-> FALSE, todo |-> {}, asked |-> NoResult, answer |-> NoResult]

(* The scoreline after a sequence of actions: that of the last one with goals. *)
LastScore(h) ==
    LET last == {i \in DOMAIN h : /\ h[i].score # NoScore
                                  /\ \A j \in DOMAIN h : j > i => h[j].score = NoScore} IN
    IF last = {} THEN NoScore ELSE h[CHOOSE i \in last : TRUE].score

Ended(h) == \E i \in DOMAIN h : h[i].final

(* The scoreline a match stands at after a sequence of actions. *)
Standing(h) == IF LastScore(h) = NoScore THEN NilNil ELSE LastScore(h)

TrueScore(f) == Standing(history[f])

(* Those it stood at when it ended, or at a time since: one, unless the feed *)
(* corrects itself.                                                          *)
Stood(h) ==
    {Standing(SubSeq(h, 1, n)) : n \in {n \in DOMAIN h : Ended(SubSeq(h, 1, n))}}

Nowhere == [f \in FixtureId |-> 1]  \* the position of a stream that is down

Init ==
    /\ StoreInit
    /\ history = [f \in FixtureId |-> << >>]
    /\ streaming = FALSE
    /\ next = Nowhere
    /\ pass = [b \in Backfill |-> IdlePass]
    /\ restarts = 0
    /\ endsHeard = {}

-----------------------------------------------------------------------------
(* TxLINE.  A status is on every action and a scoreline on those that change *)
(* it, so an action is final whenever the phase is (or it is game_finalised):*)
(* a bare full-time status, then a game_finalised with or without goals, then*)
(* whatever follows.                                                         *)

Record(f, e) ==
    /\ f \in Covered
    /\ Len(history[f]) < MaxActions
    /\ Corrections \/ ~Ended(history[f]) \/ e.score \in {NoScore, TrueScore(f)}
    /\ history' = [history EXCEPT ![f] = Append(@, e)]
    /\ UNCHANGED <<results, table, streaming, next, pass, restarts, endsHeard>>

-----------------------------------------------------------------------------
(* scoreEvents and consume. *)

Hear(f, e) ==
    endsHeard' = IF e.final /\ e.score # NoScore THEN endsHeard \cup {f} ELSE endsHeard

(* The service resumes where it pleases: where Last-Event-ID says, earlier *)
(* (a replay), or live, with a gap.                                        *)
StreamConnects ==
    /\ ~streaming
    /\ streaming' = TRUE
    /\ \E resume \in [FixtureId -> 1..(MaxActions + 1)] :
          /\ \A f \in FixtureId : resume[f] <= Len(history[f]) + 1
          /\ next' = resume
    /\ UNCHANGED <<results, table, history, pass, restarts, endsHeard>>

StreamDelivers(f) ==
    /\ streaming
    /\ next[f] <= Len(history[f])
    /\ Apply(f, history[f][next[f]])
    /\ Hear(f, history[f][next[f]])
    /\ next' = [next EXCEPT ![f] = @ + 1]
    /\ UNCHANGED <<history, streaming, pass, restarts>>

StreamDrops ==
    /\ streaming
    /\ streaming' = FALSE
    /\ next' = Nowhere
    /\ UNCHANGED <<results, table, history, pass, restarts, endsHeard>>

-----------------------------------------------------------------------------
(* backfillResults: every fixture has kicked off within the lookback. *)

StartBackfill(b) ==
    /\ ~pass[b].active
    /\ pass' = [pass EXCEPT ![b] = [IdlePass EXCEPT !.active = TRUE, !.todo = FixtureId]]
    /\ UNCHANGED <<results, table, history, streaming, next, restarts, endsHeard>>

(* A fixture with a final result is skipped; the mutant skips any result. *)
Settled_IfKnown(f) == results[f] # NoResult
Settled(f) == Final(f)

(* fetchScoreSnapshot folds the history: last scoreline, final-wins. *)
Snapshot(f) == [score |-> LastScore(history[f]), final |-> Ended(history[f])]

NextRow(b, f) == pass[b].active /\ pass[b].asked = NoResult /\ f \in pass[b].todo

SkipRow(b, f) ==
    /\ NextRow(b, f)
    /\ Settled(f)
    /\ pass' = [pass EXCEPT ![b].todo = @ \ {f}]
    /\ UNCHANGED <<results, table, history, streaming, next, restarts, endsHeard>>

(* TxLINE answers; the pass resumes later (ApplySnapshot). *)
AskSnapshot(b, f) ==
    /\ NextRow(b, f)
    /\ ~Settled(f)
    /\ history[f] # << >>
    /\ pass' = [pass EXCEPT ![b].todo = @ \ {f}, ![b].asked = f, ![b].answer = Snapshot(f)]
    /\ UNCHANGED <<results, table, history, streaming, next, restarts, endsHeard>>

(* 404, an empty snapshot or an error: on to the next row. *)
SnapshotFails(b, f) ==
    /\ NextRow(b, f)
    /\ ~Settled(f)
    /\ pass' = [pass EXCEPT ![b].todo = @ \ {f}]
    /\ UNCHANGED <<results, table, history, streaming, next, restarts, endsHeard>>

ApplySnapshot(b) ==
    /\ pass[b].asked # NoResult
    /\ Apply(pass[b].asked, pass[b].answer)
    /\ Hear(pass[b].asked, pass[b].answer)
    /\ pass' = [pass EXCEPT ![b].asked = NoResult, ![b].answer = NoResult]
    /\ UNCHANGED <<history, streaming, next, restarts>>

EndBackfill(b) ==
    /\ pass[b].active /\ pass[b].todo = {} /\ pass[b].asked = NoResult
    /\ pass' = [pass EXCEPT ![b] = IdlePass]
    /\ UNCHANGED <<results, table, history, streaming, next, restarts, endsHeard>>

-----------------------------------------------------------------------------

(* POST /admin/results: any fixture in the code; by its comment, one outside *)
(* the feed's coverage.                                                      *)
AdminResult(f, s, final) ==
    /\ f \notin Covered
    /\ Apply(f, [score |-> s, final |-> final])
    /\ UNCHANGED <<history, streaming, next, pass, restarts, endsHeard>>

(* A deploy: the table survives, stream and passes do not. *)
Restart ==
    /\ restarts < MaxRestarts
    /\ restarts' = restarts + 1
    /\ Reload
    /\ streaming' = FALSE
    /\ next' = Nowhere
    /\ pass' = [b \in Backfill |-> IdlePass]
    /\ UNCHANGED <<history, endsHeard>>

BackfillStep(b) ==
    \/ StartBackfill(b)
    \/ \E f \in FixtureId : SkipRow(b, f) \/ AskSnapshot(b, f) \/ SnapshotFails(b, f)
    \/ ApplySnapshot(b)
    \/ EndBackfill(b)

Next ==
    \/ \E f \in FixtureId :
          \/ \E e \in Event : Record(f, e)
          \/ StreamDelivers(f)
          \/ \E s \in Scoreline, final \in BOOLEAN : AdminResult(f, s, final)
    \/ StreamConnects
    \/ StreamDrops
    \/ \E b \in Backfill : BackfillStep(b)
    \/ Restart

(***************************************************************************)
(* setInterval keeps starting backfill passes and the event loop runs them;*)
(* a snapshot that is asked for again and again is answered at some point. *)
(* Nothing is assumed of the stream: it may stay down.                     *)
(***************************************************************************)
Fairness ==
    /\ \A b \in Backfill : WF_vars(BackfillStep(b))
    /\ \A f \in Covered : SF_vars(\E b \in Backfill : AskSnapshot(b, f))

Spec == Init /\ [][Next]_vars
FairSpec == Spec /\ Fairness

-----------------------------------------------------------------------------

(* Every variable holds what the code and the feed can put there; the stream *)
(* never runs ahead of the feed, a pass only waits for an answer it asked for.*)
TypeOK ==
    /\ StoreTypeOK
    /\ history \in [FixtureId -> Seq(Event)]
    /\ streaming \in BOOLEAN
    /\ next \in [FixtureId -> Nat]
    /\ \A f \in FixtureId : next[f] \in 1..(Len(history[f]) + 1)
    /\ pass \in [Backfill -> Pass]
    /\ \A b \in Backfill : pass[b].asked # NoResult => pass[b].active /\ pass[b].answer \in Event
    /\ restarts \in 0..MaxRestarts
    /\ endsHeard \subseteq FixtureId

(***************************************************************************)
(* No scoreline is made up: a result of a covered fixture is a scoreline   *)
(* the feed reported for it, or the 0-0 of a match that has ended.         *)
(***************************************************************************)
NoInventedScore ==
    \A f \in Covered : results[f] # NoResult =>
        \/ \E i \in DOMAIN history[f] : history[f][i].score = results[f].score
        \/ results[f].score = NilNil /\ Ended(history[f])

(***************************************************************************)
(* Once an end with its scoreline has been applied, from the stream or in  *)
(* a snapshot, the match is settled with a scoreline it stood at when it   *)
(* had ended (the true one, if the feed corrects nothing): no gap, replay, *)
(* bare or corrected end, stale snapshot or restart brings an earlier one  *)
(* back.  Nothing is said of an end that was lost (FinalIsTrue).           *)
(***************************************************************************)
ScoredEndIsTrue ==
    \A f \in Covered : f \in endsHeard =>
        Final(f) /\ results[f].score \in Stood(history[f])

(***************************************************************************)
(* A match that has ended is settled in the end, also when the stream      *)
(* never comes back.                                                       *)
(***************************************************************************)
EndedGetsFinal == \A f \in Covered : Ended(history[f]) ~> Final(f)

(***************************************************************************)
(* The settled scoreline is the match's: the one that decides the points.  *)
(***************************************************************************)
FinalIsTrue == \A f \in Covered : Final(f) => results[f].score = TrueScore(f)

-----------------------------------------------------------------------------
(* The promise of the board: what the feed has told, and the results. *)

Told(h) == {h[i].score : i \in DOMAIN h} \ {NoScore}

Board == INSTANCE MatchBoard WITH
    Match <- FixtureId,
    Followed <- Covered,
    told <- [f \in FixtureId |-> Told(history[f])],
    stood <- [f \in FixtureId |-> Stood(history[f])],
    board <- results

(***************************************************************************)
(* The store, fed by a stream with gaps and replays, by snapshots that are *)
(* applied late and by the admin, and reloaded from its table at a         *)
(* restart, implements MatchBoard: a restart is no step at all.            *)
(***************************************************************************)
RefinesMatchBoard == Board!Spec
=============================================================================

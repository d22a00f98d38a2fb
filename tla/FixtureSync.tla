---------------------------- MODULE FixtureSync ----------------------------
(***************************************************************************)
(* How a kickoff time gets from TxLINE to the fixtures table and from there*)
(* to the chain (fixtureSync.ts, syncFixtures in main.ts).  A sync fetches *)
(* the fixtures, upserts them, and then registers, one transaction after   *)
(* the other, what the table held unregistered at that moment, while       *)
(* matches are rescheduled, other syncs run and rows are deleted.  The     *)
(* register-fixtures tool does the same by hand, for every fixture, and    *)
(* marks nothing.                                                          *)
(***************************************************************************)
EXTENDS AcertanaProgram

CONSTANTS
    Sync,        \* syncFixtures calls that may be in progress, of any process
    Cli,         \* those that may also be runs of the register-fixtures tool
    NoRow,       \* no row in the fixtures table
    MsThreshold, \* StartTimes above it are in milliseconds (1e12 in the code)
    MaxMoves,    \* bound on reschedulings
    MaxDeletes,  \* bound on admin deletions
    MaxRestarts  \* bound on restarts

Fixture == [kickoff : KickoffTs, registered : BOOLEAN]

(* The order of SELECT without ORDER BY is that of the fixture ids. *)
ASSUME SyncConstants ==
    /\ Cli \subseteq Sync
    /\ FixtureId \subseteq Nat
    /\ MsThreshold \in Nat
    /\ \A t \in KickoffTs : t <= MsThreshold /\ (t > 0 => t * 1000 > MsThreshold)
    /\ MaxMoves \in Nat
    /\ MaxDeletes \in Nat
    /\ MaxRestarts \in Nat
    /\ NoRow \notin Fixture
    /\ NoRow \notin KickoffTs
    /\ KickoffTs \subseteq Nat

VARIABLES
    announced,  \* TxLINE's kickoff of each fixture
    everTold,   \* history: the kickoffs TxLINE has announced
    rows,       \* the fixtures table
    sync,       \* sync[s]: a syncFixtures call in progress
    inFlight,   \* register_fixture transactions that may still land
    deletes,
    restarts

syncVars == <<announced, everTold, rows, sync, inFlight, deletes, restarts>>
vars == <<chainVars, syncVars>>

Caller == {"backend", "tool"}
Steps == {"idle", "fetched", "registering", "sent"}
IdleSync == [step |-> "idle", by |-> "backend", fetched |-> << >>, todo |-> << >>, sent |-> NoRow]

Marked(f) == rows[f] # NoRow /\ rows[f].registered

Init ==
    /\ ChainInit
    /\ announced \in [FixtureId -> KickoffTs]
    /\ everTold = [f \in FixtureId |-> {announced[f]}]
    /\ rows = [f \in FixtureId |-> NoRow]
    /\ sync = [s \in Sync |-> IdleSync]
    /\ inFlight = {}
    /\ deletes = 0
    /\ restarts = 0

-----------------------------------------------------------------------------
(* TxLINE reschedules a match. *)

Moves == Cardinality(UNION {{f} \X everTold[f] : f \in FixtureId}) - Cardinality(FixtureId)

Reschedule(f, t) ==
    /\ t \notin everTold[f]
    /\ Moves < MaxMoves
    /\ announced' = [announced EXCEPT ![f] = t]
    /\ everTold' = [everTold EXCEPT ![f] = @ \cup {t}]
    /\ UNCHANGED <<chainVars, rows, sync, inFlight, deletes, restarts>>

-----------------------------------------------------------------------------
(* syncFixtures. *)

(* StartTime comes in seconds or milliseconds; the mutant takes it as it is. *)
toUnixSeconds_Identity(t) == t
toUnixSeconds(t) == IF t > MsThreshold THEN t \div 1000 ELSE t

(* TxLINE answers; the answer may be old when the sync goes on. *)
Fetch(s) ==
    /\ sync[s].step = "idle"
    /\ \E unit \in {1, 1000}, by \in Caller :
          /\ by = "tool" => s \in Cli
          /\ sync' = [sync EXCEPT ![s] =
                 [@ EXCEPT !.step = "fetched", !.by = by,
                           !.fetched = [f \in FixtureId |-> toUnixSeconds(announced[f] * unit)]]]
    /\ UNCHANGED <<chainVars, announced, everTold, rows, inFlight, deletes, restarts>>

(* ON CONFLICT DO UPDATE leaves `registered` alone. *)
Upserted(f, kickoff) == [kickoff |-> kickoff, registered |-> Marked(f)]

(* The rows WHERE registered = 0, with their kickoffs, after the upsert. *)
PendingAfter(fetched) ==
    [f \in {g \in FixtureId : ~Upserted(g, fetched[g]).registered} |-> fetched[f]]

(* The tool registers every fixture it fetched. *)
CliTodo(fetched) == fetched

Upsert(s) ==
    LET fetched == sync[s].fetched IN
    /\ sync[s].step = "fetched"
    /\ rows' = [f \in FixtureId |-> Upserted(f, fetched[f])]
    /\ sync' = [sync EXCEPT ![s] =
           [@ EXCEPT !.step = "registering", !.fetched = << >>,
                     !.todo = IF sync[s].by = "tool" THEN CliTodo(fetched) ELSE PendingAfter(fetched)]]
    /\ UNCHANGED <<chainVars, announced, everTold, inFlight, deletes, restarts>>

Sending(s, f) ==
    /\ sync[s].step = "registering"
    /\ f \in DOMAIN sync[s].todo
    /\ \A g \in DOMAIN sync[s].todo : f <= g

(* The errors that count as registered ("already in use"); the mutant       *)
(* counts every error.                                                      *)
Counts_AnyError(answer) == answer \in {"Ok", "InUse", "Failed"}
Counts(answer) == answer \in {"Ok", "InUse"}

Rest(todo, f) == [g \in DOMAIN todo \ {f} |-> todo[g]]

(* A failing fixture does not stop the loop; the mutant lets it. *)
TodoAfter_Failure(todo, f, answer) == IF Counts(answer) THEN Rest(todo, f) ELSE << >>
TodoAfter(todo, f, answer) == Rest(todo, f)

(* The transaction is answered: it executed, or its preflight refused it.   *)
RegisterOutcome(f, kickoff) ==
    IF Registered(f) THEN "InUse" ELSE IF ValidKickoff(kickoff) THEN "Ok" ELSE "Failed"

SyncAnswered(s, f, answer) ==
    sync' = [sync EXCEPT ![s] =
        [@ EXCEPT !.todo = TodoAfter(sync[s].todo, f, answer),
                  !.step = IF Counts(answer) THEN "sent" ELSE "registering",
                  !.sent = IF Counts(answer) THEN f ELSE NoRow]]

(* The tool stops at the first error that is not "already in use". *)
CliTodoAfter(todo, f, answer) == IF answer = "Failed" THEN << >> ELSE Rest(todo, f)

CliAnswered(s, f, answer) ==
    sync' = [sync EXCEPT ![s] = [@ EXCEPT !.todo = CliTodoAfter(sync[s].todo, f, answer)]]

Answered(s, f, answer) ==
    IF sync[s].by = "tool" THEN CliAnswered(s, f, answer) ELSE SyncAnswered(s, f, answer)

RegisterAnswered(s, f) ==
    LET kickoff == sync[s].todo[f] IN
    /\ Sending(s, f)
    /\ IF RegisterOutcome(f, kickoff) = "Ok"
       THEN RegisterFixture(FixtureAuthority, f, kickoff)
       ELSE UNCHANGED chainVars
    /\ Answered(s, f, RegisterOutcome(f, kickoff))
    /\ UNCHANGED <<announced, everTold, rows, inFlight, deletes, restarts>>

(* The RPC node fails, or confirmation times out: the transaction may be on *)
(* its way.                                                                 *)
RegisterFails(s, f) ==
    /\ Sending(s, f)
    /\ inFlight' \in {inFlight, inFlight \cup {<<f, sync[s].todo[f]>>}}
    /\ Answered(s, f, "Failed")
    /\ UNCHANGED <<chainVars, announced, everTold, rows, deletes, restarts>>

RegisterLands(f, kickoff) ==
    /\ <<f, kickoff>> \in inFlight
    /\ inFlight' = inFlight \ {<<f, kickoff>>}
    /\ RegisterFixture(FixtureAuthority, f, kickoff) \/ UNCHANGED chainVars
    /\ UNCHANGED <<announced, everTold, rows, sync, deletes, restarts>>

(* UPDATE ... WHERE fixture_id: nothing happens when the row is gone. *)
Mark(s) ==
    /\ sync[s].step = "sent"
    /\ rows' = [f \in FixtureId |->
           IF f = sync[s].sent /\ rows[f] # NoRow THEN [rows[f] EXCEPT !.registered = TRUE]
           ELSE rows[f]]
    /\ sync' = [sync EXCEPT ![s] = [@ EXCEPT !.step = "registering", !.sent = NoRow]]
    /\ UNCHANGED <<chainVars, announced, everTold, inFlight, deletes, restarts>>

LoopEnds(s) ==
    /\ sync[s].step = "registering"
    /\ sync[s].todo = << >>
    /\ sync' = [sync EXCEPT ![s] = IdleSync]
    /\ UNCHANGED <<chainVars, announced, everTold, rows, inFlight, deletes, restarts>>

(* The process of a sync restarts, whatever the sync was doing. *)
Restart(s) ==
    /\ restarts < MaxRestarts
    /\ sync[s] # IdleSync
    /\ restarts' = restarts + 1
    /\ sync' = [sync EXCEPT ![s] = IdleSync]
    /\ UNCHANGED <<chainVars, announced, everTold, rows, inFlight, deletes>>

-----------------------------------------------------------------------------

(* DELETE /admin/fixtures/:fixtureId. *)
DeleteFixture(f) ==
    /\ deletes < MaxDeletes
    /\ rows[f] # NoRow
    /\ rows' = [rows EXCEPT ![f] = NoRow]
    /\ deletes' = deletes + 1
    /\ UNCHANGED <<chainVars, announced, everTold, sync, inFlight, restarts>>

SyncStep(s) ==
    \/ Fetch(s)
    \/ Upsert(s)
    \/ \E f \in FixtureId : RegisterAnswered(s, f) \/ RegisterFails(s, f)
    \/ Mark(s)
    \/ LoopEnds(s)

Next ==
    \/ \E f \in FixtureId, t \in KickoffTs : Reschedule(f, t)
    \/ \E s \in Sync : SyncStep(s) \/ Restart(s)
    \/ \E f \in FixtureId, t \in KickoffTs : RegisterLands(f, t)
    \/ \E f \in FixtureId : DeleteFixture(f)

Spec == Init /\ [][Next]_vars

(***************************************************************************)
(* setInterval starts syncs again and again, a started one goes on, and a  *)
(* fixture that is sent again and again is answered at some point.  Nobody *)
(* has to run the tool.                                                    *)
(***************************************************************************)
Fairness ==
    /\ \A s \in Sync \ Cli : WF_vars(SyncStep(s))
    /\ \A f \in FixtureId : SF_vars(\E s \in Sync \ Cli : RegisterAnswered(s, f))

FairSpec == Spec /\ Fairness

-----------------------------------------------------------------------------

(* Every variable holds what the code, the chain and TxLINE can put there. *)
TypeOK ==
    /\ ChainTypeOK
    /\ announced \in [FixtureId -> KickoffTs]
    /\ \A f \in FixtureId : announced[f] \in everTold[f] /\ everTold[f] \subseteq KickoffTs
    /\ rows \in [FixtureId -> Fixture \cup {NoRow}]
    /\ \A s \in Sync :
          /\ sync[s].step \in Steps
          /\ DOMAIN sync[s].todo \subseteq FixtureId
          /\ sync[s].step = "sent" => sync[s].sent \in FixtureId
    /\ inFlight \subseteq FixtureId \X KickoffTs
    /\ deletes \in 0..MaxDeletes
    /\ restarts \in 0..MaxRestarts

(***************************************************************************)
(* A row that is marked is never looked at again, so it may only be marked *)
(* when the chain knows the fixture; otherwise nobody could ever commit a  *)
(* pick on it.                                                             *)
(***************************************************************************)
MarkedIsOnChain == \A f \in FixtureId : Marked(f) => Registered(f)

(***************************************************************************)
(* The kickoff on the chain, which nothing can correct, is one TxLINE      *)
(* announced for this match, in seconds; for a match that was never moved  *)
(* it is the announced one, whatever syncs overlap.                        *)
(***************************************************************************)
ChainKickoffWasAnnounced ==
    \A f \in FixtureId : Registered(f) => fixtures[f] \in everTold[f]

(***************************************************************************)
(* A match whose kickoffs the chain accepts gets registered in the end,    *)
(* also when another one never can be.                                     *)
(***************************************************************************)
GetsRegistered ==
    \A f \in FixtureId : <>(Registered(f) \/ \E t \in everTold[f] : ~ValidKickoff(t))
=============================================================================

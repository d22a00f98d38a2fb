--------------------------- MODULE PickLifecycle ---------------------------
(***************************************************************************)
(* One participant's picks from the click to the public scoreline.  Three  *)
(* parties share no transaction:                                           *)
(*   - the pages of the participant's browser (PoolPage.tsx): they send    *)
(*     commit_pick, post the payload to the backend and queue it in        *)
(*     localStorage (pendingPicks.ts) when that fails;                     *)
(*   - the backend: POST /picks and the reveal worker, whose runs may      *)
(*     overlap (setInterval) and are lost when the process restarts;       *)
(*   - the chain (AcertanaProgram): a transaction may land long after it   *)
(*     was sent, fail on execution, or never land.                         *)
(***************************************************************************)
EXTENDS AcertanaProgram, Sequences

CONSTANTS
    Self,         \* the participant's wallet
    Pool,         \* the pool the pages show
    Page,         \* PoolPage instances open in the browser; they share localStorage
    WorkerRun,    \* reveal-worker runs that may be in progress at once
    Score,        \* the scorelines <<home, away>> the participant may pick
    SaltOf,       \* the salt deriveSalt gives for each fixture
    Kickoff,      \* kickoff_ts of each fixture on-chain
    DbKickoff,    \* kickoff_ts of each fixture in the backend's fixtures table
    Nothing,      \* no score, no run, no answer
    MaxInFlight,  \* bound on transactions in flight
    MaxRestarts,  \* bound on backend restarts
    Deletable     \* fixtures that an admin may delete from the backend's table

ASSUME PickConstants ==
    /\ Self \in Wallet
    /\ Pool \in PoolKey
    /\ Score \subseteq Goals \X Goals
    /\ SaltOf \in [FixtureId -> Salt]
    /\ Kickoff \in [FixtureId -> {t \in KickoffTs : t > 0}]
    /\ DbKickoff \in [FixtureId -> Int]
    /\ Nothing \notin Score
    /\ MaxInFlight \in Nat /\ MaxRestarts \in Nat
    /\ Deletable \subseteq FixtureId

VARIABLES
    flow,      \* flow[p][f]: the commit call in progress on page p for fixture f
    marked,    \* marked[p]: fixtures page p shows as committed (entries state)
    inFlight,  \* transactions sent and neither executed nor expired
    pending,   \* localStorage acertana.pendingPicks
    pass,      \* pass[p]: the retryPendingPicks call in progress on page p
    stored,    \* the picks table, in rowid order
    run,       \* run[w]: a runRevealWorker call in progress
    restarts,
    listed     \* the fixtures in the backend's fixtures table

clientVars == <<flow, marked, pending, pass>>
backendVars == <<stored, run, restarts, listed>>
vars == <<chainVars, clientVars, inFlight, backendVars>>

-----------------------------------------------------------------------------
(* Data. *)

Payload == [fixture : FixtureId, score : Score]
Own(f) == [pool |-> Pool, participant |-> Self, fixture_id |-> f]
DigestOf(q) == Keccak[<<q.score[1], q.score[2], SaltOf[q.fixture]>>]

Tx == [kind : {"commit"}, page : Page, payload : Payload]
        \cup [kind : {"reveal"}, payload : Payload]

Row == [fixture : FixtureId, score : Score, revealed : BOOLEAN]
PayloadOf(row) == [fixture |-> row.fixture, score |-> row.score]
RowsOf(f) == {i \in DOMAIN stored : stored[i].fixture = f}

IdleFlow == [step |-> "idle", score |-> Nothing]
IdlePass == [active |-> FALSE, todo |-> << >>, left |-> << >>]
IdleRun == [active |-> FALSE, rows |-> << >>, answer |-> Nothing]

(* The payload's own entry is on-chain and the payload opens it. *)
OpensEntry(q) ==
    /\ Committed(Own(q.fixture))
    /\ entries[Own(q.fixture)].commitment = DigestOf(q)

(* Drop from a queue what was queued for the same pick; the mutant keeps it. *)
Without_KeepsAll(queue, f) == queue
Without(queue, f) ==
    LET kept[n \in 0..Len(queue)] ==
            IF n = 0 THEN << >>
            ELSE IF queue[n].fixture = f THEN kept[n - 1] ELSE Append(kept[n - 1], queue[n])
    IN  kept[Len(queue)]

Init ==
    /\ clock = 0
    /\ fixtures = Kickoff
    /\ pools = {Pool}
    /\ entries = [k \in EntryKey |-> NoAccount]
    /\ flow = [p \in Page |-> [f \in FixtureId |-> IdleFlow]]
    /\ marked = [p \in Page |-> {}]
    /\ inFlight = {}
    /\ pending = << >>
    /\ pass = [p \in Page |-> IdlePass]
    /\ stored = << >>
    /\ run = [w \in WorkerRun |-> IdleRun]
    /\ restarts = 0
    /\ listed = FixtureId

-----------------------------------------------------------------------------
(* Committing: PoolPage.commit and ChainClient.commitPick. *)

SetFlow(p, f, step, score) ==
    flow' = [flow EXCEPT ![p][f] = [step |-> step, score |-> score]]

(* The click, up to sendRawTransaction, whose preflight runs the program.  *)
(* The payload lives in the page's memory alone until it is posted.        *)
SubmitCommit(p, f, score) ==
    /\ flow[p][f] = IdleFlow
    /\ f \notin marked[p]
    /\ CommitAccounts(Own(f))
    /\ OpenForPicks(f)
    /\ Cardinality(inFlight) < MaxInFlight
    /\ inFlight' = inFlight \cup
           {[kind |-> "commit", page |-> p, payload |-> [fixture |-> f, score |-> score]]}
    /\ SetFlow(p, f, "confirming", score)
    /\ UNCHANGED <<chainVars, marked, pending, pass, backendVars>>

AwaitedBy(p, q) == flow[p][q.fixture] = [step |-> "confirming", score |-> q.score]

(* The outcome page p sees for its transaction: confirmTransaction resolves *)
(* whether the transaction succeeded or failed on execution.                *)
CommitExecuted(p, q) ==
    IF AwaitedBy(p, q) THEN SetFlow(p, q.fixture, "executed", q.score) ELSE UNCHANGED flow

CommitLands(p, q) ==
    LET tx == [kind |-> "commit", page |-> p, payload |-> q] IN
    /\ tx \in inFlight
    /\ inFlight' = inFlight \ {tx}
    /\ \/ CommitPick(Own(q.fixture), DigestOf(q))
       \/ /\ ~(CommitAccounts(Own(q.fixture)) /\ OpenForPicks(q.fixture))
          /\ UNCHANGED chainVars
    /\ CommitExecuted(p, q)
    /\ UNCHANGED <<marked, pending, pass, backendVars>>

(* Never lands: confirmTransaction throws, the page shows an error. *)
CommitExpires(p, q) ==
    LET tx == [kind |-> "commit", page |-> p, payload |-> q] IN
    /\ tx \in inFlight
    /\ inFlight' = inFlight \ {tx}
    /\ IF AwaitedBy(p, q) THEN SetFlow(p, q.fixture, "idle", Nothing) ELSE UNCHANGED flow
    /\ UNCHANGED <<chainVars, marked, pending, pass, backendVars>>

(* The RPC node fails while the page waits: the transaction may still land. *)
ConfirmThrows(p, f) ==
    /\ flow[p][f].step = "confirming"
    /\ SetFlow(p, f, "idle", Nothing)
    /\ UNCHANGED <<chainVars, marked, inFlight, pending, pass, backendVars>>

-----------------------------------------------------------------------------
(* POST /picks. *)

NewRow(q) == [fixture |-> q.fixture, score |-> q.score, revealed |-> FALSE]

(* 409 when the key has a row; the mutant overwrites it. *)
StorePick_OrReplace(q) == Append(Without(stored, q.fixture), NewRow(q))
StorePick(q) == IF RowsOf(q.fixture) = {} THEN Append(stored, NewRow(q)) ELSE stored

(* The route's checks on the body, 400 when one fails. *)
WellFormed(q) == q.fixture \in FixtureId /\ q.score \in Goals \X Goals

(* The request is handled and ok says what the page sees: FALSE for a 400 or *)
(* 409, for an answer that is lost and for a request that never arrives.     *)
Post(q, ok) ==
    \/ /\ WellFormed(q)
       /\ stored' = StorePick(q)
       /\ ok => RowsOf(q.fixture) = {}
    \/ /\ ~ok
       /\ UNCHANGED stored

PostPick(p, f) ==
    /\ flow[p][f].step = "executed"
    /\ \E ok \in BOOLEAN :
          /\ Post([fixture |-> f, score |-> flow[p][f].score], ok)
          /\ SetFlow(p, f, IF ok THEN "posted" ELSE "failed", flow[p][f].score)
    /\ UNCHANGED <<chainVars, marked, inFlight, pending, pass, run, restarts, listed>>

(* A failed post is queued in localStorage; either way the row is marked. *)
FinishCommit(p, f) ==
    LET q == [fixture |-> f, score |-> flow[p][f].score] IN
    /\ flow[p][f].step \in {"posted", "failed"}
    /\ pending' = IF flow[p][f].step = "failed" THEN Append(Without(pending, f), q) ELSE pending
    /\ marked' = [marked EXCEPT ![p] = @ \cup {f}]
    /\ SetFlow(p, f, "idle", Nothing)
    /\ UNCHANGED <<chainVars, inFlight, pass, backendVars>>

(* The poll of the Entry PDAs only ever adds markers. *)
RefreshEntries(p) ==
    LET seen == {f \in FixtureId : Committed(Own(f))} IN
    /\ ~(seen \subseteq marked[p])
    /\ marked' = [marked EXCEPT ![p] = @ \cup seen]
    /\ UNCHANGED <<chainVars, flow, inFlight, pending, pass, backendVars>>

(* Closing or reloading a page forgets everything but localStorage. *)
ClosePage(p) ==
    /\ flow' = [flow EXCEPT ![p] = [f \in FixtureId |-> IdleFlow]]
    /\ marked' = [marked EXCEPT ![p] = {}]
    /\ pass' = [pass EXCEPT ![p] = IdlePass]
    /\ UNCHANGED <<chainVars, inFlight, pending, backendVars>>

-----------------------------------------------------------------------------
(* retryPendingPicks, called when the page mounts and again whenever the   *)
(* identity of getAccessToken, the effect's dependency, changes.           *)

LoadPending(p) ==
    /\ ~pass[p].active
    /\ pending # << >>
    /\ pass' = [pass EXCEPT ![p] = [active |-> TRUE, todo |-> pending, left |-> << >>]]
    /\ UNCHANGED <<chainVars, flow, marked, inFlight, pending, backendVars>>

RetryPost(p) ==
    /\ pass[p].todo # << >>
    /\ LET q == Head(pass[p].todo) IN
       \E ok \in BOOLEAN :
          /\ Post(q, ok)
          /\ pass' = [pass EXCEPT ![p] =
                 [active |-> TRUE, todo |-> Tail(@.todo),
                  left |-> IF ok THEN @.left ELSE Append(@.left, q)]]
    /\ UNCHANGED <<chainVars, flow, marked, inFlight, pending, run, restarts, listed>>

SavePending(p) ==
    /\ pass[p].active
    /\ pass[p].todo = << >>
    /\ pending' = pass[p].left
    /\ pass' = [pass EXCEPT ![p] = IdlePass]
    /\ UNCHANGED <<chainVars, flow, marked, inFlight, backendVars>>

-----------------------------------------------------------------------------
(* runRevealWorker: a snapshot of the unrevealed rows, then row by row. *)

Due(row) == ~row.revealed /\ clock >= DbKickoff[row.fixture]

(* The loop passes over rows whose fixture the table does not list at that *)
(* moment, up to the first it does.  The mutant breaks off instead.        *)
Ahead_Breaks(rows) ==
    LET reached == {i \in DOMAIN rows :
                       \A j \in DOMAIN rows : j <= i => rows[j].fixture \in listed} IN
    [i \in reached |-> rows[i]]
Ahead(rows) ==
    LET left == {i \in DOMAIN rows :
                    \E j \in DOMAIN rows : j <= i /\ rows[j].fixture \in listed} IN
    [i \in left |-> rows[i]]

StartRun(w) ==
    LET due == {i \in DOMAIN stored : Due(stored[i])}
        rows == Ahead([i \in due |-> stored[i]]) IN
    /\ ~run[w].active
    /\ rows # << >>
    /\ run' = [run EXCEPT ![w] = [active |-> TRUE, rows |-> rows, answer |-> Nothing]]
    /\ UNCHANGED <<chainVars, clientVars, inFlight, stored, restarts, listed>>

(* The transaction executes, or is refused by its preflight. *)
RevealExecutes(q) ==
    LET salt == SaltOf[q.fixture] IN
    \/ RevealPick(Own(q.fixture), q.score[1], q.score[2], salt)
    \/ /\ RevealOutcome(Own(q.fixture), q.score[1], q.score[2], salt) # "Ok"
       /\ UNCHANGED chainVars

(* The row the loop is at: the first of those that are left. *)
At(w, i) == i \in DOMAIN run[w].rows /\ \A j \in DOMAIN run[w].rows : i <= j

Sending(w, i, f) == At(w, i) /\ run[w].answer = Nothing /\ run[w].rows[i].fixture = f

SendAnswered(w, f) ==
    /\ \E i \in DOMAIN run[w].rows :
          LET q == PayloadOf(run[w].rows[i]) IN
          /\ Sending(w, i, f)
          /\ RevealExecutes(q)
          /\ run' = [run EXCEPT ![w] = [@ EXCEPT !.answer =
                 RevealOutcome(Own(q.fixture), q.score[1], q.score[2], SaltOf[q.fixture])]]
    /\ UNCHANGED <<clientVars, inFlight, stored, restarts, listed>>

(* No confirmation in time: the transaction may or may not be on its way. *)
SendUnanswered(w, f) ==
    /\ \E i \in DOMAIN run[w].rows :
          /\ Sending(w, i, f)
          /\ \/ UNCHANGED inFlight
             \/ /\ Cardinality(inFlight) < MaxInFlight
                /\ inFlight' = inFlight \cup
                       {[kind |-> "reveal", payload |-> PayloadOf(run[w].rows[i])]}
    /\ run' = [run EXCEPT ![w] = [@ EXCEPT !.answer = "NoAnswer"]]
    /\ UNCHANGED <<chainVars, clientVars, stored, restarts, listed>>

RevealLands(q) ==
    LET tx == [kind |-> "reveal", payload |-> q] IN
    /\ tx \in inFlight
    /\ inFlight' = inFlight \ {tx}
    /\ RevealExecutes(q) \/ UNCHANGED chainVars
    /\ UNCHANGED <<clientVars, backendVars>>

(* "Chain is source of truth"; one mutant trusts no error, one every error. *)
Marks_OnlyOk(answer) == answer = "Ok"
Marks_AnyAnswer(answer) == answer # "NoAnswer"
Marks(answer) == answer \in {"Ok", "AlreadyRevealed"}

(* Per-row isolation; the mutant gives up at the first failing row. *)
RowsAfter_Failure(w, i) ==
    Ahead([j \in IF Marks(run[w].answer) THEN DOMAIN run[w].rows \ {i} ELSE {} |-> run[w].rows[j]])
RowsAfter(w, i) == Ahead([j \in DOMAIN run[w].rows \ {i} |-> run[w].rows[j]])

(* UPDATE ... WHERE wallet and fixture. *)
MarkRow(f) ==
    stored' = [j \in DOMAIN stored |->
        IF stored[j].fixture = f THEN [stored[j] EXCEPT !.revealed = TRUE] ELSE stored[j]]

FinishRow(w) ==
    /\ run[w].answer # Nothing
    /\ \E i \in DOMAIN run[w].rows :
          /\ At(w, i)
          /\ IF Marks(run[w].answer) THEN MarkRow(run[w].rows[i].fixture) ELSE UNCHANGED stored
          /\ run' = [run EXCEPT ![w] = [active |-> RowsAfter(w, i) # << >>,
                                        rows |-> RowsAfter(w, i), answer |-> Nothing]]
    /\ UNCHANGED <<chainVars, clientVars, inFlight, restarts, listed>>

(* The process restarts: the database is all that is left of it. *)
RestartBackend ==
    /\ restarts < MaxRestarts
    /\ \E w \in WorkerRun : run[w].active
    /\ run' = [w \in WorkerRun |-> IdleRun]
    /\ restarts' = restarts + 1
    /\ UNCHANGED <<chainVars, clientVars, inFlight, stored, listed>>

(* DELETE /admin/fixtures; the worker then leaves the fixture's picks alone. *)
DeleteFixture(f) ==
    /\ f \in listed
    /\ listed' = listed \ {f}
    /\ UNCHANGED <<chainVars, clientVars, inFlight, stored, run, restarts>>

(* A sync that TxLINE still announces the fixture to. *)
UpsertFixture(f) ==
    /\ f \notin listed
    /\ listed' = listed \cup {f}
    /\ UNCHANGED <<chainVars, clientVars, inFlight, stored, run, restarts>>

TimePasses ==
    /\ Tick
    /\ UNCHANGED <<clientVars, inFlight, backendVars>>

-----------------------------------------------------------------------------

Client(p) ==
    \/ \E f \in FixtureId :
          \/ \E s \in Score : SubmitCommit(p, f, s)
          \/ ConfirmThrows(p, f)
          \/ PostPick(p, f)
          \/ FinishCommit(p, f)
    \/ RefreshEntries(p)
    \/ ClosePage(p)
    \/ LoadPending(p)
    \/ RetryPost(p)
    \/ SavePending(p)

Worker(w) ==
    \/ StartRun(w)
    \/ \E f \in FixtureId : SendAnswered(w, f) \/ SendUnanswered(w, f)
    \/ FinishRow(w)

Network ==
    \/ \E p \in Page, q \in Payload : CommitLands(p, q) \/ CommitExpires(p, q)
    \/ \E q \in Payload : RevealLands(q)

Next ==
    \/ \E p \in Page : Client(p)
    \/ \E w \in WorkerRun : Worker(w)
    \/ Network
    \/ RestartBackend
    \/ \E f \in Deletable : DeleteFixture(f) \/ UpsertFixture(f)
    \/ TimePasses

Spec == Init /\ [][Next]_vars

(***************************************************************************)
(* The backend's event loop runs on; setInterval starts runs again and     *)
(* again; a transaction in flight lands or expires; time passes; and a row *)
(* that is sent again and again is answered at some point (the RPC node is *)
(* not down for ever).                                                     *)
(***************************************************************************)
BackendFairness ==
    /\ WF_vars(TimePasses)
    /\ WF_vars(Network)
    /\ \A w \in WorkerRun : WF_vars(Worker(w))
    /\ \A f \in FixtureId : SF_vars(\E w \in WorkerRun : SendAnswered(w, f))

(* A page's JavaScript runs on: what it started it continues. *)
ClientFairness ==
    \A p \in Page :
        /\ WF_vars(\E f \in FixtureId : PostPick(p, f) \/ FinishCommit(p, f))
        /\ WF_vars(LoadPending(p) \/ RetryPost(p) \/ SavePending(p))

BackendSpec == Spec /\ BackendFairness
FairSpec == BackendSpec /\ ClientFairness

-----------------------------------------------------------------------------

(* Every variable holds what the code keeps in it; a queue holds one payload *)
(* per pick (enqueuePendingPick drops the older one).                        *)
TypeOK ==
    /\ ChainTypeOK
    /\ flow \in [Page -> [FixtureId ->
           [step : {"idle", "confirming", "executed", "posted", "failed"},
            score : Score \cup {Nothing}]]]
    /\ marked \in [Page -> SUBSET FixtureId]
    /\ inFlight \subseteq Tx
    /\ pending \in Seq(Payload)
    /\ \A i, j \in DOMAIN pending : pending[i].fixture = pending[j].fixture => i = j
    /\ pass \in [Page -> [active : BOOLEAN, todo : Seq(Payload), left : Seq(Payload)]]
    /\ stored \in Seq(Row)
    /\ \A w \in WorkerRun :
          /\ \A i \in DOMAIN run[w].rows :
                i \in DOMAIN stored /\ PayloadOf(run[w].rows[i]) = PayloadOf(stored[i])
          /\ run[w].answer \in
                {"Ok", "AccountNotInitialized", "FixtureNotStarted", "AlreadyRevealed",
                 "CommitmentMismatch", "NoAnswer", Nothing}
    /\ restarts \in 0..MaxRestarts
    /\ listed \subseteq FixtureId

(***************************************************************************)
(* The backend never believes more than the chain: a row is only marked    *)
(* when its entry shows exactly the stored scoreline, whatever runs        *)
(* overlap, answers get lost or restarts fall between the transaction and  *)
(* the mark; a wrong mark would bury the pick (the worker never looks at   *)
(* the row again).                                                         *)
(***************************************************************************)
MarkedMeansShown ==
    \A i \in DOMAIN stored : stored[i].revealed =>
        /\ Revealed(Own(stored[i].fixture))
        /\ <<entries[Own(stored[i].fixture)].home_goals,
             entries[Own(stored[i].fixture)].away_goals>> = stored[i].score

(***************************************************************************)
(* What the chain shows of this participant is what the backend stored: no *)
(* other payload than the first one posted is ever revealed.               *)
(***************************************************************************)
ShownWasStored ==
    \A f \in FixtureId : Revealed(Own(f)) =>
        \E i \in RowsOf(f) :
            stored[i].score = <<entries[Own(f)].home_goals, entries[Own(f)].away_goals>>

(***************************************************************************)
(* A pick has one row, and a stored payload is final: two pages, a retry   *)
(* and a late post never replace, drop or unmark it.                       *)
(***************************************************************************)
StoredIsFinal ==
    [][/\ \A i \in DOMAIN stored :
             /\ i \in DOMAIN stored'
             /\ PayloadOf(stored'[i]) = PayloadOf(stored[i])
             /\ stored[i].revealed => stored'[i].revealed
       /\ \A f \in FixtureId : Cardinality(RowsOf(f)') <= 1]_vars

(***************************************************************************)
(* Every stored payload that opens its entry is shown on-chain in the end, *)
(* also when rows before it can never be revealed, and when its fixture    *)
(* was deleted for a while: only a fixture that is deleted again and again *)
(* is left out.  (No row and no reveal is ever undone, so once the table   *)
(* of fixtures stays as it is, what holds again and again for all of them  *)
(* holds from some point on for each.)                                     *)
(***************************************************************************)
StoredGetsShown ==
    []<>(\A i \in DOMAIN stored :
            OpensEntry(PayloadOf(stored[i])) /\ stored[i].fixture \in listed
            => Revealed(Own(stored[i].fixture)))

(***************************************************************************)
(* A shown pick's row is marked in the end, also when the answer was lost  *)
(* or a restart came between, so the worker's work list drains.            *)
(***************************************************************************)
ShownGetsMarked ==
    []<>(\A i \in DOMAIN stored :
            Revealed(Own(stored[i].fixture)) /\ stored[i].fixture \in listed => stored[i].revealed)

-----------------------------------------------------------------------------
(* What the code's comments claim and the code does not do. *)

(***************************************************************************)
(* pendingPicks.ts:34: a retry removes the payloads that posted            *)
(* successfully, so a queued payload only leaves the queue for the table.  *)
(***************************************************************************)
QueuedUntilStored ==
    [][\A f \in FixtureId :
          LET Queued(queue) == \E i \in DOMAIN queue : queue[i].fixture = f IN
          Queued(pending) /\ ~Queued(pending') => RowsOf(f) # {}]_vars

(***************************************************************************)
(* PoolPage.tsx:183: a payload is posted because its on-chain commit       *)
(* landed, so a stored payload opens its entry.                            *)
(***************************************************************************)
StoredMeansCommitted ==
    \A i \in DOMAIN stored : OpensEntry(PayloadOf(stored[i]))

(***************************************************************************)
(* Design decisions, section 2: auto-reveal with a client-side fallback,   *)
(* so every committed pick is shown in the end.                            *)
(***************************************************************************)
CommittedGetsShown ==
    \A f \in FixtureId : Committed(Own(f)) ~> Revealed(Own(f))
=============================================================================

# Acertana, verified

TLA+ models of Acertana, a game of sealed football predictions: participants
commit the hash of a scoreline on Solana before kickoff, a backend reveals it
afterwards, and a leaderboard scores what was revealed against the results of
the TxLINE feed. TLC checks the models on small instances; TLAPS proves the
safety properties that these runs check for every value of the constants.

File and line references are to the repository; `PROJECT.json` maps every
definition to the lines it models.

## The system

| component | state it keeps | operations | interacts with |
|---|---|---|---|
| on-chain program (`programs/acertana`) | `Fixture`, `Pool`, `Entry` accounts; reads the clock | `register_fixture`, `create_pool`, `commit_pick`, `reveal_pick` | called by pages, sync and worker |
| pool page (`app/src/pages/PoolPage.tsx`, `ChainClient.ts`) | the commit in progress, `entries` on screen | commit, retry effect, entries effect, polls | sends transactions, posts payloads |
| pending picks (`pendingPicks.ts`) | a queue in `localStorage`, shared by all tabs | enqueue, retry pass | `POST /picks` |
| pick storage (`server.ts`, `db.ts`) | table `picks` | `POST /picks` (400 on a malformed body, 409 on a second row) | pages, worker |
| reveal worker (`revealWorker.ts`, `main.ts`) | the rows of each run in progress | `runRevealWorker` on an interval | tables `picks`, `fixtures`, program |
| results store (`results.ts`) | a map in memory, table `results` | `apply`, constructor | stream, backfill, admin route |
| score ingestion (`txline/`) | connection, last event id, passes in progress | `scoreEvents`, `fetchScoreSnapshot`, `backfillResults` | TxLINE, results store |
| roster (`server.ts`, `joinCodes.ts`) | tables `pools`, `members` | create pool, join, approve or reject | pages, boards |
| pages around a pool (`CreatePoolPage.tsx`, `JoinPage.tsx`, part of `PoolPage.tsx`) | the answers they were last given | create, follow a link, show the link, answer requests | program, roster |
| boards (`leaderboard.ts`, `server.ts`) | requests between their awaits | `/members`, `/leaderboard`, `/picks` | roster, chain, results, verifier |
| fixture sync (`fixtureSync.ts`, `main.ts`), `registerFixtures.ts` | table `fixtures`, syncs in progress | fetch, upsert, register, admin delete | TxLINE, program |
| TxLINE client (`txline/client.ts`) | one JWT, last event id, backoff | `get`, `renewJwt`, `scoreEvents` | sync, backfill, results store |
| wallet verifier (`auth.ts`) | a map from user to wallets, kept a minute | `verifyWallet` | Privy, every route with a wallet |
| faucet (`main.ts`, `server.ts`) | none; balances are the chain's | `POST /faucet` | verifier, chain |
| screen of the pool page (`PoolPage.tsx`, `FixtureRow.tsx`) | list, markers, tab, ranking, errors, busy rows | polls, tab change, commit | backend, program |
| codecs, other pages | | | see "Not modelled" |

What is hard about it: there is no transaction across page, backend and chain.
A commit lands on-chain before the backend hears of it; a transaction may land
long after the sender gave up; `setInterval` starts workers and syncs without
waiting for the previous ones; handlers use what they read before an `await`;
the process restarts; the stream has gaps and replays. `PROJECT.json` lists the
hazards at their lines, and the properties that watch them.

What has to hold, component by component:

- **program**: nobody commits to a fixture after a pick of it is public; what is
  shown is what was committed; accounts are anchored and never rewritten.
- **picks**: the first stored payload of a pick is final and the only one ever
  shown; a row is marked only if the chain shows it; what can be shown is shown,
  and then marked.
- **results**: finals stay final; no scoreline is made up; nothing known is lost
  in a restart; a match that ended is settled.
- **roster**: no one enters a gated pool without the organizer's yes; a member
  stays; the first e-mail stays; a join code names one pool.
- **pages**: a link on a screen leads to the pool of that screen; the invite is
  seen by insiders; what a guest is told stays true.
- **boards**: members only, also when the roster is old; e-mails on a board only for
  the pool; ranks agree with points.
- **TxLINE client**: reconnecting loses and repeats no event; a request outlives
  the token it began with; the stream always comes back.
- **verifier and faucet**: a verdict is at most a minute and one call old;
  top-ups that overlap do not add up without limit.
- **screen**: a row whose pick is saved never reopens, and one that was too late only
  when the match is moved to a later time; what is polled catches up.
- **fixtures**: a marked row is on-chain; the kickoff on-chain, which cannot be
  corrected, was announced; a match that can be registered is.

## Modules

| module | models | state and actions |
|---|---|---|
| `SealedPicks` | the promise of the chain, no clock and no accounts | `picks`, `closed`; `SealPick`, `Close`, `Show` |
| `AcertanaProgram` | `lib.rs` | `fixtures`, `pools`, `entries`, `clock`; one action per instruction, and `Tick`; `RevealOutcome` is the first check of `reveal_pick` that fails |
| `PickLifecycle` (extends `AcertanaProgram`) | page, queue, `POST /picks`, worker, network | `flow` is a `commit()` between its awaits, `pass` a `retryPendingPicks`, `run` a `runRevealWorker` with the rows it has left, by row id, `inFlight` what was sent and has neither executed nor expired, `listed` the fixtures in the backend's table, from which an admin deletes and to which a sync adds |
| `ResultsStore` | `results.ts` | `results` (memory), `table`; `Apply`, `Reload` |
| `MatchBoard` | the promise of the results to those who read them, no memory, table, stream or restart | `told`, `stood` (what a match stood at when it had ended), `board`; `Score`, `End`, `EndAt`, `Show` |
| `ScoreIngest` (extends `ResultsStore`) | stream, snapshots, backfill, admin results | `history` is what TxLINE knows, `next` the position of the stream, `pass` a `backfillResults` between its awaits; `endsHeard` is a history variable |
| `Scoring` | `scoring.ts` | `ScorePick` |
| `GatedPools` | the promise of a pool to the people around it, no rows and no codes | `rule`, `standing`; `Enter`, `Ask`, `Accept`, `Decline` |
| `Roster` | pools and members | `pools`, `members`, `response` (an answer of the organizer between its awaits); `approved` is a history variable |
| `PoolPages` (extends `Roster`) | `CreatePoolPage`, `JoinPage`, invite link and requests of `PoolPage` | `account` is a create_pool transaction, `create` and `join` the pages of a wallet, `desk` an open PoolPage |
| `Leaderboard` (extends `Roster`, `ResultsStore`, `Scoring`) | `computeStandings`, the two boards and the list of members | `request` is a GET with the roster it has read and what it waits for |
| `TxlineClient` | `client.ts` but the mapping of payloads | `get` is a `get()` between its awaits, `stream` the loop of `scoreEvents`; each holds the token it was sent with, as `jwt` may be overwritten meanwhile |
| `WalletVerifier` | `auth.ts` | `call` is a `verifyWallet` between its awaits, `cache` the map; `lastIn` and `lastOut` are history variables: when a wallet last was, and was not, linked |
| `Faucet` (extends `WalletVerifier`) | `POST /faucet` and the function behind it | `topup` is the part of a request after its verdict, `late` transfers that were given up on |
| `PoolView` | what `PoolPage` and `FixtureRow` show | `listAnswers` and `rankAnswers` are answers on their way, `reading` the entries effect that is not cancelled, `attempt` a `commit()`, `busy` the rows that wait for one. What the backend would answer is a version; `schedule` has the kickoffs of each, `deadline` those of the chain, `nowTs` is the time of the last render |
| `FixtureSync` (extends `AcertanaProgram`) | sync and registration, by the backend and by hand | `sync` is a `syncFixtures` (or, in `Cli`, a run of `register-fixtures`) between its awaits, `rows` the table, `inFlight` transactions that may still land; `announced`, `everTold` are TxLINE's |
| `AcertanaProgramProofs`, `PickLifecycleProofs`, `ScoreIngestProofs`, `RosterProofs`, `PoolPagesProofs`, `LeaderboardProofs` (of `Scoring` and `PoolView` too), `FixtureSyncProofs`, `StandaloneProofs` (of `TxlineClient`, `WalletVerifier`, `Faucet`) | | theorems |

An action is what the JavaScript event loop does between two awaits (one
database statement and the code around it run without interruption), or what
the chain does with one transaction.

A step of the code that waits is split where it waits. Data is reduced to what
the properties compare: keccak is an injective constant, a salt a function of
the fixture, a name its length, an error its cause, a timestamp a small
integer, and a scoreline a pair of goals (in `ScoreIngest`, one value, as feed
and API set both counts or neither). Definitions with an underscore in their
name (`Marks_OnlyOk`) are plausible mistakes in the code; nothing uses them.
`PROJECT.json` pairs each with the property that it breaks.

## Runs

| run | instance | properties |
|---|---|---|
| `standalone` | program: 2 wallets (one the authority), 1 pool, 2 fixtures, kickoffs 0 (refused), 1, 2, goals 0 and 1, one commitment nothing opens, clock to 3. Client: 1 `get`, 3 messages of which 2 map to events, 2 faults. Verifier and faucet: 1 user, 1 wallet, 2 calls, a cache of 2 ticks, 1 tick of latency, clock to 4, 1 late transfer. Roster: 2 wallets, 1 pool, 2 answers in progress | `StandaloneTypeOK`, `ShownOpensCommitment`, `EntriesAnchored`, `NoCommitAfterFirstReveal`, `RefinesSealedPicks`; `NoGapNoRepeat`, `GetOutlivesItsToken`, `StreamCatchesUp`; `VerdictIsRecent`, `TopUpsAreBounded`; `RefinesGatedPools` |
| `picks_race` | 2 pages, 2 scorelines, 1 fixture, 2 worker runs, 2 transactions in flight, 1 restart | `TypeOK`, `MarkedMeansShown`, `ShownWasStored`, `StoredIsFinal` |
| `picks_rows` | 1 page, 2 fixtures, 1 worker run, 1 transaction in flight, 1 restart; the database's kickoff of one fixture is earlier than the chain's, and the other fixture may be deleted and listed again at any time, as often as one likes | `StoredGetsShown`, `ShownGetsMarked` |
| `results` | 1 covered match with up to 3 actions, 1 admin match, 2 scorelines, 1 restart; any action may be final, bare or with a score, also after the end (`Corrections`) | `TypeOK`, `NoInventedScore`, `ScoredEndIsTrue`, `FinalStaysFinal`, `RefinesMatchBoard`, `EndedGetsFinal` |
| `pool_pages` | 2 pools, 2 codes, an organizer and a guest, 1 e-mail, 1 page on screen and 1 answer from another tab | `RosterTypeOK`, `GatedNeedsApproval`, `PagesTypeOK`, `LinksLeadToTheirPool`, `InviteStaysInside`, `JoinScreensHold`, `RowsStay` |
| `leaderboard` | 3 wallets, 1 pool, 1 match, 1 request, 1 answer in progress | `BoardsListMembers`, `BoardEmailsAreForThePool`, `RanksCountTheBetter` |
| `pool_view` | 1 match, 2 commits, kickoffs 1 and 2, clock to 1, 1 change of the list (scores or kickoff) | `ViewTypeOK`, `RowNeverReopens`, `PageCatchesUp` |
| `fixtures` | 2 matches, kickoffs 0 (which the program refuses) and 1, 2 syncs (the second may be the tool), 1 rescheduling, 1 deletion, 1 restart | `TypeOK`, `MarkedIsOnChain`, `ChainKickoffWasAnnounced`, `GetsRegistered` |

Four runs end in a counterexample; they are the findings below.

Why the bounds are enough. Entries of different fixtures and pools share
nothing in the program, so two fixtures show every way in which one could
disturb the other. Two pages and two worker runs give every pairwise race; a
third would repeat the same read-then-write pattern. One fixture that can be
deleted and one that cannot, in either order in the table, are the row a run must
pass over and the row it must not give up.

Three actions of a match are a goal, a bare end and an end with its score, or any
other three, with gaps and replays; after the end the feed of `results` may say
anything, and that of `results_status_only` repeats itself. The wallets of
`leaderboard` are the least with a tie above and a tie below a third row; in
`MCLeaderboard` the organizer answers nobody once the third takes part, so answers in
progress meet two wallets, and ties meet three.

The four components of `standalone` share no variable and, as they are used there,
call each other nowhere, so no interleaving of them says more than each by itself:
a behaviour is one of them running (`running`) while the others stay as they began. Two wallet
verifications are the least in which an old answer overtakes a new one; a cache
of two ticks lets an entry be fresh, old and gone, and latency lets an answer be
older than its arrival. Two faults let a token expire in a renewal and again in
the request. In `pool_view` the versions 1 and 2 tell an old answer from a new
one, and the second may move the match from a time that has come to one that has
not, or back; two commits are the row that was drawn anew while its first commit is
under way, and `MCPoolView` has them at once only before the list changes or an error
or a ranking came. It opens the page while list and chain agree on the kickoff.

In `fixtures` the second sync is now one of the backend and now a run of the
tool, so both kinds of overlap happen.

Every bound on an unbounded quantity is a constant named
`Max...`: `MaxTime`, `MaxInFlight`, `MaxRestarts`, `MaxActions`, `MaxMoves`,
`MaxDeletes`, `MaxFeed`, `MaxFaults`, `MaxNow`, `MaxLate`, `MaxLive`. They only cut behaviours short. Deadlock is checked except where
time itself ends (`MaxTime`, `MaxNow`), or the pools that can be created are used up
(`PoolId` in `pool_pages`): then nothing may be left to do. `pool_pages` checks
safety only, with symmetry over pools and codes. Its roster is used through the
pages alone; that the pages use it as its handlers allow is `PagesUseTheRoster`.
The answers in `Response \ Desk` are those of tabs whose screen is not followed:
they may answer any request at any time, so a list as old as one likes is there
without a second screen. Two codes for two pools make every pair of draws
collide or not; one e-mail and none are what the upsert tells apart.

### Fairness

- The event loop runs what is ready and `setInterval` fires again and again:
  weak fairness of each worker run, sync and backfill pass (each as a whole), of the
  loop of `scoreEvents`, and of the polls of an open page. The
  sync that may be a run of the `register-fixtures` tool has none: nobody needs
  to run it, and the other one has to do.
- A transaction that was sent lands or expires (its blockhash gets old): weak
  fairness of `Network`. Time passes: weak fairness of `TimePasses`.
- A request that is sent again and again is answered at some point: strong
  fairness of `SendAnswered`, `AskSnapshot` and `RegisterAnswered`, per fixture,
  of what the stream waits for (a renewal, a connection, a message), and of a
  list or a read of the entries that arrives before the next poll replaces it.
  This is the assumption that RPC node and TxLINE are not down for ever; without
  it no retry loop reaches anything. A lapsed API token is renewed at some point.
- A page that is open goes on with what it began, but may be closed at any time
  (`ClosePage` has no fairness). Nothing is assumed of the stream in
  `ScoreIngest`, of participants or of the organizer.

The liveness of `results` supposes that a match ends within the seven days the
backfill looks back (`backfill.ts:6`).

### Findings

- **A queued pick can be lost** (`picks_queue_lost`). `retryPendingPicks` loads
  the queue, awaits one post per payload, and then saves what is left of its old
  copy. A payload that `commit` enqueues in between is overwritten
  (`pendingPicks.ts:46`); it is the only copy the backend could have revealed.
- **A commit that failed counts as landed** (`picks_unlanded`).
  `confirmTransaction` resolves with an error in its value for a transaction
  that executed and failed; `ChainClient.ts:62` does not look. At kickoff, the
  page posts a payload that no entry backs, and shows the pick as committed.
- **No fallback reveal** (`picks_unrevealed`). The design document, section 2,
  has a reveal by the client on the next opening of the app. There is none.
  `commitPick` throws when the RPC node fails while the page waits for the
  confirmation (`ConfirmThrows`): the page stays open, but the payload, which is
  posted or queued only after `commitPick` returned, is gone, and the transaction
  lands afterwards. Closing the page in the same gap (`ClosePage`) does the same.
  TLC reports one or the other: a pick on the chain that nobody can show.
- **A bare final status can freeze a wrong score** (`results_status_only`). A
  final event without goals takes the last known scoreline, or 0-0. After a gap
  of the stream this is not the score of the match, and the backfill skips the
  fixture because it is final (`results.ts:55`, `backfill.ts:23`).
  A `game_finalised` with the score would correct it, but the gap may take that
  one too. What holds is conditional: a match of which an end *with its
  scoreline* was applied is settled with a scoreline it stood at when it had ended
  (`ScoredEndIsTrue`). Of a match whose scored ends were all lost nothing is promised.

Also visible in the models or met while writing them, without a run of their own:

- A payload whose `POST` was stored but not answered is answered 409 from then on
  and never leaves the queue (`pendingPicks.ts:43`). No pick is lost by it.
- One failed poll of `/fixtures` puts the error screen in place of the page, and
  nothing clears `fixturesError` (`PoolPage.tsx:98`), though the comment at
  line 90 promises live scores "without a manual reload". The first clause of
  `PageCatchesUp` leaves such a page out.
- While the API token is not accepted, `scoreEvents` renews and connects in a loop
  with no wait at all (`client.ts:248`), though line 228 says "with backoff". A
  stream that is closed at once does the same, as `backoffMs` starts over with
  every connection.
- A row that said "too late" is offered again when a sync moves the match to a later
  time, or an older answer of `/fixtures` brings a later one back
  (`fixtureSync.ts:24`, `FixtureRow.tsx:17`). The chain keeps the first kickoff
  (`fixtureSync.ts:16`), so it refuses the pick that the row offers.
- `GET /pools/:pubkey/members` answers any caller with every member's e-mail hint
  (`server.ts:176-193`), while the comment at `server.ts:283` has the boards include
  the same e-mails for proven members only. `BoardEmailsAreForThePool` is about the
  boards and nothing more.
- `GET /wallets/:wallet/pools` lists pools in which the wallet is only a pending
  request, and leaves out pools the wallet organizes without a row
  (`server.ts:135`), though line 125 says "Pools a wallet belongs to".
- The picks of a fixture that is deleted (`server.ts:435`) stay in the table and are
  shown only if a sync lists the fixture again. The comment at line 426 says so.
  `StoredGetsShown` therefore speaks of listed fixtures.

## Proofs

Every safety property of a passing run is stated by a theorem, for every value of
the constants. Each component's proof has one inductive invariant, one lemma per
action, and the theorems that follow from it.

The assumptions are what the code gives: what stands for "nothing" (`NoRow`,
`NoScore`, `NoResult`) is no value, keccak is injective, the bounds are numbers,
and `BoardConstants` takes the wallets as a finite set (they are 32-byte addresses).

What a loop computes is proved by induction. The library's induction theorems take
an operator as a parameter, which the provers cannot instantiate; so each such
proof takes the least number, or the least size of a set, for which the claim is
wrong (`SmallestNumber`, from the well-foundedness of `<`), and shows that the one
before is wrong too. The model's loops are recursive functions and folds, never
recursive operators.

`AcertanaProgramProofs`, from the assumptions `ChainConstants` and
`KeccakAssumption`, for any number of wallets, pools, fixtures and any clock:

- `ChainInvariant`: `ChainInv` is the conjunction of `ChainTypeOK`,
  `ShownOpensCommitment` and `EntriesAnchored`. It is inductive because
  `EntriesAnchored` says that a revealed entry's fixture has started: this is
  what makes a later commit impossible, and none of the conjuncts says it alone.
  There is a lemma for each instruction and one for `Tick`.
- `ChainTypeCorrect`, `ShownIsCommitted`, `EntriesStayAnchored` follow.
- `KickoffSeparates` (`NoCommitAfterFirstReveal`): if some entry of a fixture is
  revealed, the clock has reached its kickoff; `commit_pick` wants it before; the
  kickoff of a registered fixture never changes.
- `ProgramImplementsSealedPicks`: a step of the program is a step or a stutter
  of `SealedPicks` under the mapping `PickOf`. A tick closes the fixtures it
  reaches; registering a fixture whose kickoff has passed closes it at once.

`ScoreIngestProofs`, from `ResultsConstants`, `NoResultAssumption` and
`IngestConstants`, for any number of passes and every bound on the feed:

- `IngestInvariant`: `TypeOK` and `Persisted`. The types say that a pass that
  waits holds an event, which `ApplySnapshot` needs; `Persisted` is what makes a
  restart a step that changes no result.
- `IngestTypeCorrect`, `ResultsSurviveRestarts` follow, and `FinalsAreFinal`
  (`FinalStaysFinal`) from the same invariant, action by action.
- `SourceInvariant`: `SourceInv` says of every snapshot still to be applied, and of
  every result, that its scoreline was reported, that it is final only after an end,
  and that an answer which is final with a scoreline names one the match stood at when
  it had ended (`Stood`). It supposes nothing of the feed, which may tell the end any
  number of times. `ScoresAreReported` (`NoInventedScore`) and `ScoredEndsSettle`
  (`ScoredEndIsTrue`) follow; neither is inductive, as a snapshot is applied long
  after it was taken. `UncorrectedEndsAreTrue`: if the feed corrects nothing after the
  end (`~Corrections`), the scoreline of a match whose scored end was applied is its
  true one, however many bare ends were heard before.
- `SnapshotIsTheFold`: the loop of `fetchScoreSnapshot` (one pass is `Folded`) ends,
  for every history, with what `Snapshot` says of it.
- `StreamAndSnapshotAgree`: a stream that delivers a whole history, action by action
  through `apply` (`Known`), and one snapshot at its end leave the same result, as
  the comment at `client.ts:220` says. The history may tell the end any number of
  times; it needs `EndIsAPhase`, that a scoreline told after an end is told by an
  action that is final too, as the phase is on every action (`client.ts:39-42`).
  Without it they differ: `apply` refuses such a scoreline, the snapshot takes it.
- `ReplaysAreHarmless`: a store that hears a history, any history, again from any
  action on ends with the result it had (`client.ts:231`).
- `StoreImplementsMatchBoard` (`RefinesMatchBoard`): the whole of score ingestion
  implements `MatchBoard`, with `Told` and `Stood` of the feed's history as the
  mapping. An action of the feed is `Score`, `End`, `EndAt` or no step, an `Apply` by
  stream, snapshot or admin is a `Show` or changes nothing, and a restart is no step at all, which is
  `Persisted` at work: a write to the table that is left out shows up as a result
  that is forgotten. The proof needs `SourceInv` for every `Show`.

`PickLifecycleProofs`, from `PickConstants`, `ChainConstants` and
`KeccakAssumption`, for any number of pages, fixtures, worker runs, transactions
in flight and restarts:

- `PickInvariant`: `PickInv` is the program's `ChainInv`, and: a pick has one row;
  the rows of a run and the reveals in flight come from the table; a run that was
  answered `Ok` or `AlreadyRevealed` is at a row whose entry is shown; what is
  shown is in the table; a marked row is shown.
- `MarkedPicksAreShown` needs all of it: `AlreadyRevealed` only says that
  *something* is shown. It is the row's own scoreline because the single row of
  the pick is where every reveal came from.
- `ShownPicksWereStored` follows, and `StoredPicksAreFinal`: no page, retry, run
  or restart replaces, drops or unmarks a row.
- `PickTypesCorrect` (`TypeOK`). That the queue holds one payload per pick, and a
  pass only payloads that can be posted, rests on `Without`, the filter of
  `pendingPicks.ts`, which is a loop: `WithoutIsRight` says that what is left is a queue
  again, of payloads that were in it, and none of the pick that goes.
- `StepOfTheProgram`: every step of page, backend, worker or network is a step of the
  program or leaves the accounts alone. So `PicksAreNotCopied`
  (`NoCommitAfterFirstReveal`), `PicksOpenTheirCommitment` (`ShownOpensCommitment`)
  and `PicksStaySealed` (a step of `SealedPicks`) are the program's theorems, in the
  life of a pick.

`RosterProofs`, from `RosterConstants`, for any number of pools, wallets, codes
and answers in progress:

- `RosterInvariant`: `RosterTypeOK` and `GatedNeedsApproval`. It needs the
  conjunct of `RosterTypeOK` that only registered pools have rows: otherwise a
  pool could be registered as gated around members it already has.
- `RosterTypeCorrect` and `GatedPoolsAreGated` follow. `RowsAreKept` (`RowsStay`)
  comes from the lemma of each action that every row it touches is kept.
- `RosterImplementsGatedPools`: a row is a request or a membership (`RuleOf`,
  `StandingOf`); a join enters, asks or moves nobody; an answer that arrives is
  `Accept` or `Decline` of somebody who is still waiting.

`PoolPagesProofs`, from `RosterConstants` and `PageConstants`, for any number of
pools, codes, wallets, pages and answers in progress:

- `PagesUseTheRoster`: every step of the pages is a step of `RosterSpec` or a
  stutter, so `PagesKeepGates`, `PagesKeepMembers` and `PagesImplementGatedPools` are the
  roster's theorems.
- `PagesInvariant`: `PageInv` adds to the roster's invariant what each screen
  relies on. `LinksLeadToTheirPool` and the others are not inductive by
  themselves: a code on a screen must be the code in the pool's row (then the
  `UNIQUE` of the table does the rest), a registered row never changes
  (`PoolsKept`), and an open pool has no pending row (`OpenPoolsDoNotAsk`), or a
  guest of an open pool could be told to wait.
- `PagesTypeCorrect`, `LinksLead`, `InvitesStayInside` and `JoinScreensAreTrue`
  follow. The step of a page is proved page by page: `CreatePart`, `JoinPart`,
  `DeskPart`.

`FixtureSyncProofs`, from `SyncConstants` and `ChainConstants`, for any number of
syncs, matches and bounds:

- `SyncInvariant`: `SyncInv` is the types, that every kickoff a sync holds or a
  transaction carries was announced for its match (`SyncsAreTold`,
  `InFlightIsTold`), and the two properties. A kickoff that lands may be one that
  TxLINE has replaced since, so the invariant speaks of all that was ever told.
- `FixtureTypesCorrect`, `MarkedRowsAreOnChain`, `KickoffsWereAnnounced` follow.

`LeaderboardProofs`, from `BoardConstants`, `RosterConstants`, `ResultsConstants` and
`NoResultAssumption`, for any roster, entries, results and number of requests:

- `PointsAreAsPromised`: the points are what the comment of `scorePick` says.
- `RanksAreRight` (`RanksCountTheBetter`). `PointsAddUp` is an induction over the
  entries: the sum of the points is what the hits add up to. `SortedExists` is one
  over the rows: as no two rows tie, they can be sorted (otherwise `Sorted` would be
  any value at all). `PlacesCount` is one over the sorted rows: the rank that the loop
  carries along is one more than the number of better rows.
- `BoardInvariant`: `BoardInv` is the roster's invariant and, for each request, what
  it relies on. The roster it read is one of wallets that are members now, because
  members stay (`MembersStay`); a pool keeps its row, so its organizer too
  (`PoolsStay`); a verdict that came back says that the token proves the wallet.
- `BoardsAreAboutMembers`, `BoardEmailsReachThePool` and `GatedPoolsShowApproved` (who is
  on a board of a gated pool was let in by the organizer) follow;
  `BoardsUseTheRoster` says that nothing but the roster's own handlers changes it.
- `ViewInvariant`, for any number of matches, commits and polls: `ViewTypeOK` (answers
  on their way and what is shown are versions the backend has had) and that a commit
  under way knows its match. `ViewTypeCorrect` and `RowsNeverReopen`
  (`RowNeverReopens`) follow: what a marker says comes from the chain or from a commit,
  and both only add to it; the clock only moves on, so a row that was too late can
  only open by a later kickoff in the list.

`StandaloneProofs`, from `TxlineConstants`, for any number of requests, messages and
faults, and from `VerifierConstants` and `FaucetConstants`, for any number of users,
wallets and calls, any cache time and latency:

- `TxlineInvariant`: `TxlineInv` says where the stream resumes (`StreamIsResumed`)
  and with which token a request is in which attempt (`CallsAreSound`).
  `StreamLosesNothing` (`NoGapNoRepeat`) and `OneRenewalIsEnough`
  (`GetOutlivesItsToken`) follow.
- `FaucetInvariant`: `VerifierInv` (what a cache entry or an answer says of a link
  was so at some time since Privy was asked, so an old answer that overtakes a new
  one still expires in time), `Accounts`, and `TopUpsAreBounded`, which is inductive
  only because it counts transfers that are decided and those that are late together.
  `VerdictsRestOnRecentLinks` (`VerdictIsRecent`) and `FaucetIsBounded` follow.
- `StandaloneIsEach`: a behaviour of the composed system is one of each component.
  `StandaloneTypesCorrect` (`StandaloneTypeOK`) puts their type invariants together,
  and `StandaloneKeepsGates` (`RefinesGatedPools`) is the roster's refinement, used
  through the instance that `MCStandalone` has of it.

What stays with TLC: liveness (`StreamCatchesUp`, `StoredGetsShown`,
`ShownGetsMarked`, `EndedGetsFinal`, `PageCatchesUp`, `GetsRegistered`), as fairness
and `ENABLED` are out of reach of the prover, and the findings, which are
counterexamples.

## Not modelled

- SSE framing, the mapping of payloads to events and the abort signal of
  `client.ts`. `ScoreIngest` lets a connection report any answer and, unlike
  `TxlineClient`, does not trust the service to resume where it was asked to.
  The fixtures snapshot lists upcoming matches only; a sync of `FixtureSync` is
  told of all of them.
- In `Leaderboard` the verifier's verdict is free on each call, save that it
  accepts only tokens that prove the wallet; `VerdictIsRecent` says how old it is.
- The funds of the account that pays top-ups.
- The effect of `PoolPage` that fetches everybody's picks (lines 134 to 151).
  `nowTs` is among its dependencies, so every render in a later second cancels and
  repeats the request; what it shows is display only.
- AES-GCM, borsh, PDA derivation: pure codecs, here tuples and injective functions.
- `txline/subscribe.ts`, which sends its requests once in a row and keeps nothing;
  the stub feed; schema migrations.
- Notices and texts; the list and landing pages, which show one answer; routing
  and Privy.
- `PoolPages` does not tell a `create_pool` that failed from one that created the
  account, as the page does not either: `confirmTransaction` resolves for both
  (`ChainClient.ts:76`), and `POST /pools` never looks at the chain. It does not
  make the organizer a member, as `POST /pools` does not.
- Routes that only read one table, save `/members`.
- `PickLifecycle` and `FixtureSync` take an error of the program by its cause. The
  code looks for a substring in the whole message, logs included (`revealWorker.ts:61`
  for "6004", `fixtureSync.ts:71` for "already in use"), so a text or number in a log
  could pass for the error.
- An `apply` that throws (SQLite): `consume` then ends and nothing starts it again
  (`main.ts:37-39`), and only the backfill goes on. `StreamCatchesUp` supposes that
  every event is taken.
- The seed-file mode of `register-fixtures` (`registerFixtures.ts:21-23`):
  `ChainKickoffWasAnnounced` is about kickoffs that come from TxLINE.
- `NoGapNoRepeat` trusts TxLINE to resume after the `Last-Event-ID` it was given.
- `picks_rows` has one worker run, so `ShownGetsMarked` says nothing of overlapping
  runs; those are in `picks_race`, with `MarkedMeansShown`.
- In `PoolView` the page and the chain have one clock, and no match leaves the list.
- In `PickLifecycle` the kickoffs in the fixtures table are fixed; their changes are
  in `FixtureSync`.

## Plan

The modules above cover the components that keep state and interact. What is
left, in this order:

1. The hazard at `pendingPicks.ts:43` (an answer to a stored post that is lost): a
   property of the queue's entries, not only of the picks behind them.
2. `StoreImplementsMatchBoard` and `BoardsUseTheRoster` side by side: that the
   boards, which `Leaderboard` computes from any results, only ever score what
   `MatchBoard` lets be shown.

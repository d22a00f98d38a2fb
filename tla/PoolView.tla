------------------------------ MODULE PoolView ------------------------------
(***************************************************************************)
(* What a participant sees of a pool (PoolPage.tsx, FixtureRow.tsx): the   *)
(* list of matches and the ranking, which are polled, the markers of the   *)
(* own picks, which are read from the chain after every new list, and the  *)
(* commit of a pick, which a tab change does not stop.  Requests overlap,  *)
(* fail and are answered out of order.  The user is logged in.  What the   *)
(* backend would answer has a version: it changes with the scores and when *)
(* a match is rescheduled.                                                 *)
(***************************************************************************)
EXTENDS Naturals, Sequences

CONSTANTS
    Match,     \* the fixtures of the list
    Try,       \* commits that may be in progress at once
    Nothing,   \* null: nothing was loaded yet
    Kickoff,   \* the times a match may be scheduled for
    MaxNow,    \* bound on the clock
    MaxLive    \* bound on the versions of what the backend answers

ASSUME ViewConstants ==
    /\ Kickoff \subseteq Nat
    /\ MaxNow \in Nat /\ MaxLive \in Nat \ {0}
    /\ Nothing \notin Nat

VARIABLES
    account,       \* account[m]: the user's entry account on the chain
    deadline,      \* deadline[m]: the kickoff of the chain's Fixture, for good
    schedule,      \* schedule[v]: the kickoffs in version v of the backend's list
    now,
    list,          \* fixtures, by its version
    fixturesError,
    listAnswers,   \* answers of /fixtures on their way
    markers,       \* entries
    reading,       \* the run of the entries effect that is not cancelled
    tab,
    standings,     \* by version
    rankingError,
    rankAnswers,   \* answers of /leaderboard on their way to this tab
    attempt,       \* attempt[t]: a call of commit
    busy,          \* the commits whose row is still on the page
    nowTs          \* the time of the last render

worldVars == <<account, deadline, schedule, now>>
listVars == <<list, fixturesError, listAnswers>>
entryVars == <<markers, reading>>
rankVars == <<tab, standings, rankingError, rankAnswers>>
rowVars == <<attempt, busy>>
viewVars == <<worldVars, listVars, entryVars, rankVars, rowVars, nowTs>>

live == Len(schedule)    \* the newest version
Version == 1..MaxLive
Entries == {"none", "committed", "shown"}   \* null, unrevealed, revealed
NoAttempt == [step |-> "idle"]

ViewInit ==
    /\ account \in [Match -> Entries]
    /\ deadline \in [Match -> Kickoff]
    /\ \E kickoffs \in [Match -> Kickoff] : schedule = <<kickoffs>>
    /\ now \in 0..MaxNow
    /\ \A m \in Match : account[m] = "shown" => now >= deadline[m]
    /\ list = Nothing
    /\ fixturesError = FALSE
    /\ listAnswers = {}
    /\ markers = [m \in Match |-> "unknown"]
    /\ reading = Nothing
    /\ tab = "jogos"
    /\ standings = Nothing
    /\ rankingError = FALSE
    /\ rankAnswers = {}
    /\ attempt = [t \in Try |-> NoAttempt]
    /\ busy = {}
    /\ nowTs = now

(* Setting state renders the page, and nowTs is read anew. *)
Render == nowTs' = now

-----------------------------------------------------------------------------
(* What happens elsewhere. *)

Tick ==
    /\ now < MaxNow
    /\ now' = now + 1
    /\ UNCHANGED <<account, deadline, schedule, listVars, entryVars, rankVars, rowVars, nowTs>>

(* The account is committed from another page, or the worker reveals it. *)
AccountMoves(m, to) ==
    /\ \/ account[m] = "none" /\ to = "committed" /\ now < deadline[m]
       \/ account[m] = "committed" /\ to = "shown" /\ now >= deadline[m]
    /\ account' = [account EXCEPT ![m] = to]
    /\ UNCHANGED <<deadline, schedule, now, listVars, entryVars, rankVars, rowVars, nowTs>>

(* A score moves, or a sync reads that matches were rescheduled: the table  *)
(* takes the new kickoffs, the chain keeps the old ones.                    *)
ListChanges(kickoffs) ==
    /\ live < MaxLive
    /\ schedule' = Append(schedule, kickoffs)
    /\ UNCHANGED <<account, deadline, now, listVars, entryVars, rankVars, rowVars, nowTs>>

-----------------------------------------------------------------------------
(* The page: the error screen comes before the list, and the list before   *)
(* the tabs.                                                               *)

Drawn == ~fixturesError /\ list # Nothing

(* nowTs >= fixture.kickoffTs, of the list on the page *)
Locked(m) == list # Nothing /\ nowTs >= schedule[list][m]

fixtureStatus(m) ==
    CASE markers[m] = "shown" -> "revealed"
      [] markers[m] # "shown" /\ Locked(m) -> "locked"
      [] markers[m] = "committed" /\ ~Locked(m) -> "committed"
      [] OTHER -> "open"

(* The rows leave the page with the tab or the list, and with them their    *)
(* busy flags; what they began goes on.                                     *)
RowsLeave == busy' = {}

-----------------------------------------------------------------------------
(* Loading the list, every 30 s. *)

ListAnswered ==
    /\ listAnswers' = listAnswers \cup {live}
    /\ UNCHANGED <<worldVars, list, fixturesError, entryVars, rankVars, rowVars, nowTs>>

(* Each list is a new array, so the entries effect cancels and starts over; *)
(* the mutant starts only for the first one.                                *)
ReadingAfterList_OnlyFirst ==
    IF list = Nothing THEN [m \in Match |-> "asked"] ELSE reading
ReadingAfterList == [m \in Match |-> "asked"]

ListArrives(version) ==
    /\ version \in listAnswers
    /\ listAnswers' = listAnswers \ {version}
    /\ list' = version
    /\ reading' = ReadingAfterList
    /\ Render
    /\ UNCHANGED <<worldVars, fixturesError, markers, rankVars, rowVars>>

ListFails ==
    /\ fixturesError' = TRUE
    /\ RowsLeave
    /\ Render
    /\ UNCHANGED <<worldVars, list, listAnswers, entryVars, rankVars, attempt>>

-----------------------------------------------------------------------------
(* Reading the entries, one account at a time. *)

ReadAnswered(m) ==
    /\ reading # Nothing
    /\ reading[m] = "asked"
    /\ reading' = [reading EXCEPT ![m] = account[m]]
    /\ UNCHANGED <<worldVars, listVars, markers, rankVars, rowVars, nowTs>>

(* .catch(() => null) *)
ReadFails(m) ==
    /\ reading # Nothing
    /\ reading[m] = "asked"
    /\ reading' = [reading EXCEPT ![m] = "failed"]
    /\ UNCHANGED <<worldVars, listVars, markers, rankVars, rowVars, nowTs>>

Null(answer) == answer \in {"none", "failed"}

(* "Merge: never clobber a just-committed local marker with a null fetch";  *)
(* the mutant takes every answer.                                           *)
Merge_Any(marker, answer) == IF Null(answer) THEN "none" ELSE answer
Merge(marker, answer) ==
    IF ~Null(answer) THEN answer ELSE IF marker = "unknown" THEN "none" ELSE marker

EntriesRead ==
    /\ reading # Nothing
    /\ \A m \in Match : reading[m] # "asked"
    /\ markers' = [m \in Match |-> Merge(markers[m], reading[m])]
    /\ reading' = Nothing
    /\ Render
    /\ UNCHANGED <<worldVars, listVars, rankVars, rowVars>>

AllRead == reading # Nothing /\ \A m \in Match : reading[m] # "failed"

-----------------------------------------------------------------------------
(* The tabs; the ranking is polled while its tab is open, and leaving it    *)
(* cancels what is on its way; the mutant does not.                         *)

Cancelled_Never == rankAnswers
Cancelled == {}

OpenTab(t) ==
    /\ Drawn
    /\ tab # t
    /\ tab' = t
    /\ RowsLeave
    /\ rankAnswers' = Cancelled
    /\ Render
    /\ UNCHANGED <<worldVars, listVars, entryVars, standings, rankingError, attempt>>

RankingAnswered ==
    /\ tab = "ranking"
    /\ rankAnswers' = rankAnswers \cup {live}
    /\ UNCHANGED <<worldVars, listVars, entryVars, tab, standings, rankingError, rowVars, nowTs>>

(* setRankingError(null); the mutant leaves the error. *)
RankingErrorAfter_Keeps == rankingError
RankingErrorAfter == FALSE

RankingArrives(version) ==
    /\ version \in rankAnswers
    /\ rankAnswers' = rankAnswers \ {version}
    /\ standings' = version
    /\ rankingError' = RankingErrorAfter
    /\ Render
    /\ UNCHANGED <<worldVars, listVars, entryVars, tab, rowVars>>

RankingFails ==
    /\ tab = "ranking"
    /\ rankingError' = TRUE
    /\ Render
    /\ UNCHANGED <<worldVars, listVars, entryVars, tab, standings, rankAnswers, rowVars>>

-----------------------------------------------------------------------------
(* Committing a pick. *)

Step(t, step) == attempt' = [attempt EXCEPT ![t] = [step |-> step, match |-> attempt[t].match]]
Finish(t) == attempt' = [attempt EXCEPT ![t] = NoAttempt]
Under(t) == attempt[t].step # "idle"

PressCommit(t, m) ==
    /\ Drawn /\ tab = "jogos"
    /\ fixtureStatus(m) = "open"
    /\ \A b \in busy : attempt[b].match # m
    /\ ~Under(t)
    /\ attempt' = [attempt EXCEPT ![t] = [step |-> "sending", match |-> m]]
    /\ busy' = busy \cup {t}
    /\ Render
    /\ UNCHANGED <<worldVars, listVars, entryVars, rankVars>>

(* commitPick returns: the transaction created the account, or it was       *)
(* executed and refused, which confirmTransaction does not tell.            *)
CommitReturns(t) ==
    LET m == attempt[t].match IN
    /\ attempt[t].step = "sending"
    /\ account' = IF account[m] = "none" /\ now < deadline[m]
                  THEN [account EXCEPT ![m] = "committed"] ELSE account
    /\ Step(t, "posting")
    /\ UNCHANGED <<deadline, schedule, now, listVars, entryVars, rankVars, busy, nowTs>>

(* commit throws: the row, if it is still there, can be tried again. *)
CommitThrows(t) ==
    /\ attempt[t].step = "sending"
    /\ Finish(t)
    /\ busy' = busy \ {t}
    /\ Render
    /\ UNCHANGED <<worldVars, listVars, entryVars, rankVars>>

(* postPick is answered or fails, and the marker is set in any case.        *)
Posted(t) ==
    /\ attempt[t].step = "posting"
    /\ markers' = [markers EXCEPT ![attempt[t].match] = "committed"]
    /\ Finish(t)
    /\ busy' = busy \ {t}
    /\ Render
    /\ UNCHANGED <<worldVars, listVars, reading, rankVars>>

CommitStep(t) == CommitReturns(t) \/ CommitThrows(t) \/ Posted(t)

ViewNext ==
    \/ Tick
    \/ \E m \in Match, to \in Entries : AccountMoves(m, to)
    \/ \E kickoffs \in [Match -> Kickoff] : ListChanges(kickoffs)
    \/ ListAnswered \/ ListFails \/ \E version \in Version : ListArrives(version)
    \/ \E m \in Match : ReadAnswered(m) \/ ReadFails(m)
    \/ EntriesRead
    \/ \E t \in {"jogos", "ranking"} : OpenTab(t)
    \/ RankingAnswered \/ RankingFails \/ \E version \in Version : RankingArrives(version)
    \/ \E t \in Try : CommitStep(t) \/ \E m \in Match : PressCommit(t, m)

ViewSpec == ViewInit /\ [][ViewNext]_viewVars

(***************************************************************************)
(* The intervals poll on.  The backend and the RPC node are not down for   *)
(* ever: a poll, or a read of the entries, that is tried again and again   *)
(* is answered before the next one at some point.                          *)
(***************************************************************************)
ViewFairness ==
    /\ WF_viewVars(ListAnswered)
    /\ \A version \in Version : SF_viewVars(ListArrives(version))
    /\ \A m \in Match : SF_viewVars(ReadAnswered(m))
    /\ SF_viewVars(EntriesRead /\ AllRead)
    /\ WF_viewVars(RankingAnswered)
    /\ \A version \in Version : WF_viewVars(RankingArrives(version))

FairViewSpec == ViewSpec /\ ViewFairness

-----------------------------------------------------------------------------

(* What is on the screen was the backend's or the chain's answer at some    *)
(* time; a row waits for a commit that is in progress.                      *)
ViewTypeOK ==
    /\ account \in [Match -> Entries]
    /\ deadline \in [Match -> Kickoff]
    /\ schedule \in Seq([Match -> Kickoff]) /\ live >= 1
    /\ now \in Nat /\ nowTs \in 0..now
    /\ list \in 1..live \cup {Nothing}
    /\ listAnswers \subseteq 1..live
    /\ markers \in [Match -> Entries \cup {"unknown"}]
    /\ reading \in [Match -> Entries \cup {"asked", "failed"}] \cup {Nothing}
    /\ tab \in {"jogos", "ranking"}
    /\ standings \in 1..live \cup {Nothing}
    /\ rankAnswers \subseteq 1..live
    /\ tab # "ranking" => rankAnswers = {}
    /\ busy \subseteq {t \in Try : Under(t)}
    /\ \A t, u \in busy : t # u => attempt[t].match # attempt[u].match

(***************************************************************************)
(* A row that told the user that the pick is saved or shown is never       *)
(* offered again, whatever reads fail or come late (PoolPage.tsx:120).  A  *)
(* row that was too late is, but only by a list that has just arrived with *)
(* a later kickoff than the one before it.                                 *)
(***************************************************************************)
Saved(marker) == marker \in {"committed", "shown"}
LaterKickoff(m) == list # Nothing /\ list' # Nothing /\ schedule[list][m] < schedule'[list'][m]

RowNeverReopens ==
    [][\A m \in Match : fixtureStatus(m) # "open" /\ fixtureStatus(m)' = "open" =>
           ~Saved(markers[m]) /\ LaterKickoff(m)]_viewVars

(***************************************************************************)
(* What the page polls it catches up with, after answers out of order,     *)
(* reads that fail and commits that end late: the newest scores in the list*)
(* and in an open ranking, without its error, and the reveal of the own    *)
(* picks.  One thing it never recovers from is a poll of the list that     *)
(* fails, so the first clause leaves it out.                               *)
(***************************************************************************)
PageCatchesUp ==
    /\ []<>(fixturesError \/ (Drawn /\ list = live))
    /\ []<>(tab = "ranking" => standings = live /\ ~rankingError)
    /\ \A m \in Match : []<>(account[m] = "shown" => markers[m] = "shown")
=============================================================================

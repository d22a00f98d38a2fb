---------------------------- MODULE Leaderboard ----------------------------
(***************************************************************************)
(* What a pool shows: its members (GET /pools/:pubkey/members), the        *)
(* standings (GET .../leaderboard, leaderboard.ts) and everybody's         *)
(* revealed picks (GET .../picks).  The first answers at once; the two     *)
(* boards read the roster, then wait for the chain's entries and for       *)
(* verifyWallet (in opposite orders), then read the results and answer,    *)
(* while wallets join, entries are revealed and results change.            *)
(***************************************************************************)
EXTENDS Roster, ResultsStore, Scoring, Sequences, FiniteSetsExt

CONSTANTS
    Pick,         \* the scorelines participants pick
    WalletOrder,  \* localeCompare: the place of each wallet
    Request,      \* GETs that may be in progress at once
    Awaited       \* what a handler is still waiting for

ASSUME BoardConstants ==
    /\ IsFiniteSet(Wallet)
    /\ Scoreline \subseteq Nat \X Nat
    /\ Pick \subseteq Nat \X Nat
    /\ WalletOrder \in [Wallet -> Nat]
    /\ \A v, w \in Wallet : WalletOrder[v] = WalletOrder[w] => v = w

VARIABLES
    shown,   \* the revealed Entry accounts
    request  \* request[r]: a GET in progress, or its answer

vars == <<rosterVars, results, table, shown, request>>

RevealedEntry == [pool : PoolId, wallet : Wallet, fixture : FixtureId, pick : Pick]
Kind == {"leaderboard", "picks"}  \* the two boards
NoRequest == [step |-> "idle"]

-----------------------------------------------------------------------------
(* computeStandings. *)

(* What counts for a wallet: its entries about fixtures with a result. *)
Counted(w, entries) == {e \in entries : e.wallet = w /\ results[e.fixture] # NoResult}

PointsOf(e) == ScorePick(e.pick, results[e.fixture].score)

Hits(points, w, entries) == Cardinality({e \in Counted(w, entries) : PointsOf(e) = points})

Earned(entries) == MapThenSumSet(PointsOf, entries)

Row(w, entries) ==
    [wallet |-> w,
     points |-> Earned(Counted(w, entries)),
     exact  |-> Hits(5, w, entries),
     diff   |-> Hits(3, w, entries),
     result |-> Hits(1, w, entries),
     scored |-> Cardinality(Counted(w, entries))]

(* By points, then by wallet. *)
Above(a, b) ==
    \/ a.points > b.points
    \/ a.points = b.points /\ WalletOrder[a.wallet] < WalletOrder[b.wallet]

(* Array.prototype.sort: no two rows tie, so there is one order. *)
Sorted(rows) ==
    CHOOSE s \in [1..Cardinality(rows) -> rows] :
        \A i, j \in DOMAIN s : i < j => Above(s[i], s[j])

(* Ties share the first one's place; the mutant numbers the rows through. *)
Places_Positions(sorted) == [i \in DOMAIN sorted |-> i]
Places(sorted) ==
    LET place[i \in 0..Len(sorted)] ==
            IF i = 0 THEN 0
            ELSE IF i = 1 \/ sorted[i].points # sorted[i - 1].points THEN i
            ELSE place[i - 1]
    IN [i \in DOMAIN sorted |-> place[i]]

Standings(wallets, entries) ==
    LET sorted == Sorted({Row(w, entries) : w \in wallets}) IN
    [i \in DOMAIN sorted |-> [rank |-> Places(sorted)[i], row |-> sorted[i]]]

(* The picks of members, with their points where there is a result. *)
Listed(wallets, entries) == {e \in entries : e.wallet \in wallets}

PicksBoard(wallets, entries) ==
    {[entry |-> e,
      points |-> IF results[e.fixture] = NoResult THEN NoResult ELSE PointsOf(e)] :
        e \in Listed(wallets, entries)}

HasProvisional == \E f \in FixtureId : results[f] # NoResult /\ ~results[f].final

-----------------------------------------------------------------------------
(* The three handlers. *)

(* WHERE status = 'member'; the mutant reads the whole members table. *)
RosterOf_WithPending(p) == {w \in Wallet : HasRow(p, w)}
RosterOf(p) == {w \in Wallet : Member(p, w)}

(* GET .../members asks nobody who they are and waits for nothing: every    *)
(* member's e-mail hint is in the answer.                                   *)
ListMembers(r, p) ==
    /\ request[r].step \in {"idle", "answered"}
    /\ Registered(p)
    /\ request' = [request EXCEPT ![r] =
           [step |-> "answered", kind |-> "members", pool |-> p, emails |-> TRUE,
            board |-> RosterOf(p)]]
    /\ UNCHANGED <<rosterVars, results, table, shown>>

(* Up to the first await: the roster is read here.  proof says whether the  *)
(* caller's token proves the wallet it names.                               *)
Ask(r, kind, p, caller, proof) ==
    /\ request[r].step \in {"idle", "answered"}
    /\ Registered(p)
    /\ request' = [request EXCEPT ![r] =
           [step |-> "waiting", kind |-> kind, pool |-> p, caller |-> caller, proof |-> proof,
            roster |-> RosterOf(p), entries |-> Awaited, authed |-> Awaited]]
    /\ UNCHANGED <<rosterVars, results, table, shown>>

(* Emails are for proven members and the organizer; the mutant takes the    *)
(* caller's word.                                                           *)
IncludesEmails_Unproven(q) == q.caller \in q.roster \/ q.caller = pools[q.pool].organizer
IncludesEmails(q) ==
    /\ q.authed
    /\ q.caller \in q.roster \/ q.caller = pools[q.pool].organizer

Answer(q) ==
    [step |-> "answered", kind |-> q.kind, pool |-> q.pool, caller |-> q.caller,
     proof |-> q.proof, emails |-> IncludesEmails(q), provisional |-> HasProvisional,
     board |-> IF q.kind = "leaderboard" THEN Standings(q.roster, q.entries)
               ELSE PicksBoard(q.roster, q.entries)]

Resume(r, q) ==
    /\ request' = [request EXCEPT ![r] =
           IF Awaited \in {q.entries, q.authed} THEN q ELSE Answer(q)]
    /\ UNCHANGED <<rosterVars, results, table, shown>>

(* getProgramAccounts, filtered by pool and by revealed. *)
EntriesArrive(r) ==
    LET q == request[r] IN
    /\ q.step = "waiting" /\ q.entries = Awaited
    /\ q.kind = "picks" => q.authed # Awaited
    /\ Resume(r, [q EXCEPT !.entries = {e \in shown : e.pool = q.pool}])

(* verifyWallet accepts a token that proves the wallet, or fails. *)
Verified(r, ok) ==
    LET q == request[r] IN
    /\ q.step = "waiting" /\ q.authed = Awaited
    /\ q.kind = "leaderboard" => q.entries # Awaited
    /\ ok => q.proof
    /\ Resume(r, [q EXCEPT !.authed = ok])

-----------------------------------------------------------------------------

(* A reveal lands: of members or not, the chain has no roster. *)
Reveal(e) ==
    /\ \A d \in shown : <<d.pool, d.wallet, d.fixture>> # <<e.pool, e.wallet, e.fixture>>
    /\ shown' = shown \cup {e}
    /\ UNCHANGED <<rosterVars, results, table, request>>

ResultArrives(f, e) ==
    /\ Apply(f, e)
    /\ UNCHANGED <<rosterVars, shown, request>>

Init ==
    /\ RosterInit
    /\ StoreInit
    /\ shown = {}
    /\ request = [r \in Request |-> NoRequest]

Next ==
    \/ RosterNext /\ UNCHANGED <<results, table, shown, request>>
    \/ \E e \in RevealedEntry : Reveal(e)
    \/ \E f \in FixtureId, e \in Event : ResultArrives(f, e)
    \/ \E r \in Request :
          \/ \E p \in PoolId : ListMembers(r, p)
          \/ \E kind \in Kind, p \in PoolId, caller \in Wallet, proof \in BOOLEAN :
                Ask(r, kind, p, caller, proof)
          \/ EntriesArrive(r)
          \/ \E ok \in BOOLEAN : Verified(r, ok)

Spec == Init /\ [][Next]_vars

-----------------------------------------------------------------------------

Answered(r, kind) == request[r].step = "answered" /\ request[r].kind = kind

(***************************************************************************)
(* A rank is one more than the number of rows with more points, and the    *)
(* points are what the hits add up to: ties share a place and the next     *)
(* place is left out (1, 1, 3), in an answer that lists each wallet once.  *)
(***************************************************************************)
RanksCountTheBetter ==
    \A r \in Request : Answered(r, "leaderboard") =>
        LET board == request[r].board IN
        \A i \in DOMAIN board :
            LET row == board[i].row IN
            /\ board[i].rank = 1 + Cardinality({j \in DOMAIN board : board[j].row.points > row.points})
            /\ row.points = 5 * row.exact + 3 * row.diff + row.result
            /\ \A j \in DOMAIN board : board[j].row.wallet = row.wallet => i = j

(***************************************************************************)
(* The list and both boards are about members, also at the time they are   *)
(* answered: a roster read before two awaits still holds when it is used.  *)
(* Requests that wait for approval and strangers' entries are left out.    *)
(***************************************************************************)
BoardsListMembers ==
    \A r \in Request :
        /\ Answered(r, "members") =>
              \A w \in request[r].board : Member(request[r].pool, w)
        /\ Answered(r, "leaderboard") =>
              \A i \in DOMAIN request[r].board : Member(request[r].pool, request[r].board[i].row.wallet)
        /\ Answered(r, "picks") =>
              \A line \in request[r].board : Member(request[r].pool, line.entry.wallet)

(***************************************************************************)
(* A board with e-mails goes to a wallet of the pool that proved who it    *)
(* is, the rule of the comment at server.ts:283-284, whatever joins and    *)
(* answers came between the two awaits.  It is about the two boards, not   *)
(* about the e-mails: GET .../members gives the same ones to any caller.   *)
(***************************************************************************)
BoardEmailsAreForThePool ==
    \A r \in Request, kind \in Kind : Answered(r, kind) /\ request[r].emails =>
        /\ request[r].proof
        /\ \/ Member(request[r].pool, request[r].caller)
           \/ request[r].caller = pools[request[r].pool].organizer
=============================================================================

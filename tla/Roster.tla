------------------------------- MODULE Roster -------------------------------
(***************************************************************************)
(* Pools and their members as the backend keeps them (server.ts,           *)
(* joinCodes.ts): a pool is registered with a join code, wallets join,     *)
(* directly or as requests, and the organizer approves or rejects the      *)
(* requests.  A handler runs without interruption between two awaits;      *)
(* everything it read before verifyWallet may be old after it.             *)
(***************************************************************************)
EXTENDS Naturals, FiniteSets

CONSTANTS
    Wallet,
    PoolId,    \* the on-chain addresses pools are registered under
    Code,      \* join codes
    Email,     \* verified e-mail addresses
    NoEmail,   \* the e-mail of a wallet Privy knows none for
    NoRow,     \* no row in the table
    Response   \* organizer requests that may be in progress at once

ASSUME RosterConstants ==
    /\ NoEmail \notin Email
    /\ NoRow \notin [code : Code, organizer : Wallet, gated : BOOLEAN]
    /\ NoRow \notin [status : {"pending", "member"}, email : Email \cup {NoEmail}]

VARIABLES
    pools,      \* the pools table
    members,    \* the members table: members[p][w]
    response,   \* response[r]: a POST /pools/:pubkey/requests/:wallet in progress
    approved    \* history: the requests the organizer said yes to

rosterVars == <<pools, members, response, approved>>

PoolRow == [code : Code, organizer : Wallet, gated : BOOLEAN]
MemberRow == [status : {"pending", "member"}, email : Email \cup {NoEmail}]
NoResponse == [active |-> FALSE]

Registered(p) == pools[p] # NoRow
HasRow(p, w) == members[p][w] # NoRow
Member(p, w) == HasRow(p, w) /\ members[p][w].status = "member"

(* SELECT ... WHERE status = 'pending'; the mutant takes any row. *)
Pending_AnyRow(p, w) == HasRow(p, w)
Pending(p, w) == HasRow(p, w) /\ members[p][w].status = "pending"

RosterInit ==
    /\ pools = [p \in PoolId |-> NoRow]
    /\ members = [p \in PoolId |-> [w \in Wallet |-> NoRow]]
    /\ response = [r \in Response |-> NoResponse]
    /\ approved = {}

-----------------------------------------------------------------------------

(* A code the UNIQUE constraint accepts; the mutant has no constraint. *)
Free_Any(c) == c \in Code
Free(c) == \A p \in PoolId : Registered(p) => pools[p].code # c

(* POST /pools: colliding codes are drawn again, a known pool is an error. *)
RegisterPool(p, organizer, gated) ==
    /\ ~Registered(p)
    /\ \E c \in Code :
          /\ Free(c)
          /\ pools' = [pools EXCEPT ![p] =
                 [code |-> c, organizer |-> organizer, gated |-> gated]]
    /\ UNCHANGED <<members, response, approved>>

(* INSERT ... ON CONFLICT: the first e-mail stays, and so does the status.  *)
(* The mutant takes the e-mail of the last request.                         *)
Rejoined_TakesEmail(p, w, row) == [members[p][w] EXCEPT !.email = row.email]
Rejoined(p, w, row) ==
    [members[p][w] EXCEPT !.email = IF @ = NoEmail THEN row.email ELSE @]

(* The status a new row gets; the mutant forgets that the pool is gated. *)
JoinStatus_Open(p) == "member"
JoinStatus(p) == IF pools[p].gated THEN "pending" ELSE "member"

(* POST /pools/:pubkey/join, after verifyWallet. *)
Join(p, w, email) ==
    LET row == [status |-> JoinStatus(p), email |-> email] IN
    /\ Registered(p)
    /\ members' = [members EXCEPT ![p][w] = IF HasRow(p, w) THEN Rejoined(p, w, row) ELSE row]
    /\ UNCHANGED <<pools, response, approved>>

(* POST /pools/:pubkey/requests/:wallet up to verifyWallet. *)
StartResponse(r, p, caller, w, yes) ==
    /\ ~response[r].active
    /\ Registered(p)
    /\ caller = pools[p].organizer
    /\ response' = [response EXCEPT ![r] = [active |-> TRUE, pool |-> p, wallet |-> w, yes |-> yes]]
    /\ UNCHANGED <<pools, members, approved>>

(* verifyWallet refuses, or the request is no longer pending (404). *)
RefuseResponse(r) ==
    /\ response[r].active
    /\ response' = [response EXCEPT ![r] = NoResponse]
    /\ UNCHANGED <<pools, members, approved>>

FinishResponse(r) ==
    LET q == response[r] IN
    /\ q.active
    /\ Pending(q.pool, q.wallet)
    /\ response' = [response EXCEPT ![r] = NoResponse]
    /\ IF q.yes
       THEN /\ members' = [members EXCEPT ![q.pool][q.wallet].status = "member"]
            /\ approved' = approved \cup {<<q.pool, q.wallet>>}
       ELSE /\ members' = [members EXCEPT ![q.pool][q.wallet] = NoRow]
            /\ UNCHANGED approved
    /\ UNCHANGED pools

RosterNext ==
    \/ \E p \in PoolId, w \in Wallet :
          \/ \E gated \in BOOLEAN : RegisterPool(p, w, gated)
          \/ \E email \in Email \cup {NoEmail} : Join(p, w, email)
    \/ \E r \in Response :
          \/ \E p \in PoolId, caller, w \in Wallet, yes \in BOOLEAN :
                StartResponse(r, p, caller, w, yes)
          \/ RefuseResponse(r)
          \/ FinishResponse(r)

RosterSpec == RosterInit /\ [][RosterNext]_rosterVars

-----------------------------------------------------------------------------

(* The tables hold what their schema says, a code resolves to one pool, and *)
(* only registered pools have members.                                      *)
RosterTypeOK ==
    /\ pools \in [PoolId -> PoolRow \cup {NoRow}]
    /\ \A p, q \in PoolId :
          Registered(p) /\ Registered(q) /\ pools[p].code = pools[q].code => p = q
    /\ members \in [PoolId -> [Wallet -> MemberRow \cup {NoRow}]]
    /\ \A p \in PoolId, w \in Wallet : HasRow(p, w) => Registered(p)
    /\ response \in [Response -> {NoResponse}
           \cup [active : {TRUE}, pool : PoolId, wallet : Wallet, yes : BOOLEAN]]
    /\ approved \subseteq PoolId \X Wallet

(***************************************************************************)
(* Nobody is a member of a gated pool without the organizer's yes, whatever*)
(* joins and answers race: joining again, before or after a rejection, is  *)
(* no way in.                                                              *)
(***************************************************************************)
GatedNeedsApproval ==
    \A p \in PoolId, w \in Wallet :
        Member(p, w) /\ pools[p].gated => <<p, w>> \in approved

(* What a step does to the row of a wallet: a member stays one, and an *)
(* e-mail that is known stays for as long as there is a row.           *)
RowKept(p, w) ==
    /\ Member(p, w) => Member(p, w)'
    /\ HasRow(p, w) /\ HasRow(p, w)' /\ members[p][w].email # NoEmail
       => members'[p][w].email = members[p][w].email

(***************************************************************************)
(* A member stays one: a rejection sent while the request was pending and  *)
(* executed after an approval does not throw the member out, and joining   *)
(* again does not put the member back in the queue.  The e-mail the        *)
(* organizer decides on, and the pool shows, is the first verified one.    *)
(***************************************************************************)
RowsStay == [][\A p \in PoolId, w \in Wallet : RowKept(p, w)]_rosterVars

-----------------------------------------------------------------------------
(* The promise to the people: a row is a request or a membership. *)

RuleOf(p) ==
    IF ~Registered(p) THEN "none" ELSE IF pools[p].gated THEN "gated" ELSE "open"
StandingOf(p, w) ==
    IF Member(p, w) THEN "inside" ELSE IF HasRow(p, w) THEN "waiting" ELSE "outside"

Gates == INSTANCE GatedPools WITH
    Pool <- PoolId,
    Person <- Wallet,
    rule <- [p \in PoolId |-> RuleOf(p)],
    standing <- [p \in PoolId |-> [w \in Wallet |-> StandingOf(p, w)]]

(***************************************************************************)
(* The handlers, with all they do before and after their awaits, implement *)
(* GatedPools: a late rejection never reaches a member, a repeated join    *)
(* moves nobody, and the only way into a gated pool leads through waiting. *)
(***************************************************************************)
RefinesGatedPools == Gates!Spec
=============================================================================

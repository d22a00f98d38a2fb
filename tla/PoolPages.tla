----------------------------- MODULE PoolPages -----------------------------
(***************************************************************************)
(* The pages around a pool: CreatePoolPage creates the account on-chain    *)
(* and then registers it with the backend, JoinPage follows an invite      *)
(* link, and PoolPage shows the link and, to the organizer, the desk of    *)
(* join requests.  A page knows what it was last answered; the roster      *)
(* moves on meanwhile.  A page belongs to one wallet for its life.         *)
(***************************************************************************)
EXTENDS Roster

CONSTANTS
    Organizer,  \* the wallets that create pools
    Guest,      \* the wallets that follow invite links
    Desk,       \* the pages among Response whose screen is followed
    NoCode,     \* no join code on the screen
    NoList      \* no list of requests on its way

ASSUME PageConstants ==
    /\ Organizer \subseteq Wallet
    /\ Guest \subseteq Wallet
    /\ Desk \subseteq Response
    /\ NoCode \notin Code
    /\ \A list \in SUBSET Wallet : list # NoList

VARIABLES
    account,  \* account[p]: what became of the create_pool transaction for p
    create,   \* create[w]: the CreatePoolPage of w
    join,     \* join[w]: the JoinPage of w
    desk      \* desk[r]: an open PoolPage; response[r] is its request to answer

pageVars == <<account, create, join, desk>>
vars == <<rosterVars, account, create, join, desk>>

CreateForm == [step |-> "form"]
Asked == [step : {"confirming", "posting"}, pool : PoolId, gated : BOOLEAN]
Created == [step : {"created"}, pool : PoolId, gated : BOOLEAN, code : Code]

NoVisit == [step |-> "away"]
Visit == [step : {"invited", "failed", "in", "waiting"}, pool : PoolId]

NoDesk == [open |-> FALSE]
OpenDesk ==
    [open : {TRUE}, wallet : Wallet, pool : PoolId, code : Code \cup {NoCode},
     manages : BOOLEAN, requests : SUBSET Wallet, late : (SUBSET Wallet) \cup {NoList},
     busy : BOOLEAN]

FreshDesk(w, p) ==
    [open |-> TRUE, wallet |-> w, pool |-> p, code |-> NoCode, manages |-> FALSE,
     requests |-> {}, late |-> NoList, busy |-> FALSE]

Init ==
    /\ RosterInit
    /\ account = [p \in PoolId |-> "none"]
    /\ create = [w \in Organizer |-> CreateForm]
    /\ join = [w \in Guest |-> NoVisit]
    /\ desk = [r \in Desk |-> NoDesk]

-----------------------------------------------------------------------------
(* CreatePoolPage.create: every press draws another pool id (Date.now()).  *)

PressCreate(w, p, gated) ==
    /\ create[w].step \in {"form", "created"}
    /\ account[p] = "none"
    /\ account' = [account EXCEPT ![p] = "sent"]
    /\ create' = [create EXCEPT ![w] = [step |-> "confirming", pool |-> p, gated |-> gated]]
    /\ UNCHANGED <<rosterVars, join, desk>>

(* The transaction executes or expires.  Whether it created the account or *)
(* failed is nothing the page looks at: confirmTransaction resolves.       *)
CreateSettles(p) ==
    /\ account[p] = "sent"
    /\ \E end \in {"executed", "expired"} : account' = [account EXCEPT ![p] = end]
    /\ UNCHANGED <<rosterVars, create, join, desk>>

CreateConfirmed(w) ==
    /\ create[w].step = "confirming"
    /\ account[create[w].pool] = "executed"
    /\ create' = [create EXCEPT ![w].step = "posting"]
    /\ UNCHANGED <<rosterVars, account, join, desk>>

(* Back to the form with an error, from either await. *)
CreateThrows(w) ==
    /\ create[w].step \in {"confirming", "posting"}
    /\ create' = [create EXCEPT ![w] = CreateForm]
    /\ UNCHANGED <<rosterVars, account, join, desk>>

(* POST /pools is handled; the page sees the join code, or nothing. *)
PostPool(w) ==
    LET page == create[w] IN
    /\ page.step = "posting"
    /\ RegisterPool(page.pool, w, page.gated)
    /\ \/ create' = [create EXCEPT ![w] =
              [step |-> "created", pool |-> page.pool, gated |-> page.gated,
               code |-> pools'[page.pool].code]]
       \/ create' = [create EXCEPT ![w] = CreateForm]
    /\ UNCHANGED <<account, join, desk>>

-----------------------------------------------------------------------------
(* JoinPage. *)

(* GET /j/:code: the pools a code leads to. *)
PoolsOf(c) == {p \in PoolId : Registered(p) /\ pools[p].code = c}

OpenLink(w, c) ==
    /\ \E p \in PoolsOf(c) : join' = [join EXCEPT ![w] = [step |-> "invited", pool |-> p]]
    /\ UNCHANGED <<rosterVars, account, create, desk>>

(* The screen for an answer; one mutant enters whatever the answer says, *)
(* the other takes the status for the screen.                            *)
ScreenFor_AlwaysIn(status) == "in"
ScreenFor_Raw(status) == status
ScreenFor(status) == IF status = "pending" THEN "waiting" ELSE "in"

(* POST /pools/:pubkey/join is handled and answers with the row's status.  *)
PostJoin(w, email) ==
    LET p == join[w].pool IN
    /\ join[w].step \in {"invited", "failed"}
    /\ Join(p, w, email)
    /\ \/ join' = [join EXCEPT ![w].step = ScreenFor(members'[p][w].status)]
       \/ join' = [join EXCEPT ![w].step = "failed"]
    /\ UNCHANGED <<account, create, desk>>

(* Refused or never handled. *)
JoinFails(w) ==
    /\ join[w].step = "invited"
    /\ join' = [join EXCEPT ![w].step = "failed"]
    /\ UNCHANGED <<rosterVars, account, create, desk>>

-----------------------------------------------------------------------------
(* PoolPage: the invite link and the desk. *)

OpenPool(r, w, p) ==
    /\ Registered(p)
    /\ desk' = [desk EXCEPT ![r] = FreshDesk(w, p)]
    /\ UNCHANGED <<rosterVars, account, create, join>>

(* Who is given the join code, if the token proves the wallet. *)
Insider_AnyRow(p, w) == w = pools[p].organizer \/ HasRow(p, w)
Insider(p, w) == w = pools[p].organizer \/ Member(p, w)

(* GET /pools/:pubkey, answered or failed. *)
PoolInfo(r) ==
    LET page == desk[r] IN
    /\ page.open
    /\ \/ \E proven \in BOOLEAN :
             desk' = [desk EXCEPT
                 ![r].code = IF proven /\ Insider(page.pool, page.wallet)
                             THEN pools[page.pool].code ELSE NoCode,
                 ![r].manages = (page.wallet = pools[page.pool].organizer)]
       \/ desk' = [desk EXCEPT ![r].code = NoCode, ![r].manages = FALSE]
    /\ UNCHANGED <<rosterVars, account, create, join>>

Waiting(p) == {w \in Wallet : Pending(p, w)}

(* GET /pools/:pubkey/requests: the list is shown at once, or comes late. *)
LoadRequests(r) ==
    LET list == Waiting(desk[r].pool) IN
    /\ desk[r].open /\ desk[r].manages
    /\ \/ desk' = [desk EXCEPT ![r].requests = list]
       \/ /\ desk[r].late = NoList
          /\ desk' = [desk EXCEPT ![r].late = list]
    /\ UNCHANGED <<rosterVars, account, create, join>>

(* A list that comes late replaces a newer one: loads are not ordered. *)
LateList(r) ==
    /\ desk[r].open
    /\ desk[r].late # NoList
    /\ desk' = [desk EXCEPT ![r].requests = desk[r].late, ![r].late = NoList]
    /\ UNCHANGED <<rosterVars, account, create, join>>

(* One answer at a time (requestBusy), for a request on the screen. *)
Respond(r, w, yes) ==
    /\ desk[r].open /\ desk[r].manages
    /\ ~desk[r].busy
    /\ w \in desk[r].requests
    /\ StartResponse(r, desk[r].pool, desk[r].wallet, w, yes)
    /\ desk' = [desk EXCEPT ![r].busy = TRUE]
    /\ UNCHANGED <<account, create, join>>

(* An answer from a tab whose list may be as old as it likes. *)
RespondElsewhere(r, p, w, yes) ==
    /\ r \notin Desk
    /\ StartResponse(r, p, pools[p].organizer, w, yes)
    /\ UNCHANGED pageVars

(* The handler is done; the page may have been closed meanwhile. *)
ResponseHandled(r) == FinishResponse(r) /\ UNCHANGED pageVars

(* It refuses: the page shows the error and frees the desk. *)
ResponseRefused(r) ==
    /\ RefuseResponse(r)
    /\ desk' = [d \in Desk |->
           IF d = r /\ desk[d].open THEN [desk[d] EXCEPT !.busy = FALSE] ELSE desk[d]]
    /\ UNCHANGED <<account, create, join>>

(* The answer arrives and the list is loaded again; or answer or list is lost. *)
ResponseSeen(r) ==
    /\ desk[r].open /\ desk[r].busy
    /\ \/ /\ ~response[r].active
          /\ desk' = [desk EXCEPT ![r].busy = FALSE, ![r].requests = Waiting(desk[r].pool)]
       \/ desk' = [desk EXCEPT ![r].busy = FALSE]
    /\ UNCHANGED <<rosterVars, account, create, join>>

-----------------------------------------------------------------------------

Next ==
    \/ \E w \in Organizer :
          \/ \E p \in PoolId, gated \in BOOLEAN : PressCreate(w, p, gated)
          \/ CreateConfirmed(w)
          \/ CreateThrows(w)
          \/ PostPool(w)
    \/ \E w \in Guest :
          \/ \E c \in Code : OpenLink(w, c)
          \/ \E email \in Email \cup {NoEmail} : PostJoin(w, email)
          \/ JoinFails(w)
    \/ \E p \in PoolId : CreateSettles(p)
    \/ \E r \in Response :
          \/ \E p \in PoolId, w \in Wallet, yes \in BOOLEAN : RespondElsewhere(r, p, w, yes)
          \/ ResponseHandled(r)
          \/ ResponseRefused(r)
    \/ \E r \in Desk :
          \/ \E w \in Wallet, p \in PoolId : OpenPool(r, w, p)
          \/ PoolInfo(r)
          \/ LoadRequests(r)
          \/ LateList(r)
          \/ \E w \in Wallet, yes \in BOOLEAN : Respond(r, w, yes)
          \/ ResponseSeen(r)

Spec == Init /\ [][Next]_vars

-----------------------------------------------------------------------------

(* Each page holds what its screen can show, and is about a registered pool. *)
PagesTypeOK ==
    /\ account \in [PoolId -> {"none", "sent", "executed", "expired"}]
    /\ create \in [Organizer -> {CreateForm} \cup Asked \cup Created]
    /\ join \in [Guest -> {NoVisit} \cup Visit]
    /\ desk \in [Desk -> {NoDesk} \cup OpenDesk]
    /\ \A w \in Guest : join[w] # NoVisit => Registered(join[w].pool)
    /\ \A r \in Desk : desk[r].open => Registered(desk[r].pool)

(***************************************************************************)
(* A link on a screen leads, through GET /j/:code, to the pool of that     *)
(* screen and no other, and the pool just created is the one that was      *)
(* asked for: its organizer's, gated or not as chosen, also when an        *)
(* earlier press failed half way and other pools were made meanwhile.      *)
(***************************************************************************)
LinksLeadToTheirPool ==
    /\ \A w \in Organizer : create[w].step = "created" =>
          LET page == create[w] IN
          /\ PoolsOf(page.code) = {page.pool}
          /\ pools[page.pool].organizer = w
          /\ pools[page.pool].gated = page.gated
    /\ \A r \in Desk : desk[r].open /\ desk[r].code # NoCode =>
          PoolsOf(desk[r].code) = {desk[r].pool}

(***************************************************************************)
(* The invite link stays inside (server.ts:88): a page that shows it       *)
(* belongs to the organizer or to a member, at the time of the answer and  *)
(* as long as the page shows it.                                           *)
(***************************************************************************)
InviteStaysInside ==
    \A r \in Desk : desk[r].open /\ desk[r].code # NoCode =>
        Insider(desk[r].pool, desk[r].wallet)

(***************************************************************************)
(* What a guest's screen says stays true: who was let in is a member, and  *)
(* nobody is told to wait for the organizer of an open pool; repeated      *)
(* joins, lost answers and the organizer's answers included.               *)
(***************************************************************************)
JoinScreensHold ==
    \A w \in Guest :
        /\ join[w].step = "in" => Member(join[w].pool, w)
        /\ join[w].step = "waiting" => pools[join[w].pool].gated
=============================================================================

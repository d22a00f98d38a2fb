-------------------------- MODULE PoolPagesProofs --------------------------
(***************************************************************************)
(* The pages use the roster as Roster allows, so what holds of it holds    *)
(* under them; and what their screens say stays true, for any number of    *)
(* pools, codes, wallets, pages and answers in progress.                   *)
(***************************************************************************)
EXTENDS PoolPages, RosterProofs

(* What the screens of one page of each kind rely on. *)
CreateHolds(w) ==
    create[w].step = "created" =>
        /\ Registered(create[w].pool)
        /\ pools[create[w].pool].code = create[w].code
        /\ pools[create[w].pool].organizer = w
        /\ pools[create[w].pool].gated = create[w].gated

JoinHolds(w) ==
    /\ join[w].step = "in" => Member(join[w].pool, w)
    /\ join[w].step = "waiting" => pools[join[w].pool].gated

DeskHolds(r) ==
    desk[r].open /\ desk[r].code # NoCode =>
        /\ pools[desk[r].pool].code = desk[r].code
        /\ Insider(desk[r].pool, desk[r].wallet)

(* A guest who waits does so for a pool that is gated, which needs that an   *)
(* open pool has no row but members'.                                        *)
OpenPoolsDoNotAsk ==
    \A p \in PoolId, w \in Wallet : Pending(p, w) => pools[p].gated

PageInv ==
    /\ RosterInv
    /\ PagesTypeOK
    /\ OpenPoolsDoNotAsk
    /\ \A w \in Organizer : CreateHolds(w)
    /\ \A w \in Guest : JoinHolds(w)
    /\ \A r \in Desk : DeskHolds(r)

-----------------------------------------------------------------------------
(* What a page in a given state is about. *)

LEMMA CreateType ==
    ASSUME PagesTypeOK, NEW w \in Organizer
    PROVE  /\ create[w].step \in {"confirming", "posting"} => create[w] \in Asked
           /\ create[w].step = "created" => create[w] \in Created
           /\ w \in Wallet
BY PageConstants DEF PagesTypeOK, CreateForm, Asked, Created

LEMMA JoinType ==
    ASSUME PagesTypeOK, NEW w \in Guest, join[w].step # "away"
    PROVE  join[w] \in Visit /\ Registered(join[w].pool) /\ w \in Wallet
BY PageConstants DEF PagesTypeOK, NoVisit, Visit

LEMMA DeskType ==
    ASSUME PagesTypeOK, NEW r \in Desk, desk[r].open
    PROVE  desk[r] \in OpenDesk /\ Registered(desk[r].pool) /\ r \in Response
<1>1. desk[r] \in {NoDesk} \cup OpenDesk
  BY DEF PagesTypeOK
<1>2. desk[r] # NoDesk
  BY DEF NoDesk
<1> QED
  BY <1>1, <1>2, PageConstants DEF PagesTypeOK

-----------------------------------------------------------------------------
(* Every step of the pages is a step of the roster, or none. *)

LEMMA RosterStepOfNext ==
    ASSUME RosterInv, PagesTypeOK, [Next]_vars
    PROVE  [RosterNext]_rosterVars
<1>1. CASE UNCHANGED vars
  BY <1>1 DEF vars
<1>2. ASSUME NEW w \in Organizer, NEW p \in PoolId, NEW gated \in BOOLEAN, PressCreate(w, p, gated)
      PROVE  [RosterNext]_rosterVars
  BY <1>2 DEF PressCreate
<1>3. ASSUME NEW w \in Organizer, CreateConfirmed(w) \/ CreateThrows(w)
      PROVE  [RosterNext]_rosterVars
  BY <1>3 DEF CreateConfirmed, CreateThrows
<1>4. ASSUME NEW w \in Organizer, PostPool(w)
      PROVE  [RosterNext]_rosterVars
  <2>1. create[w] \in Asked /\ w \in Wallet
    BY <1>4, CreateType DEF PostPool
  <2>2. RegisterPool(create[w].pool, w, create[w].gated)
    BY <1>4 DEF PostPool
  <2> QED
    BY <2>1, <2>2 DEF RosterNext, Asked
<1>5. ASSUME NEW w \in Guest, NEW c \in Code, OpenLink(w, c)
      PROVE  [RosterNext]_rosterVars
  BY <1>5 DEF OpenLink
<1>6. ASSUME NEW w \in Guest, NEW email \in Email \cup {NoEmail}, PostJoin(w, email)
      PROVE  [RosterNext]_rosterVars
  <2>1. join[w] \in Visit /\ w \in Wallet
    BY <1>6, JoinType DEF PostJoin
  <2>2. Join(join[w].pool, w, email)
    BY <1>6 DEF PostJoin
  <2> QED
    BY <2>1, <2>2 DEF RosterNext, Visit
<1>7. ASSUME NEW w \in Guest, JoinFails(w)
      PROVE  [RosterNext]_rosterVars
  BY <1>7 DEF JoinFails
<1>8. ASSUME NEW p \in PoolId, CreateSettles(p)
      PROVE  [RosterNext]_rosterVars
  BY <1>8 DEF CreateSettles
<1>9. ASSUME NEW r \in Response, NEW p \in PoolId, NEW w \in Wallet, NEW yes \in BOOLEAN,
             RespondElsewhere(r, p, w, yes)
      PROVE  [RosterNext]_rosterVars
  <2>1. StartResponse(r, p, pools[p].organizer, w, yes) /\ Registered(p)
    BY <1>9 DEF RespondElsewhere, StartResponse
  <2>2. pools[p].organizer \in Wallet
    BY <2>1 DEF RosterInv, RosterTypeOK, Registered, PoolRow
  <2> QED
    BY <2>1, <2>2 DEF RosterNext
<1>10. ASSUME NEW r \in Response, ResponseHandled(r) \/ ResponseRefused(r)
       PROVE  [RosterNext]_rosterVars
  BY <1>10 DEF ResponseHandled, ResponseRefused, RosterNext
<1>11. ASSUME NEW r \in Desk, NEW w \in Wallet, NEW yes \in BOOLEAN, Respond(r, w, yes)
       PROVE  [RosterNext]_rosterVars
  <2>1. desk[r] \in OpenDesk /\ r \in Response
    BY <1>11, DeskType DEF Respond
  <2>2. StartResponse(r, desk[r].pool, desk[r].wallet, w, yes)
    BY <1>11 DEF Respond
  <2> QED
    BY <2>1, <2>2 DEF RosterNext, OpenDesk
<1>12. ASSUME NEW r \in Desk, NEW w \in Wallet, NEW p \in PoolId, OpenPool(r, w, p)
       PROVE  [RosterNext]_rosterVars
  BY <1>12 DEF OpenPool
<1>13. ASSUME NEW r \in Desk, PoolInfo(r) \/ LoadRequests(r) \/ LateList(r) \/ ResponseSeen(r)
       PROVE  [RosterNext]_rosterVars
  BY <1>13 DEF PoolInfo, LoadRequests, LateList, ResponseSeen
<1> QED
  BY <1>1, <1>2, <1>3, <1>4, <1>5, <1>6, <1>7, <1>8, <1>9, <1>10, <1>11, <1>12, <1>13 DEF Next

-----------------------------------------------------------------------------
(* What the roster keeps of a pool, and of who waits for it. *)

PoolsKept == \A p \in PoolId : Registered(p) => pools'[p] = pools[p]

LEMMA RegisterKeeps ==
    ASSUME RosterInv, OpenPoolsDoNotAsk, NEW p \in PoolId, NEW w \in Wallet,
           NEW gated \in BOOLEAN, RegisterPool(p, w, gated)
    PROVE  PoolsKept /\ OpenPoolsDoNotAsk'
<1>1. \A q \in PoolId : q # p => pools'[q] = pools[q]
  BY DEF RegisterPool, RosterInv, RosterTypeOK
<1>2. ~Registered(p) /\ members' = members
  BY DEF RegisterPool
<1>3. \A v \in Wallet : ~HasRow(p, v)
  BY <1>2 DEF RosterInv, RosterTypeOK
<1>4. OpenPoolsDoNotAsk'
  BY <1>1, <1>2, <1>3 DEF OpenPoolsDoNotAsk, Pending, HasRow
<1> QED
  BY <1>1, <1>2, <1>4 DEF PoolsKept

LEMMA JoinKeeps ==
    ASSUME RosterInv, OpenPoolsDoNotAsk, NEW p \in PoolId, NEW w \in Wallet,
           NEW email \in Email \cup {NoEmail}, Join(p, w, email)
    PROVE  PoolsKept /\ OpenPoolsDoNotAsk'
<1> DEFINE fresh == [status |-> JoinStatus(p), email |-> email]
           row == IF HasRow(p, w) THEN Rejoined(p, w, fresh) ELSE fresh
<1>1. members' = [members EXCEPT ![p][w] = row] /\ pools' = pools
  BY DEF Join
<1>2. fresh \in MemberRow /\ (fresh.status = "pending" => pools[p].gated)
  BY DEF JoinStatus, MemberRow
<1>3. HasRow(p, w) => row \in MemberRow /\ row.status = members[p][w].status
  BY <1>2, RowType DEF Rejoined, MemberRow, RosterInv
<1>4. row \in MemberRow /\ (row.status = "pending" => pools[p].gated)
  BY <1>2, <1>3 DEF OpenPoolsDoNotAsk, Pending
<1> HIDE DEF row
<1>5. /\ members'[p][w] = row
      /\ \A q \in PoolId, v \in Wallet : q # p \/ v # w => members'[q][v] = members[q][v]
  BY <1>1, <1>4, RowReplaced, ZenonT(30) DEF RosterInv
<1>6. OpenPoolsDoNotAsk'
  BY <1>1, <1>4, <1>5 DEF OpenPoolsDoNotAsk, Pending, HasRow
<1> QED
  BY <1>1, <1>6 DEF PoolsKept

LEMMA FinishKeeps ==
    ASSUME RosterInv, OpenPoolsDoNotAsk, NEW r \in Response, FinishResponse(r)
    PROVE  PoolsKept /\ OpenPoolsDoNotAsk'
<1> DEFINE p == response[r].pool
           w == response[r].wallet
<1>1. p \in PoolId /\ w \in Wallet
  BY ResponseType DEF FinishResponse, RosterInv
<1>2. pools' = pools /\ Pending(p, w)
  BY DEF FinishResponse
<1>3. \A q \in PoolId, v \in Wallet : q # p \/ v # w => members'[q][v] = members[q][v]
  BY <1>1 DEF FinishResponse, RosterInv, RosterTypeOK
<1>4. pools[p].gated
  BY <1>1, <1>2 DEF OpenPoolsDoNotAsk
<1>5. OpenPoolsDoNotAsk'
  BY <1>2, <1>3, <1>4 DEF OpenPoolsDoNotAsk, Pending, HasRow
<1> QED
  BY <1>2, <1>5 DEF PoolsKept

LEMMA RosterKeeps ==
    ASSUME RosterInv, OpenPoolsDoNotAsk, [RosterNext]_rosterVars
    PROVE  PoolsKept /\ OpenPoolsDoNotAsk'
<1>1. CASE pools' = pools /\ members' = members
  BY <1>1 DEF PoolsKept, OpenPoolsDoNotAsk, Pending, HasRow
<1>2. ASSUME NEW p \in PoolId, NEW w \in Wallet, NEW gated \in BOOLEAN, RegisterPool(p, w, gated)
      PROVE  PoolsKept /\ OpenPoolsDoNotAsk'
  BY <1>2, RegisterKeeps
<1>3. ASSUME NEW p \in PoolId, NEW w \in Wallet, NEW email \in Email \cup {NoEmail},
             Join(p, w, email)
      PROVE  PoolsKept /\ OpenPoolsDoNotAsk'
  BY <1>3, JoinKeeps
<1>4. ASSUME NEW r \in Response, FinishResponse(r)
      PROVE  PoolsKept /\ OpenPoolsDoNotAsk'
  BY <1>4, FinishKeeps
<1> QED
  BY <1>1, <1>2, <1>3, <1>4 DEF RosterNext, rosterVars, StartResponse, RefuseResponse

-----------------------------------------------------------------------------
(* A screen that does not change goes on telling the truth. *)

LEMMA CreateKept ==
    ASSUME PoolsKept, PagesTypeOK, NEW w \in Organizer, CreateHolds(w), create'[w] = create[w]
    PROVE  CreateHolds(w)'
<1> SUFFICES ASSUME create[w].step = "created"
             PROVE  CreateHolds(w)'
  BY DEF CreateHolds
<1>1. create[w].pool \in PoolId /\ Registered(create[w].pool)
  BY CreateType DEF Created, CreateHolds
<1>2. pools'[create[w].pool] = pools[create[w].pool]
  BY <1>1 DEF PoolsKept
<1> QED
  BY <1>1, <1>2 DEF CreateHolds, Registered

LEMMA JoinKept ==
    ASSUME PoolsKept, \A q \in PoolId, v \in Wallet : RowKept(q, v),
           PagesTypeOK, NEW w \in Guest, JoinHolds(w), join'[w] = join[w]
    PROVE  JoinHolds(w)'
<1> SUFFICES ASSUME join[w].step # "away"
             PROVE  JoinHolds(w)'
  BY DEF JoinHolds
<1>1. join[w].pool \in PoolId /\ Registered(join[w].pool) /\ w \in Wallet
  BY JoinType DEF Visit
<1>2. pools'[join[w].pool] = pools[join[w].pool]
  BY <1>1 DEF PoolsKept
<1>3. Member(join[w].pool, w) => Member(join[w].pool, w)'
  BY <1>1 DEF RowKept
<1> QED
  BY <1>2, <1>3 DEF JoinHolds, Member, HasRow

LEMMA DeskKept ==
    ASSUME PoolsKept, \A q \in PoolId, v \in Wallet : RowKept(q, v),
           PagesTypeOK, NEW r \in Desk, DeskHolds(r),
           desk'[r].open => /\ desk[r].open
                            /\ desk'[r].pool = desk[r].pool
                            /\ desk'[r].wallet = desk[r].wallet
                            /\ desk'[r].code = desk[r].code
    PROVE  DeskHolds(r)'
<1> SUFFICES ASSUME desk'[r].open, desk[r].code # NoCode
             PROVE  DeskHolds(r)'
  BY DEF DeskHolds
<1>1. /\ desk[r].pool \in PoolId /\ Registered(desk[r].pool) /\ desk[r].wallet \in Wallet
  BY DeskType DEF OpenDesk
<1>2. pools'[desk[r].pool] = pools[desk[r].pool]
  BY <1>1 DEF PoolsKept
<1>3. Member(desk[r].pool, desk[r].wallet) => Member(desk[r].pool, desk[r].wallet)'
  BY <1>1 DEF RowKept
<1> QED
  BY <1>2, <1>3 DEF DeskHolds, Insider, Member, HasRow

-----------------------------------------------------------------------------
(* A step of the whole, part by part. *)

LEMMA RosterPart ==
    ASSUME PageInv, [Next]_vars
    PROVE  /\ RosterInv'
           /\ OpenPoolsDoNotAsk'
           /\ PoolsKept
           /\ \A q \in PoolId, v \in Wallet : RowKept(q, v)
<1>1. [RosterNext]_rosterVars
  BY RosterStepOfNext DEF PageInv
<1> QED
  BY <1>1, NextStep, RosterKeeps DEF PageInv

LEMMA AccountPart ==
    ASSUME PagesTypeOK, [Next]_vars
    PROVE  account' \in [PoolId -> {"none", "sent", "executed", "expired"}]
<1>1. CASE account' = account
  BY <1>1 DEF PagesTypeOK
<1>2. ASSUME NEW w \in Organizer, NEW p \in PoolId, NEW gated \in BOOLEAN, PressCreate(w, p, gated)
      PROVE  account' \in [PoolId -> {"none", "sent", "executed", "expired"}]
  BY <1>2 DEF PressCreate, PagesTypeOK
<1>3. ASSUME NEW p \in PoolId, CreateSettles(p)
      PROVE  account' \in [PoolId -> {"none", "sent", "executed", "expired"}]
  BY <1>3 DEF CreateSettles, PagesTypeOK
<1> QED
  BY <1>1, <1>2, <1>3 DEF Next, vars, pageVars, CreateConfirmed, CreateThrows, PostPool, OpenLink,
     PostJoin, JoinFails, RespondElsewhere, ResponseHandled, ResponseRefused, OpenPool, PoolInfo,
     LoadRequests, LateList, Respond, ResponseSeen

(* One CreatePoolPage changes: it is well formed, and what it says is so.    *)
LEMMA CreatePage ==
    ASSUME PageInv, PoolsKept, NEW w \in Organizer,
           NEW page \in {CreateForm} \cup Asked \cup Created,
           create' = [create EXCEPT ![w] = page],
           page.step = "created" =>
               /\ pools'[page.pool] # NoRow
               /\ pools'[page.pool].code = page.code
               /\ pools'[page.pool].organizer = w
               /\ pools'[page.pool].gated = page.gated
    PROVE  /\ create' \in [Organizer -> {CreateForm} \cup Asked \cup Created]
           /\ \A v \in Organizer : CreateHolds(v)'
<1>1. /\ create' \in [Organizer -> {CreateForm} \cup Asked \cup Created]
      /\ create'[w] = page
      /\ \A v \in Organizer : v # w => create'[v] = create[v]
  BY DEF PageInv, PagesTypeOK
<1>2. CreateHolds(w)'
  BY <1>1 DEF CreateHolds, Registered
<1>3. \A v \in Organizer : v # w => CreateHolds(v)'
  BY <1>1, CreateKept DEF PageInv
<1> QED
  BY <1>1, <1>2, <1>3

LEMMA CreatePart ==
    ASSUME PageInv, [Next]_vars
    PROVE  /\ create' \in [Organizer -> {CreateForm} \cup Asked \cup Created]
           /\ \A v \in Organizer : CreateHolds(v)'
<1> DEFINE Goal == /\ create' \in [Organizer -> {CreateForm} \cup Asked \cup Created]
                   /\ \A v \in Organizer : CreateHolds(v)'
<1>1. PoolsKept
  BY RosterPart
<1>2. CASE create' = create
  BY <1>1, <1>2, CreateKept DEF PageInv, PagesTypeOK
<1>3. ASSUME NEW w \in Organizer, NEW p \in PoolId, NEW gated \in BOOLEAN, PressCreate(w, p, gated)
      PROVE  Goal
  <2>1. PICK page \in Asked : page.step # "created" /\ create' = [create EXCEPT ![w] = page]
    BY <1>3 DEF PressCreate, Asked
  <2> QED
    BY <1>1, <2>1, CreatePage
<1>4. ASSUME NEW w \in Organizer, CreateConfirmed(w)
      PROVE  Goal
  <2>1. create[w] \in Asked
    BY <1>4, CreateType DEF CreateConfirmed, PageInv
  <2>2. PICK page \in Asked : page.step # "created" /\ create' = [create EXCEPT ![w] = page]
    <3>1. [create[w] EXCEPT !.step = "posting"] \in Asked
      BY <2>1 DEF Asked
    <3>2. [create[w] EXCEPT !.step = "posting"].step = "posting"
      BY <2>1 DEF Asked
    <3>3. create' = [create EXCEPT ![w] = [create[w] EXCEPT !.step = "posting"]]
      BY <1>4 DEF CreateConfirmed
    <3> QED
      BY <3>1, <3>2, <3>3
  <2> QED
    BY <1>1, <2>2, CreatePage
<1>5. ASSUME NEW w \in Organizer, create' = [create EXCEPT ![w] = CreateForm]
      PROVE  Goal
  <2>1. CreateForm.step # "created"
    BY DEF CreateForm
  <2> QED
    BY <1>1, <1>5, <2>1, CreatePage
<1>6. ASSUME NEW w \in Organizer, PostPool(w), create' # [create EXCEPT ![w] = CreateForm]
      PROVE  Goal
  <2>1. create[w] \in Asked /\ w \in Wallet
    BY <1>6, CreateType DEF PostPool, PageInv
  <2>2. PICK p \in PoolId, gated \in BOOLEAN : create[w].pool = p /\ create[w].gated = gated
    BY <2>1 DEF Asked
  <2>3. PICK c \in Code :
            pools' = [pools EXCEPT ![p] = [code |-> c, organizer |-> w, gated |-> gated]]
    BY <1>6, <2>2 DEF PostPool, RegisterPool
  <2>4. pools'[p] = [code |-> c, organizer |-> w, gated |-> gated]
    BY <2>3 DEF PageInv, RosterInv, RosterTypeOK
  <2>5. pools'[p] # NoRow
    BY <2>1, <2>3, <2>4, RosterConstants
  <2>6. PICK page \in Created :
            /\ page.pool = p /\ page.gated = gated /\ page.code = c
            /\ create' = [create EXCEPT ![w] = page]
    <3>1. create' = [create EXCEPT ![w] =
              [step |-> "created", pool |-> p, gated |-> gated, code |-> c]]
      BY <1>6, <2>2, <2>4 DEF PostPool
    <3>2. [step |-> "created", pool |-> p, gated |-> gated, code |-> c] \in Created
      BY <2>3 DEF Created
    <3> QED
      BY <3>1, <3>2
  <2>7. /\ pools'[page.pool] # NoRow
        /\ pools'[page.pool].code = page.code
        /\ pools'[page.pool].organizer = w
        /\ pools'[page.pool].gated = page.gated
    BY <2>4, <2>5, <2>6
  <2> QED
    BY <1>1, <2>6, <2>7, CreatePage
<1> QED
  BY <1>2, <1>3, <1>4, <1>5, <1>6 DEF Next, vars, pageVars, CreateSettles, CreateThrows, OpenLink,
     PostJoin, JoinFails, RespondElsewhere, ResponseHandled, ResponseRefused, OpenPool, PoolInfo,
     LoadRequests, LateList, Respond, ResponseSeen

(* One JoinPage changes. *)
LEMMA JoinPage ==
    ASSUME PageInv, PoolsKept, \A q \in PoolId, v \in Wallet : RowKept(q, v),
           NEW w \in Guest, NEW page \in Visit,
           join' = [join EXCEPT ![w] = page],
           pools'[page.pool] # NoRow,
           page.step = "in" => /\ members'[page.pool][w] # NoRow
                                /\ members'[page.pool][w].status = "member",
           page.step = "waiting" => pools'[page.pool].gated
    PROVE  /\ join' \in [Guest -> {NoVisit} \cup Visit]
           /\ \A v \in Guest : join'[v] # NoVisit => pools'[join'[v].pool] # NoRow
           /\ \A v \in Guest : JoinHolds(v)'
<1>1. /\ join' \in [Guest -> {NoVisit} \cup Visit]
      /\ join'[w] = page
      /\ \A v \in Guest : v # w => join'[v] = join[v]
  BY DEF PageInv, PagesTypeOK
<1>2. JoinHolds(w)'
  BY <1>1 DEF JoinHolds, Member, HasRow
<1>3. \A v \in Guest : v # w => JoinHolds(v)'
  BY <1>1, JoinKept DEF PageInv
<1>4. ASSUME NEW v \in Guest, v # w, join'[v] # NoVisit
      PROVE  pools'[join'[v].pool] # NoRow
  <2>1. join[v] \in Visit /\ Registered(join[v].pool)
    BY <1>1, <1>4 DEF PageInv, PagesTypeOK
  <2> QED
    BY <1>1, <1>4, <2>1 DEF PoolsKept, Registered, Visit
<1> QED
  BY <1>1, <1>2, <1>3, <1>4 DEF Registered

LEMMA JoinPart ==
    ASSUME PageInv, [Next]_vars
    PROVE  /\ join' \in [Guest -> {NoVisit} \cup Visit]
           /\ \A v \in Guest : join'[v] # NoVisit => pools'[join'[v].pool] # NoRow
           /\ \A v \in Guest : JoinHolds(v)'
<1> DEFINE Goal == /\ join' \in [Guest -> {NoVisit} \cup Visit]
                   /\ \A v \in Guest : join'[v] # NoVisit => pools'[join'[v].pool] # NoRow
                   /\ \A v \in Guest : JoinHolds(v)'
<1>1. /\ PoolsKept
      /\ \A q \in PoolId, v \in Wallet : RowKept(q, v)
      /\ RosterInv' /\ OpenPoolsDoNotAsk'
  BY RosterPart
<1>2. CASE join' = join
  <2>1. \A v \in Guest : JoinHolds(v)'
    BY <1>1, <1>2, JoinKept DEF PageInv
  <2>2. ASSUME NEW v \in Guest, join'[v] # NoVisit
        PROVE  pools'[join'[v].pool] # NoRow
    <3>1. join[v] \in Visit /\ Registered(join[v].pool)
      BY <1>2, <2>2 DEF PageInv, PagesTypeOK
    <3> QED
      BY <1>1, <1>2, <3>1 DEF PoolsKept, Registered, Visit
  <2> QED
    BY <1>2, <2>1, <2>2 DEF PageInv, PagesTypeOK, Registered
<1>3. ASSUME NEW w \in Guest, NEW c \in Code, OpenLink(w, c)
      PROVE  Goal
  <2>1. PICK p \in PoolsOf(c) : join' = [join EXCEPT ![w] = [step |-> "invited", pool |-> p]]
    BY <1>3 DEF OpenLink
  <2>2. PICK page \in Visit :
            /\ page.step = "invited" /\ page.pool = p
            /\ join' = [join EXCEPT ![w] = page]
    BY <2>1 DEF PoolsOf, Visit
  <2>3. pools'[page.pool] # NoRow
    BY <1>1, <2>1, <2>2 DEF PoolsKept, PoolsOf, Registered
  <2> QED
    BY <1>1, <2>2, <2>3, JoinPage
<1>4. ASSUME NEW w \in Guest, join[w].step # "away",
             join' = [join EXCEPT ![w].step = "failed"]
      PROVE  Goal
  <2>1. join[w] \in Visit /\ Registered(join[w].pool)
    BY <1>4, JoinType DEF PageInv
  <2>2. PICK page \in Visit :
            /\ page.step = "failed" /\ page.pool = join[w].pool
            /\ join' = [join EXCEPT ![w] = page]
    <3>1. [join[w] EXCEPT !.step = "failed"] \in Visit
      BY <2>1 DEF Visit
    <3>2. /\ [join[w] EXCEPT !.step = "failed"].step = "failed"
          /\ [join[w] EXCEPT !.step = "failed"].pool = join[w].pool
      BY <2>1 DEF Visit
    <3>3. join' = [join EXCEPT ![w] = [join[w] EXCEPT !.step = "failed"]]
      BY <1>4
    <3> QED
      BY <3>1, <3>2, <3>3
  <2>3. pools'[page.pool] # NoRow
    BY <1>1, <2>1, <2>2 DEF PoolsKept, Registered, Visit
  <2> QED
    BY <1>1, <2>2, <2>3, JoinPage
<1>5. ASSUME NEW w \in Guest, NEW email \in Email \cup {NoEmail}, PostJoin(w, email),
             join' # [join EXCEPT ![w].step = "failed"]
      PROVE  Goal
  <2>1. join[w] \in Visit /\ w \in Wallet /\ Registered(join[w].pool)
    BY <1>5, JoinType DEF PostJoin, PageInv
  <2>2. PICK p \in PoolId : p = join[w].pool
    BY <2>1 DEF Visit
  <2>3. members'[p][w] # NoRow
    <3> DEFINE fresh == [status |-> JoinStatus(p), email |-> email]
               row == IF HasRow(p, w) THEN Rejoined(p, w, fresh) ELSE fresh
    <3>1. members' = [members EXCEPT ![p][w] = row]
      BY <1>5, <2>2 DEF PostJoin, Join
    <3>2. fresh \in MemberRow
      BY DEF JoinStatus, MemberRow
    <3>3. row \in MemberRow
      BY <2>1, <3>2, RowType DEF Rejoined, MemberRow, PageInv, RosterInv
    <3> HIDE DEF row
    <3>4. members'[p][w] = row
      BY <2>1, <3>1, <3>3, RowReplaced DEF PageInv, RosterInv
    <3> QED
      BY <3>3, <3>4, RosterConstants DEF MemberRow
  <2>4. PICK status \in {"pending", "member"} : members'[p][w].status = status
    BY <1>1, <2>1, <2>3 DEF RosterInv, RosterTypeOK, MemberRow
  <2>5. status = "pending" => pools'[p].gated
    BY <1>1, <2>1, <2>3, <2>4 DEF OpenPoolsDoNotAsk, Pending, HasRow
  <2>6. PICK page \in Visit :
            /\ page.pool = p /\ page.step = ScreenFor(status)
            /\ join' = [join EXCEPT ![w] = page]
    <3>1. ScreenFor(status) \in {"in", "waiting"}
      BY DEF ScreenFor
    <3>2. /\ [join[w] EXCEPT !.step = ScreenFor(status)] \in Visit
          /\ [join[w] EXCEPT !.step = ScreenFor(status)].step = ScreenFor(status)
          /\ [join[w] EXCEPT !.step = ScreenFor(status)].pool = p
      BY <2>1, <2>2, <3>1 DEF Visit
    <3>3. join' = [join EXCEPT ![w] = [join[w] EXCEPT !.step = ScreenFor(status)]]
      BY <1>5, <2>2, <2>4 DEF PostJoin
    <3> QED
      BY <3>2, <3>3
  <2>7. pools'[p] # NoRow
    BY <1>1, <2>1, <2>2 DEF PoolsKept, Registered
  <2>8. /\ page.step = "in" => status = "member"
        /\ page.step = "waiting" => status = "pending"
    BY <2>6 DEF ScreenFor
  <2> QED
    BY <1>1, <2>3, <2>4, <2>5, <2>6, <2>7, <2>8, JoinPage
<1> QED
  BY <1>2, <1>3, <1>4, <1>5 DEF Next, vars, pageVars, PressCreate, CreateSettles, CreateConfirmed,
     CreateThrows, PostPool, PostJoin, JoinFails, RespondElsewhere, ResponseHandled, ResponseRefused,
     OpenPool, PoolInfo, LoadRequests, LateList, Respond, ResponseSeen

(* One PoolPage changes: it shows another link than before only if that is   *)
(* its pool's, and its wallet is entitled to it.                             *)
LEMMA DeskPage ==
    ASSUME PageInv, PoolsKept, \A q \in PoolId, v \in Wallet : RowKept(q, v),
           NEW r \in Desk, NEW page \in OpenDesk,
           desk' = [desk EXCEPT ![r] = page],
           pools'[page.pool] # NoRow,
           \/ page.code = NoCode
           \/ /\ desk[r].open
              /\ page.pool = desk[r].pool
              /\ page.wallet = desk[r].wallet
              /\ page.code = desk[r].code
           \/ /\ pools'[page.pool].code = page.code
              /\ \/ page.wallet = pools'[page.pool].organizer
                 \/ /\ members'[page.pool][page.wallet] # NoRow
                    /\ members'[page.pool][page.wallet].status = "member"
    PROVE  /\ desk' \in [Desk -> {NoDesk} \cup OpenDesk]
           /\ \A d \in Desk : desk'[d].open => pools'[desk'[d].pool] # NoRow
           /\ \A d \in Desk : DeskHolds(d)'
<1>1. /\ desk' \in [Desk -> {NoDesk} \cup OpenDesk]
      /\ desk'[r] = page
      /\ \A d \in Desk : d # r => desk'[d] = desk[d]
  BY DEF PageInv, PagesTypeOK
<1>2. DeskHolds(r)'
  <2>1. CASE page.code = NoCode
    BY <1>1, <2>1 DEF DeskHolds
  <2>2. CASE /\ desk[r].open
             /\ page.pool = desk[r].pool
             /\ page.wallet = desk[r].wallet
             /\ page.code = desk[r].code
    BY <1>1, <2>2, DeskKept DEF PageInv
  <2>3. CASE /\ pools'[page.pool].code = page.code
             /\ \/ page.wallet = pools'[page.pool].organizer
                \/ /\ members'[page.pool][page.wallet] # NoRow
                   /\ members'[page.pool][page.wallet].status = "member"
    BY <1>1, <2>3 DEF DeskHolds, Insider, Member, HasRow
  <2> QED
    BY <2>1, <2>2, <2>3
<1>3. \A d \in Desk : d # r => DeskHolds(d)'
  BY <1>1, DeskKept DEF PageInv
<1>4. ASSUME NEW d \in Desk, d # r, desk'[d].open
      PROVE  pools'[desk'[d].pool] # NoRow
  <2>1. desk[d] \in OpenDesk /\ Registered(desk[d].pool)
    BY <1>1, <1>4, DeskType DEF PageInv
  <2> QED
    BY <1>1, <1>4, <2>1 DEF PoolsKept, Registered, OpenDesk
<1> QED
  BY <1>1, <1>2, <1>3, <1>4

(* A page that keeps its pool, its wallet and its link. *)
LEMMA DeskSameLink ==
    ASSUME PageInv, PoolsKept, \A q \in PoolId, v \in Wallet : RowKept(q, v),
           NEW r \in Desk, desk[r].open,
           NEW page \in OpenDesk,
           desk' = [desk EXCEPT ![r] = page],
           page.pool = desk[r].pool, page.wallet = desk[r].wallet, page.code = desk[r].code
    PROVE  /\ desk' \in [Desk -> {NoDesk} \cup OpenDesk]
           /\ \A d \in Desk : desk'[d].open => pools'[desk'[d].pool] # NoRow
           /\ \A d \in Desk : DeskHolds(d)'
<1>1. desk[r] \in OpenDesk /\ Registered(desk[r].pool)
  BY DeskType DEF PageInv
<1>2. pools'[page.pool] # NoRow
  BY <1>1 DEF PoolsKept, Registered, OpenDesk
<1> QED
  BY <1>2, DeskPage

(* The parts of a page that its list and its answers change.                 *)
LEMMA DeskFields ==
    ASSUME NEW page \in OpenDesk, NEW requests, NEW late, NEW busy
    PROVE  /\ [page EXCEPT !.requests = requests]
                 = [page EXCEPT !.requests = requests, !.late = page.late, !.busy = page.busy]
           /\ [page EXCEPT !.late = late]
                 = [page EXCEPT !.requests = page.requests, !.late = late, !.busy = page.busy]
           /\ [page EXCEPT !.requests = requests, !.late = late]
                 = [page EXCEPT !.requests = requests, !.late = late, !.busy = page.busy]
           /\ [page EXCEPT !.busy = busy]
                 = [page EXCEPT !.requests = page.requests, !.late = page.late, !.busy = busy]
           /\ [page EXCEPT !.busy = busy, !.requests = requests]
                 = [page EXCEPT !.requests = requests, !.late = page.late, !.busy = busy]
           /\ page.requests \in SUBSET Wallet
           /\ page.late \in (SUBSET Wallet) \cup {NoList}
           /\ page.busy \in BOOLEAN
BY DEF OpenDesk

LEMMA DeskPart ==
    ASSUME PageInv, [Next]_vars
    PROVE  /\ desk' \in [Desk -> {NoDesk} \cup OpenDesk]
           /\ \A d \in Desk : desk'[d].open => pools'[desk'[d].pool] # NoRow
           /\ \A d \in Desk : DeskHolds(d)'
<1> DEFINE Goal == /\ desk' \in [Desk -> {NoDesk} \cup OpenDesk]
                   /\ \A d \in Desk : desk'[d].open => pools'[desk'[d].pool] # NoRow
                   /\ \A d \in Desk : DeskHolds(d)'
<1>1. /\ PoolsKept
      /\ \A q \in PoolId, v \in Wallet : RowKept(q, v)
      /\ RosterInv'
  BY RosterPart
<1>2. CASE desk' = desk
  <2>1. \A d \in Desk : DeskHolds(d)'
    BY <1>1, <1>2, DeskKept DEF PageInv
  <2>2. ASSUME NEW d \in Desk, desk'[d].open
        PROVE  pools'[desk'[d].pool] # NoRow
    <3>1. desk[d] \in OpenDesk /\ Registered(desk[d].pool)
      BY <1>2, <2>2, DeskType DEF PageInv
    <3> QED
      BY <1>1, <1>2, <3>1 DEF PoolsKept, Registered, OpenDesk
  <2> QED
    BY <1>2, <2>1, <2>2 DEF PageInv, PagesTypeOK
<1>3. ASSUME NEW r \in Desk, NEW w \in Wallet, NEW p \in PoolId, OpenPool(r, w, p)
      PROVE  Goal
  <2>1. FreshDesk(w, p) \in OpenDesk
    BY DEF FreshDesk, OpenDesk
  <2>2. PICK page \in OpenDesk : page = FreshDesk(w, p)
    BY <2>1
  <2>3. /\ page.pool = p /\ page.code = NoCode
        /\ desk' = [desk EXCEPT ![r] = page]
        /\ Registered(p)
    BY <1>3, <2>2 DEF OpenPool, FreshDesk
  <2>4. pools'[page.pool] # NoRow
    BY <1>1, <2>3 DEF PoolsKept, Registered
  <2> QED
    BY <1>1, <2>3, <2>4, DeskPage
<1>4. ASSUME NEW r \in Desk, PoolInfo(r)
      PROVE  Goal
  <2>1. desk[r] \in OpenDesk /\ Registered(desk[r].pool)
    BY <1>4, DeskType DEF PoolInfo, PageInv
  <2>2. PICK p \in PoolId, w \in Wallet : p = desk[r].pool /\ w = desk[r].wallet
    BY <2>1 DEF OpenDesk
  <2>3. pools' = pools /\ members' = members
    BY <1>4 DEF PoolInfo, rosterVars
  <2>4. pools'[p] # NoRow /\ pools[p].code \in Code
    BY <2>1, <2>2, <2>3 DEF Registered, PageInv, RosterInv, RosterTypeOK, PoolRow
  <2>5. PICK code \in Code \cup {NoCode}, manages \in BOOLEAN :
            /\ desk' = [desk EXCEPT ![r].code = code, ![r].manages = manages]
            /\ code # NoCode => code = pools[p].code /\ Insider(p, w)
    <3>1. CASE desk' = [desk EXCEPT ![r].code = NoCode, ![r].manages = FALSE]
      BY <3>1
    <3>2. ASSUME NEW proven \in BOOLEAN,
                 desk' = [desk EXCEPT
                     ![r].code = IF proven /\ Insider(p, w) THEN pools[p].code ELSE NoCode,
                     ![r].manages = (w = pools[p].organizer)]
          PROVE  \E code \in Code \cup {NoCode}, manages \in BOOLEAN :
                     /\ desk' = [desk EXCEPT ![r].code = code, ![r].manages = manages]
                     /\ code # NoCode => code = pools[p].code /\ Insider(p, w)
      <4>1. CASE proven /\ Insider(p, w)
        BY <2>4, <3>2, <4>1
      <4>2. CASE ~(proven /\ Insider(p, w))
        BY <3>2, <4>2
      <4> QED
        BY <4>1, <4>2
    <3> QED
      BY <1>4, <2>2, <3>1, <3>2 DEF PoolInfo
  <2>6. PICK page \in OpenDesk :
            /\ desk' = [desk EXCEPT ![r] = page]
            /\ page.pool = p /\ page.wallet = w /\ page.code = code
    <3> DEFINE new == [desk[r] EXCEPT !.code = code, !.manages = manages]
    <3>1. new \in OpenDesk /\ new.pool = p /\ new.wallet = w /\ new.code = code
      BY <2>1, <2>2 DEF OpenDesk
    <3>2. desk' = [desk EXCEPT ![r] = new]
      BY <2>5
    <3> QED
      BY <3>1, <3>2
  <2>7. \/ page.code = NoCode
        \/ /\ pools'[page.pool].code = page.code
           /\ \/ page.wallet = pools'[page.pool].organizer
              \/ /\ members'[page.pool][page.wallet] # NoRow
                 /\ members'[page.pool][page.wallet].status = "member"
    BY <2>3, <2>5, <2>6 DEF Insider, Member, HasRow
  <2> QED
    BY <1>1, <2>4, <2>6, <2>7, DeskPage
<1>5. ASSUME NEW r \in Desk, NEW page \in OpenDesk, desk[r].open,
             desk' = [desk EXCEPT ![r] = page],
             page.pool = desk[r].pool, page.wallet = desk[r].wallet, page.code = desk[r].code
      PROVE  Goal
  BY <1>1, <1>5, DeskSameLink
<1>6. ASSUME NEW r \in Desk, NEW requests \in SUBSET Wallet,
             NEW late \in (SUBSET Wallet) \cup {NoList}, NEW busy \in BOOLEAN, desk[r].open,
             desk' = [desk EXCEPT
                 ![r] = [desk[r] EXCEPT !.requests = requests, !.late = late, !.busy = busy]]
      PROVE  Goal
  <2>1. desk[r] \in OpenDesk
    BY <1>6, DeskType DEF PageInv
  <2>2. PICK page \in OpenDesk :
            page = [desk[r] EXCEPT !.requests = requests, !.late = late, !.busy = busy]
    BY <2>1 DEF OpenDesk
  <2>3. page.pool = desk[r].pool /\ page.wallet = desk[r].wallet /\ page.code = desk[r].code
    BY <2>1, <2>2 DEF OpenDesk
  <2> QED
    BY <1>5, <1>6, <2>2, <2>3
<1>7. ASSUME NEW r \in Desk, LoadRequests(r) \/ LateList(r) \/ ResponseSeen(r)
      PROVE  Goal
  <2>1. desk[r] \in OpenDesk
    BY <1>7, DeskType DEF PageInv, LoadRequests, LateList, ResponseSeen
  <2>2. \A p \in PoolId : Waiting(p) \in SUBSET Wallet
    BY DEF Waiting
  <2>4. /\ desk[r].requests \in SUBSET Wallet
        /\ desk[r].late \in (SUBSET Wallet) \cup {NoList}
        /\ desk[r].busy \in BOOLEAN
    BY <2>1, DeskFields
  <2>3. PICK requests \in SUBSET Wallet, late \in (SUBSET Wallet) \cup {NoList}, busy \in BOOLEAN :
            desk' = [desk EXCEPT
                ![r] = [desk[r] EXCEPT !.requests = requests, !.late = late, !.busy = busy]]
    <3>1. CASE LoadRequests(r)
      <4>1. PICK list \in SUBSET Wallet :
                \/ desk' = [desk EXCEPT ![r] = [desk[r] EXCEPT !.requests = list]]
                \/ desk' = [desk EXCEPT ![r] = [desk[r] EXCEPT !.late = list]]
        BY <2>2, <2>1, <3>1 DEF LoadRequests, OpenDesk
      <4>2. CASE desk' = [desk EXCEPT ![r] = [desk[r] EXCEPT !.requests = list]]
        <5>1. [desk[r] EXCEPT !.requests = list]
                  = [desk[r] EXCEPT !.requests = list, !.late = desk[r].late, !.busy = desk[r].busy]
          BY <2>1, DeskFields
        <5> QED
          BY <2>4, <4>2, <5>1
      <4>3. CASE desk' = [desk EXCEPT ![r] = [desk[r] EXCEPT !.late = list]]
        <5>1. [desk[r] EXCEPT !.late = list]
                  = [desk[r] EXCEPT !.requests = desk[r].requests, !.late = list, !.busy = desk[r].busy]
          BY <2>1, DeskFields
        <5> QED
          BY <2>4, <4>3, <5>1
      <4> QED
        BY <4>1, <4>2, <4>3
    <3>2. CASE LateList(r)
      <4>1. desk' = [desk EXCEPT ![r] = [desk[r] EXCEPT !.requests = desk[r].late, !.late = NoList]]
        BY <3>2 DEF LateList
      <4>2. desk[r].late \in SUBSET Wallet
        BY <2>1, <3>2, DeskFields DEF LateList
      <4>3. [desk[r] EXCEPT !.requests = desk[r].late, !.late = NoList]
                = [desk[r] EXCEPT !.requests = desk[r].late, !.late = NoList, !.busy = desk[r].busy]
        BY <2>1, DeskFields
      <4> QED
        BY <2>4, <4>1, <4>2, <4>3
    <3>3. CASE ResponseSeen(r)
      <4>1. PICK list \in SUBSET Wallet :
                \/ desk' = [desk EXCEPT ![r] = [desk[r] EXCEPT !.busy = FALSE, !.requests = list]]
                \/ desk' = [desk EXCEPT ![r] = [desk[r] EXCEPT !.busy = FALSE]]
        BY <2>2, <2>1, <3>3 DEF ResponseSeen, OpenDesk
      <4>2. /\ [desk[r] EXCEPT !.busy = FALSE, !.requests = list]
                  = [desk[r] EXCEPT !.requests = list, !.late = desk[r].late, !.busy = FALSE]
            /\ [desk[r] EXCEPT !.busy = FALSE]
                  = [desk[r] EXCEPT !.requests = desk[r].requests, !.late = desk[r].late, !.busy = FALSE]
        BY <2>1, DeskFields
      <4>3. CASE desk' = [desk EXCEPT ![r] = [desk[r] EXCEPT !.busy = FALSE, !.requests = list]]
        BY <2>4, <4>2, <4>3
      <4>4. CASE desk' = [desk EXCEPT ![r] = [desk[r] EXCEPT !.busy = FALSE]]
        BY <2>4, <4>2, <4>4
      <4> QED
        BY <4>1, <4>3, <4>4
    <3> QED
      BY <1>7, <3>1, <3>2, <3>3
  <2> QED
    BY <1>6, <1>7, <2>3 DEF LoadRequests, LateList, ResponseSeen
<1>8. ASSUME NEW r \in Desk, NEW w \in Wallet, NEW yes \in BOOLEAN, Respond(r, w, yes)
      PROVE  Goal
  <2>1. desk[r] \in OpenDesk
    BY <1>8, DeskType DEF PageInv, Respond
  <2>4. /\ desk[r].requests \in SUBSET Wallet
        /\ desk[r].late \in (SUBSET Wallet) \cup {NoList}
        /\ desk[r].busy \in BOOLEAN
    BY <2>1, DeskFields
  <2>2. PICK requests \in SUBSET Wallet, late \in (SUBSET Wallet) \cup {NoList}, busy \in BOOLEAN :
            desk' = [desk EXCEPT
                ![r] = [desk[r] EXCEPT !.requests = requests, !.late = late, !.busy = busy]]
    <3>1. desk' = [desk EXCEPT ![r] = [desk[r] EXCEPT !.busy = TRUE]]
      BY <1>8 DEF Respond
    <3>2. [desk[r] EXCEPT !.busy = TRUE]
              = [desk[r] EXCEPT !.requests = desk[r].requests, !.late = desk[r].late, !.busy = TRUE]
      BY <2>1, DeskFields
    <3> QED
      BY <2>4, <3>1, <3>2
  <2> QED
    BY <1>6, <1>8, <2>2 DEF Respond
<1>9. ASSUME NEW r \in Response, ResponseRefused(r)
      PROVE  Goal
  <2>1. desk \in [Desk -> {NoDesk} \cup OpenDesk]
    BY DEF PageInv, PagesTypeOK
  <2>2. CASE r \notin Desk \/ ~desk[r].open
    <3>1. desk' = desk
      BY <1>9, <2>1, <2>2 DEF ResponseRefused
    <3> QED
      BY <1>2, <3>1
  <2>3. CASE r \in Desk /\ desk[r].open
    <3>1. desk[r] \in OpenDesk
      BY <2>3, DeskType DEF PageInv
    <3>2. PICK requests \in SUBSET Wallet, late \in (SUBSET Wallet) \cup {NoList} :
              requests = desk[r].requests /\ late = desk[r].late
      BY <3>1 DEF OpenDesk
    <3>3. [desk[r] EXCEPT !.busy = FALSE]
              = [desk[r] EXCEPT !.requests = requests, !.late = late, !.busy = FALSE]
      BY <3>1, <3>2 DEF OpenDesk
    <3>4. desk' = [desk EXCEPT ![r] = [desk[r] EXCEPT !.busy = FALSE]]
      BY <1>9, <2>1, <2>3 DEF ResponseRefused
    <3> QED
      BY <1>6, <2>3, <3>3, <3>4
  <2> QED
    BY <2>2, <2>3
<1> QED
  <2> HIDE DEF Goal
  <2>1. Goal \/ desk' = desk
    <3>1. ASSUME NEW r \in Desk,
                 \/ \E w \in Wallet, p \in PoolId : OpenPool(r, w, p)
                 \/ PoolInfo(r)
                 \/ LoadRequests(r)
                 \/ LateList(r)
                 \/ \E w \in Wallet, yes \in BOOLEAN : Respond(r, w, yes)
                 \/ ResponseSeen(r)
          PROVE  Goal
      BY <1>3, <1>4, <1>7, <1>8, <3>1
    <3>2. ASSUME NEW r \in Response,
                 \/ \E p \in PoolId, w \in Wallet, yes \in BOOLEAN : RespondElsewhere(r, p, w, yes)
                 \/ ResponseHandled(r)
                 \/ ResponseRefused(r)
          PROVE  Goal \/ desk' = desk
      BY <1>9, <3>2 DEF RespondElsewhere, ResponseHandled, pageVars
    <3>3. ASSUME NEW w \in Organizer,
                 \/ \E p \in PoolId, gated \in BOOLEAN : PressCreate(w, p, gated)
                 \/ CreateConfirmed(w)
                 \/ CreateThrows(w)
                 \/ PostPool(w)
          PROVE  desk' = desk
      BY <3>3 DEF PressCreate, CreateConfirmed, CreateThrows, PostPool
    <3>4. ASSUME NEW w \in Guest,
                 \/ \E c \in Code : OpenLink(w, c)
                 \/ \E email \in Email \cup {NoEmail} : PostJoin(w, email)
                 \/ JoinFails(w)
          PROVE  desk' = desk
      BY <3>4 DEF OpenLink, PostJoin, JoinFails
    <3>5. ASSUME NEW p \in PoolId, CreateSettles(p)
          PROVE  desk' = desk
      BY <3>5 DEF CreateSettles
    <3>6. CASE UNCHANGED vars
      BY <3>6 DEF vars
    <3> QED
      BY <3>1, <3>2, <3>3, <3>4, <3>5, <3>6 DEF Next
  <2>2. CASE desk' = desk
    BY <1>2, <2>2
  <2>3. CASE Goal
    BY <2>3 DEF Goal
  <2> QED
    BY <2>1, <2>2, <2>3

LEMMA PageStep ==
    ASSUME PageInv, [Next]_vars
    PROVE  PageInv'
<1>1. RosterInv' /\ OpenPoolsDoNotAsk'
  BY RosterPart
<1>2. account' \in [PoolId -> {"none", "sent", "executed", "expired"}]
  BY AccountPart DEF PageInv
<1>3. /\ create' \in [Organizer -> {CreateForm} \cup Asked \cup Created]
      /\ \A v \in Organizer : CreateHolds(v)'
  BY CreatePart
<1>4. /\ join' \in [Guest -> {NoVisit} \cup Visit]
      /\ \A v \in Guest : join'[v] # NoVisit => pools'[join'[v].pool] # NoRow
      /\ \A v \in Guest : JoinHolds(v)'
  BY JoinPart
<1>5. /\ desk' \in [Desk -> {NoDesk} \cup OpenDesk]
      /\ \A d \in Desk : desk'[d].open => pools'[desk'[d].pool] # NoRow
      /\ \A d \in Desk : DeskHolds(d)'
  BY DeskPart
<1> QED
  BY <1>1, <1>2, <1>3, <1>4, <1>5 DEF PageInv, PagesTypeOK, Registered

LEMMA PageInit ==
    ASSUME Init
    PROVE  PageInv
<1>1. RosterInv
  BY InitInvariant DEF Init
<1>2. PagesTypeOK
  BY DEF Init, PagesTypeOK, CreateForm, NoVisit, NoDesk
<1> QED
  BY <1>1, <1>2 DEF Init, PageInv, RosterInit, OpenPoolsDoNotAsk, Pending, HasRow, CreateForm,
     NoVisit, NoDesk, CreateHolds, JoinHolds, DeskHolds

-----------------------------------------------------------------------------

(* The invariant of the pages.                                               *)
THEOREM PagesInvariant == Spec => []PageInv
<1>1. Init => PageInv
  BY PageInit
<1>2. PageInv /\ [Next]_vars => PageInv'
  BY PageStep
<1> QED
  BY <1>1, <1>2, PTL DEF Spec

(* Pages, late lists and answers from several tabs use the roster only as    *)
(* the backend's handlers allow: every property of RosterSpec is theirs.     *)
THEOREM PagesUseTheRoster == Spec => RosterSpec
<1>1. Init => RosterInit
  BY DEF Init
<1>2. PageInv /\ [Next]_vars => [RosterNext]_rosterVars
  BY RosterStepOfNext DEF PageInv
<1> QED
  BY <1>1, <1>2, PagesInvariant, PTL DEF Spec, RosterSpec

(* Nobody is a member of a gated pool without a yes, from any of the pages.  *)
THEOREM PagesKeepGates == Spec => []GatedNeedsApproval
BY PagesUseTheRoster, GatedPoolsAreGated, PTL

(* No page, however old what it shows, throws a member out or changes an     *)
(* e-mail.                                                                   *)
THEOREM PagesKeepMembers == Spec => RowsStay
BY PagesUseTheRoster, RowsAreKept, PTL

(* So the pages and the handlers together implement GatedPools.              *)
THEOREM PagesImplementGatedPools == Spec => RefinesGatedPools
BY PagesUseTheRoster, RosterImplementsGatedPools, PTL

(* Each page holds what its screen can show, about a registered pool.        *)
THEOREM PagesTypeCorrect == Spec => []PagesTypeOK
<1>1. PageInv => PagesTypeOK
  BY DEF PageInv
<1> QED
  BY <1>1, PagesInvariant, PTL

(* A link on a screen leads to the pool of that screen and no other, and a   *)
(* pool just created is the one that was asked for.                          *)
THEOREM LinksLead == Spec => []LinksLeadToTheirPool
<1>1. ASSUME PageInv, NEW p \in PoolId, Registered(p)
      PROVE  PoolsOf(pools[p].code) = {p}
  BY <1>1 DEF PoolsOf, PageInv, RosterInv, RosterTypeOK
<1>2. ASSUME PageInv, NEW w \in Organizer, create[w].step = "created"
      PROVE  /\ PoolsOf(create[w].code) = {create[w].pool}
             /\ pools[create[w].pool].organizer = w
             /\ pools[create[w].pool].gated = create[w].gated
  <2>1. create[w].pool \in PoolId
    BY <1>2, CreateType DEF PageInv, Created
  <2> QED
    BY <1>1, <1>2, <2>1 DEF PageInv, CreateHolds
<1>3. ASSUME PageInv, NEW r \in Desk, desk[r].open, desk[r].code # NoCode
      PROVE  PoolsOf(desk[r].code) = {desk[r].pool}
  <2>1. desk[r].pool \in PoolId /\ Registered(desk[r].pool)
    BY <1>3, DeskType DEF PageInv, OpenDesk
  <2> QED
    BY <1>1, <1>3, <2>1 DEF PageInv, DeskHolds
<1>4. PageInv => LinksLeadToTheirPool
  BY <1>2, <1>3 DEF LinksLeadToTheirPool
<1> QED
  BY <1>4, PagesInvariant, PTL

(* A page that shows the invite link is the organizer's or a member's, at    *)
(* the time of the answer and as long as the page is open.                   *)
THEOREM InvitesStayInside == Spec => []InviteStaysInside
<1>1. PageInv => InviteStaysInside
  BY DEF PageInv, DeskHolds, InviteStaysInside
<1> QED
  BY <1>1, PagesInvariant, PTL

(* What a guest's screen says stays true.                                    *)
THEOREM JoinScreensAreTrue == Spec => []JoinScreensHold
<1>1. PageInv => JoinScreensHold
  BY DEF PageInv, JoinHolds, JoinScreensHold
<1> QED
  BY <1>1, PagesInvariant, PTL
=============================================================================

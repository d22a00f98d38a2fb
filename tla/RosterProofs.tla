---------------------------- MODULE RosterProofs ----------------------------
(***************************************************************************)
(* What the roster guarantees for every set of pools, wallets, codes and   *)
(* e-mails, and any number of answers of the organizer in progress.        *)
(***************************************************************************)
EXTENDS Roster, TLAPS

(* The inductive invariant: that only registered pools have rows is what    *)
(* keeps a pool from being registered as gated around members it already    *)
(* has.                                                                     *)
RosterInv == RosterTypeOK /\ GatedNeedsApproval

-----------------------------------------------------------------------------

(* No row of the members table is NoRow. *)
LEMMA RowType ==
    ASSUME RosterTypeOK, NEW p \in PoolId, NEW w \in Wallet
    PROVE  /\ HasRow(p, w) => members[p][w] \in MemberRow
           /\ members[p][w] \in MemberRow => HasRow(p, w)
BY RosterConstants DEF RosterTypeOK, HasRow, MemberRow

(* Replacing one row by one of the table's type keeps the table's type and  *)
(* every other row.                                                         *)
LEMMA RowReplaced ==
    ASSUME RosterTypeOK, NEW p \in PoolId, NEW w \in Wallet,
           NEW row \in MemberRow \cup {NoRow},
           members' = [members EXCEPT ![p][w] = row]
    PROVE  /\ members' \in [PoolId -> [Wallet -> MemberRow \cup {NoRow}]]
           /\ members'[p][w] = row
           /\ \A q \in PoolId, v \in Wallet :
                 q # p \/ v # w => members'[q][v] = members[q][v]
<1>1. members \in [PoolId -> [Wallet -> MemberRow \cup {NoRow}]]
  BY DEF RosterTypeOK
<1>2. members' = [members EXCEPT ![p] = [members[p] EXCEPT ![w] = row]]
  OBVIOUS
<1>3. [members[p] EXCEPT ![w] = row] \in [Wallet -> MemberRow \cup {NoRow}]
  BY <1>1
<1>4. members'[p] = [members[p] EXCEPT ![w] = row]
  BY <1>1, <1>2
<1>5. \A q \in PoolId : q # p => members'[q] = members[q]
  BY <1>1, <1>2
<1> QED
  BY <1>1, <1>2, <1>3, <1>4, <1>5

-----------------------------------------------------------------------------
(* Init. *)

LEMMA InitInvariant == RosterInit => RosterInv
<1> SUFFICES ASSUME RosterInit
             PROVE  RosterInv
  OBVIOUS
<1>1. RosterTypeOK
  BY DEF RosterInit, RosterTypeOK, Registered, HasRow, NoResponse
<1>2. GatedNeedsApproval
  BY DEF RosterInit, GatedNeedsApproval, Member, HasRow
<1> QED
  BY <1>1, <1>2 DEF RosterInv

-----------------------------------------------------------------------------
(* Registering a pool gives it a code of its own and disturbs no member. *)

LEMMA RegisterStep ==
    ASSUME RosterInv, NEW p \in PoolId, NEW w \in Wallet, NEW gated \in BOOLEAN,
           RegisterPool(p, w, gated)
    PROVE  /\ RosterInv'
           /\ members' = members
<1> USE DEF RosterInv
<1>1. PICK c \in Code :
          /\ Free(c)
          /\ pools' = [pools EXCEPT ![p] = [code |-> c, organizer |-> w, gated |-> gated]]
  BY DEF RegisterPool
<1>2. UNCHANGED <<members, response, approved>> /\ ~Registered(p)
  BY DEF RegisterPool
<1> DEFINE row == [code |-> c, organizer |-> w, gated |-> gated]
<1>3. row \in PoolRow /\ row # NoRow
  BY RosterConstants DEF PoolRow
<1>4. /\ pools' \in [PoolId -> PoolRow \cup {NoRow}]
      /\ pools'[p] = row
      /\ \A q \in PoolId \ {p} : pools'[q] = pools[q]
  BY <1>1, <1>3 DEF RosterTypeOK
<1>5. \A q, r \in PoolId :
          Registered(q)' /\ Registered(r)' /\ pools'[q].code = pools'[r].code => q = r
  <2> SUFFICES ASSUME NEW q \in PoolId, NEW r \in PoolId, q # r,
                      Registered(q)', Registered(r)', pools'[q].code = pools'[r].code
               PROVE  FALSE
    OBVIOUS
  <2>1. CASE q = p
    BY <2>1, <1>1, <1>4 DEF Free, Registered
  <2>2. CASE r = p
    BY <2>2, <1>1, <1>4 DEF Free, Registered
  <2>3. CASE q # p /\ r # p
    BY <2>3, <1>4 DEF Registered, RosterTypeOK
  <2> QED
    BY <2>1, <2>2, <2>3
<1>6. \A q \in PoolId, v \in Wallet : HasRow(q, v)' => Registered(q)'
  BY <1>2, <1>3, <1>4 DEF HasRow, Registered, RosterTypeOK
<1>7. RosterTypeOK'
  BY <1>2, <1>4, <1>5, <1>6 DEF RosterTypeOK
<1>8. GatedNeedsApproval'
  <2> SUFFICES ASSUME NEW q \in PoolId, NEW v \in Wallet, Member(q, v)', pools'[q].gated
               PROVE  <<q, v>> \in approved'
    BY DEF GatedNeedsApproval
  <2>1. Member(q, v) /\ HasRow(q, v)
    BY <1>2 DEF Member, HasRow
  <2>2. q # p
    BY <2>1, <1>2 DEF RosterTypeOK
  <2> QED
    BY <2>1, <2>2, <1>2, <1>4 DEF GatedNeedsApproval
<1> QED
  BY <1>2, <1>7, <1>8

-----------------------------------------------------------------------------
(* Joining, for the first time or again. *)

LEMMA JoinStep ==
    ASSUME RosterInv, NEW p \in PoolId, NEW w \in Wallet, NEW email \in Email \cup {NoEmail},
           Join(p, w, email)
    PROVE  /\ RosterInv'
           /\ \A q \in PoolId, v \in Wallet : RowKept(q, v)
<1> USE DEF RosterInv
<1> DEFINE fresh == [status |-> JoinStatus(p), email |-> email]
           row == IF HasRow(p, w) THEN Rejoined(p, w, fresh) ELSE fresh
<1>1. /\ Registered(p)
      /\ members' = [members EXCEPT ![p][w] = row]
      /\ UNCHANGED <<pools, response, approved>>
  BY DEF Join
<1>2. fresh \in MemberRow
  BY DEF JoinStatus, MemberRow
<1>3. HasRow(p, w) =>
          /\ row \in MemberRow
          /\ row.status = members[p][w].status
          /\ members[p][w].email # NoEmail => row.email = members[p][w].email
  BY RowType DEF Rejoined, MemberRow
<1>4. ~HasRow(p, w) => row = fresh
  OBVIOUS
<1>5. row \in MemberRow
  BY <1>2, <1>3, <1>4
<1> HIDE DEF row, fresh
<1>6. /\ members' \in [PoolId -> [Wallet -> MemberRow \cup {NoRow}]]
      /\ members'[p][w] = row
      /\ \A q \in PoolId, v \in Wallet : q # p \/ v # w => members'[q][v] = members[q][v]
  BY <1>1, <1>5, RowReplaced
<1>7. RosterTypeOK'
  <2>1. \A q \in PoolId, v \in Wallet : HasRow(q, v)' => Registered(q)'
    BY <1>1, <1>6 DEF HasRow, Registered, RosterTypeOK
  <2> QED
    BY <2>1, <1>1, <1>6 DEF RosterTypeOK, Registered
<1>8. GatedNeedsApproval'
  <2> SUFFICES ASSUME NEW q \in PoolId, NEW v \in Wallet, Member(q, v)', pools'[q].gated
               PROVE  <<q, v>> \in approved'
    BY DEF GatedNeedsApproval
  <2>1. Member(q, v)
    <3>1. CASE q # p \/ v # w
      BY <3>1, <1>6 DEF Member, HasRow
    <3>2. CASE q = p /\ v = w
      <4>1. row.status = "member" /\ pools[p].gated
        BY <3>2, <1>1, <1>6 DEF Member
      <4>2. HasRow(p, w)
        BY <4>1, <1>4 DEF fresh, JoinStatus
      <4> QED
        BY <3>2, <4>1, <4>2, <1>3 DEF Member
    <3> QED
      BY <3>1, <3>2
  <2> QED
    BY <2>1, <1>1 DEF GatedNeedsApproval
<1>9. ASSUME NEW q \in PoolId, NEW v \in Wallet
      PROVE  RowKept(q, v)
  <2>1. CASE q # p \/ v # w
    BY <2>1, <1>6 DEF RowKept, Member, HasRow
  <2>2. CASE q = p /\ v = w
    <3>1. row # NoRow
      BY <1>5, RosterConstants DEF MemberRow
    <3> QED
      BY <2>2, <3>1, <1>3, <1>6 DEF RowKept, Member, HasRow
  <2> QED
    BY <2>1, <2>2
<1> QED
  BY <1>7, <1>8, <1>9

-----------------------------------------------------------------------------
(* The organizer's answers. *)

LEMMA StartStep ==
    ASSUME RosterInv, NEW r \in Response, NEW p \in PoolId, NEW caller \in Wallet,
           NEW w \in Wallet, NEW yes \in BOOLEAN, StartResponse(r, p, caller, w, yes)
    PROVE  RosterInv' /\ members' = members
<1>1. UNCHANGED <<pools, members, approved>>
  BY DEF StartResponse
<1>2. response' \in [Response -> {NoResponse}
          \cup [active : {TRUE}, pool : PoolId, wallet : Wallet, yes : BOOLEAN]]
  BY DEF StartResponse, RosterInv, RosterTypeOK
<1> QED
  BY <1>1, <1>2 DEF RosterInv, RosterTypeOK, GatedNeedsApproval, Registered, HasRow, Member

LEMMA RefuseStep ==
    ASSUME RosterInv, NEW r \in Response, RefuseResponse(r)
    PROVE  RosterInv' /\ members' = members
<1>1. UNCHANGED <<pools, members, approved>>
  BY DEF RefuseResponse
<1>2. response' \in [Response -> {NoResponse}
          \cup [active : {TRUE}, pool : PoolId, wallet : Wallet, yes : BOOLEAN]]
  BY DEF RefuseResponse, RosterInv, RosterTypeOK
<1> QED
  BY <1>1, <1>2 DEF RosterInv, RosterTypeOK, GatedNeedsApproval, Registered, HasRow, Member

(* An answer in progress names a pool and a wallet. *)
LEMMA ResponseType ==
    ASSUME RosterTypeOK, NEW r \in Response, response[r].active
    PROVE  /\ response[r].pool \in PoolId
           /\ response[r].wallet \in Wallet
           /\ response[r].yes \in BOOLEAN
<1>1. response[r] # NoResponse
  BY DEF NoResponse
<1>2. response[r] \in [active : {TRUE}, pool : PoolId, wallet : Wallet, yes : BOOLEAN]
  BY <1>1 DEF RosterTypeOK
<1> QED
  BY <1>2

LEMMA FinishStep ==
    ASSUME RosterInv, NEW r \in Response, FinishResponse(r)
    PROVE  /\ RosterInv'
           /\ \A q \in PoolId, v \in Wallet : RowKept(q, v)
<1> USE DEF RosterInv
<1> DEFINE p == response[r].pool
           w == response[r].wallet
           yes == response[r].yes
           row == IF yes THEN [members[p][w] EXCEPT !.status = "member"] ELSE NoRow
<1>1. p \in PoolId /\ w \in Wallet /\ yes \in BOOLEAN
  BY ResponseType DEF FinishResponse
<1>2. /\ Pending(p, w)
      /\ response' = [response EXCEPT ![r] = NoResponse]
      /\ pools' = pools
  BY DEF FinishResponse
<1>3. members[p][w] \in MemberRow /\ members[p][w].status = "pending" /\ HasRow(p, w)
  BY <1>1, <1>2, RowType DEF Pending
<1>4. yes => /\ row \in MemberRow
             /\ row.email = members[p][w].email
             /\ row.status = "member"
  BY <1>3 DEF MemberRow
<1>5. ~yes => row = NoRow
  OBVIOUS
<1>6. members' = [members EXCEPT ![p][w] = row]
  <2>1. CASE yes
    <3>1. members' = [members EXCEPT ![p][w].status = "member"]
      BY <2>1 DEF FinishResponse
    <3> QED
      BY <2>1, <3>1, <1>1, <1>3 DEF RosterTypeOK
  <2>2. CASE ~yes
    BY <2>2 DEF FinishResponse
  <2> QED
    BY <2>1, <2>2
<1>7. approved' = IF yes THEN approved \cup {<<p, w>>} ELSE approved
  BY DEF FinishResponse
<1>8. row \in MemberRow \cup {NoRow}
  BY <1>1, <1>4, <1>5
<1> HIDE DEF p, w, yes, row
<1>9. /\ members' \in [PoolId -> [Wallet -> MemberRow \cup {NoRow}]]
      /\ members'[p][w] = row
      /\ \A q \in PoolId, v \in Wallet : q # p \/ v # w => members'[q][v] = members[q][v]
  BY <1>1, <1>6, <1>8, RowReplaced, ZenonT(30)
<1>10. RosterTypeOK'
  <2>1. \A q \in PoolId, v \in Wallet : HasRow(q, v)' => Registered(q)'
    BY <1>1, <1>2, <1>3, <1>9 DEF HasRow, Registered, RosterTypeOK
  <2>2. response' \in [Response -> {NoResponse}
            \cup [active : {TRUE}, pool : PoolId, wallet : Wallet, yes : BOOLEAN]]
    BY <1>2 DEF RosterTypeOK
  <2>3. approved' \subseteq PoolId \X Wallet
    BY <1>1, <1>7 DEF RosterTypeOK
  <2> QED
    BY <2>1, <2>2, <2>3, <1>2, <1>9 DEF RosterTypeOK, Registered
<1>11. GatedNeedsApproval'
  <2> SUFFICES ASSUME NEW q \in PoolId, NEW v \in Wallet, Member(q, v)', pools'[q].gated
               PROVE  <<q, v>> \in approved'
    BY DEF GatedNeedsApproval
  <2>1. CASE q # p \/ v # w
    BY <2>1, <1>2, <1>7, <1>9 DEF GatedNeedsApproval, Member, HasRow
  <2>2. CASE q = p /\ v = w
    BY <2>2, <1>1, <1>5, <1>7, <1>9 DEF Member, HasRow
  <2> QED
    BY <2>1, <2>2
<1>12. ASSUME NEW q \in PoolId, NEW v \in Wallet
       PROVE  RowKept(q, v)
  <2>1. CASE q # p \/ v # w
    BY <2>1, <1>9 DEF RowKept, Member, HasRow
  <2>2. CASE q = p /\ v = w
    BY <2>2, <1>1, <1>3, <1>4, <1>5, <1>9 DEF RowKept, Member, HasRow
  <2> QED
    BY <2>1, <2>2
<1> QED
  BY <1>10, <1>11, <1>12

-----------------------------------------------------------------------------

(* A step that leaves the table alone keeps every row. *)
LEMMA SameRows ==
    ASSUME members' = members
    PROVE  \A q \in PoolId, v \in Wallet : RowKept(q, v)
BY DEF RowKept, Member, HasRow

LEMMA NextStep ==
    ASSUME RosterInv, [RosterNext]_rosterVars
    PROVE  /\ RosterInv'
           /\ \A q \in PoolId, v \in Wallet : RowKept(q, v)
<1>1. CASE UNCHANGED rosterVars
  <2>1. RosterInv'
    BY <1>1 DEF rosterVars, RosterInv, RosterTypeOK, GatedNeedsApproval, Registered, HasRow, Member
  <2> QED
    BY <1>1, <2>1, SameRows DEF rosterVars
<1>2. ASSUME NEW p \in PoolId, NEW w \in Wallet, NEW gated \in BOOLEAN, RegisterPool(p, w, gated)
      PROVE  RosterInv' /\ \A q \in PoolId, v \in Wallet : RowKept(q, v)
  BY <1>2, RegisterStep, SameRows
<1>3. ASSUME NEW p \in PoolId, NEW w \in Wallet, NEW email \in Email \cup {NoEmail},
             Join(p, w, email)
      PROVE  RosterInv' /\ \A q \in PoolId, v \in Wallet : RowKept(q, v)
  BY <1>3, JoinStep
<1>4. ASSUME NEW r \in Response, NEW p \in PoolId, NEW caller \in Wallet, NEW w \in Wallet,
             NEW yes \in BOOLEAN, StartResponse(r, p, caller, w, yes)
      PROVE  RosterInv' /\ \A q \in PoolId, v \in Wallet : RowKept(q, v)
  BY <1>4, StartStep, SameRows
<1>5. ASSUME NEW r \in Response, RefuseResponse(r)
      PROVE  RosterInv' /\ \A q \in PoolId, v \in Wallet : RowKept(q, v)
  BY <1>5, RefuseStep, SameRows
<1>6. ASSUME NEW r \in Response, FinishResponse(r)
      PROVE  RosterInv' /\ \A q \in PoolId, v \in Wallet : RowKept(q, v)
  BY <1>6, FinishStep
<1> QED
  BY <1>1, <1>2, <1>3, <1>4, <1>5, <1>6 DEF RosterNext

(* RosterInv holds in every reachable state of server.ts's two tables. *)
THEOREM RosterInvariant == RosterSpec => []RosterInv
<1>1. RosterInit => RosterInv
  BY InitInvariant
<1>2. RosterInv /\ [RosterNext]_rosterVars => RosterInv'
  BY NextStep
<1> QED
  BY <1>1, <1>2, PTL DEF RosterSpec

(* The tables stay well formed and every join code resolves to one pool     *)
(* (joinCodes.ts).                                                          *)
THEOREM RosterTypeCorrect == RosterSpec => []RosterTypeOK
<1>1. RosterInv => RosterTypeOK
  BY DEF RosterInv
<1> QED
  BY <1>1, RosterInvariant, PTL

(* Nobody gets into a gated pool without a yes of its organizer, whatever   *)
(* joins and answers race (POST /join, POST /requests/:wallet).             *)
THEOREM GatedPoolsAreGated == RosterSpec => []GatedNeedsApproval
<1>1. RosterInv => GatedNeedsApproval
  BY DEF RosterInv
<1> QED
  BY <1>1, RosterInvariant, PTL

(* No rejection that comes late and no second join removes a member, and   *)
(* no join of a wallet replaces the first e-mail known of it (COALESCE).   *)
THEOREM RowsAreKept == RosterSpec => RowsStay
<1>1. RosterInv /\ [RosterNext]_rosterVars =>
          [\A p \in PoolId, w \in Wallet : RowKept(p, w)]_rosterVars
  BY NextStep
<1> QED
  BY <1>1, RosterInvariant, PTL DEF RosterSpec, RowsStay

-----------------------------------------------------------------------------
(* The roster implements GatedPools. *)

Rules == [p \in PoolId |-> RuleOf(p)]
Positions == [p \in PoolId |-> [w \in Wallet |-> StandingOf(p, w)]]

LEMMA InitRefines == RosterInit => Gates!Init
BY DEF RosterInit, Gates!Init, RuleOf, StandingOf, Registered, Member, HasRow

(* What people see of a step that touches neither table. *)
LEMMA SilentStep ==
    ASSUME UNCHANGED <<pools, members>>
    PROVE  Rules' = Rules /\ Positions' = Positions
BY DEF Rules, Positions, RuleOf, StandingOf, Registered, Member, HasRow

LEMMA RegisterRefines ==
    ASSUME RosterInv, NEW p \in PoolId, NEW w \in Wallet, NEW gated \in BOOLEAN,
           RegisterPool(p, w, gated)
    PROVE  \E r \in {"open", "gated"} : Gates!Create(p, r)
<1> DEFINE r == IF gated THEN "gated" ELSE "open"
<1>1. PICK c \in Code :
          pools' = [pools EXCEPT ![p] = [code |-> c, organizer |-> w, gated |-> gated]]
  BY DEF RegisterPool
<1>2. pools \in [PoolId -> PoolRow \cup {NoRow}]
  BY DEF RosterInv, RosterTypeOK
<1>3. /\ pools'[p] = [code |-> c, organizer |-> w, gated |-> gated]
      /\ \A q \in PoolId \ {p} : pools'[q] = pools[q]
  BY <1>1, <1>2
<1>4. pools'[p] # NoRow /\ pools'[p].gated = gated
  BY <1>3, RosterConstants
<1>5. RuleOf(p)' = r
  BY <1>4 DEF RuleOf, Registered
<1>6. \A q \in PoolId \ {p} : RuleOf(q)' = RuleOf(q)
  BY <1>3 DEF RuleOf, Registered
<1>7. Rules' = [Rules EXCEPT ![p] = r]
  BY <1>5, <1>6 DEF Rules
<1>8. Rules[p] = "none"
  BY DEF RegisterPool, Rules, RuleOf
<1>9. Positions' = Positions
  BY DEF RegisterPool, Positions, StandingOf, Member, HasRow
<1>10. r \in {"open", "gated"}
  OBVIOUS
<1>11. Gates!Create(p, r)
  BY <1>7, <1>8, <1>9 DEF Gates!Create, Rules, Positions
<1> QED
  BY <1>10, <1>11

(* A step that changes one row moves one person. *)
LEMMA RowMoves ==
    ASSUME NEW p \in PoolId, NEW w \in Wallet, NEW from, NEW to,
           pools' = pools, StandingOf(p, w) = from, StandingOf(p, w)' = to,
           \A q \in PoolId, v \in Wallet : q # p \/ v # w => members'[q][v] = members[q][v]
    PROVE  Gates!Moves(p, w, from, to)
<1>1. \A q \in PoolId, v \in Wallet : q # p \/ v # w => StandingOf(q, v)' = StandingOf(q, v)
  BY DEF StandingOf, Member, HasRow
<1>2. Positions' = [Positions EXCEPT ![p] = [Positions[p] EXCEPT ![w] = to]]
  <2> DEFINE new == [v \in Wallet |-> StandingOf(p, v)']
  <2>1. new = [[v \in Wallet |-> StandingOf(p, v)] EXCEPT ![w] = to]
    BY <1>1
  <2>2. \A q \in PoolId \ {p} :
            [v \in Wallet |-> StandingOf(q, v)'] = [v \in Wallet |-> StandingOf(q, v)]
    BY <1>1
  <2>3. Positions' = [q \in PoolId |-> [v \in Wallet |-> StandingOf(q, v)']]
    BY DEF Positions
  <2>4. Positions' = [Positions EXCEPT ![p] = new]
    BY <2>2, <2>3 DEF Positions
  <2>5. Positions[p] = [v \in Wallet |-> StandingOf(p, v)]
    BY DEF Positions
  <2> QED
    BY <2>1, <2>4, <2>5
<1>3. Rules' = Rules
  BY DEF Rules, RuleOf, Registered
<1>4. Positions[p][w] = from
  BY DEF Positions
<1> QED
  BY <1>2, <1>3, <1>4 DEF Gates!Moves, Rules, Positions

LEMMA JoinRefines ==
    ASSUME RosterInv, NEW p \in PoolId, NEW w \in Wallet, NEW email \in Email \cup {NoEmail},
           Join(p, w, email)
    PROVE  \/ Gates!Enter(p, w) \/ Gates!Ask(p, w)
           \/ Rules' = Rules /\ Positions' = Positions
<1> DEFINE new == [status |-> JoinStatus(p), email |-> email]
           row == IF HasRow(p, w) THEN Rejoined(p, w, new) ELSE new
<1>1. /\ members' = [members EXCEPT ![p][w] = row]
      /\ pools' = pools /\ Registered(p)
  BY DEF Join
<1>2. new \in MemberRow /\ new.status = JoinStatus(p) /\ new.email = email
  BY DEF JoinStatus, MemberRow
<1>3. HasRow(p, w) => row \in MemberRow /\ row.status = members[p][w].status
  BY <1>2, RowType DEF RosterInv, Rejoined, MemberRow
<1>4. row \in MemberRow
  BY <1>2, <1>3
<1>5. ~HasRow(p, w) => row.status = JoinStatus(p)
  BY <1>2
<1> HIDE DEF new, row
<1>6. /\ members'[p][w] = row
      /\ \A q \in PoolId, v \in Wallet : q # p \/ v # w => members'[q][v] = members[q][v]
  BY <1>1, <1>4, RowReplaced, ZenonT(30) DEF RosterInv
<1>7. HasRow(p, w)'
  BY <1>4, <1>6, RosterConstants DEF HasRow, MemberRow
<1>8. CASE HasRow(p, w)
  <2>1. StandingOf(p, w)' = StandingOf(p, w)
    BY <1>3, <1>6, <1>7, <1>8 DEF StandingOf, Member
  <2>2. \A q \in PoolId, v \in Wallet : StandingOf(q, v)' = StandingOf(q, v)
    BY <1>6, <2>1 DEF StandingOf, Member, HasRow
  <2>3. Positions' = Positions
    BY <2>2 DEF Positions
  <2>4. Rules' = Rules
    BY <1>1 DEF Rules, RuleOf, Registered
  <2> QED
    BY <2>3, <2>4
<1>9. CASE ~HasRow(p, w)
  <2>1. StandingOf(p, w) = "outside"
    BY <1>9 DEF StandingOf, Member
  <2>2. CASE pools[p].gated
    <3>1. StandingOf(p, w)' = "waiting"
      BY <1>5, <1>6, <1>7, <1>9, <2>2 DEF StandingOf, Member, JoinStatus
    <3>2. Rules[p] = "gated"
      BY <1>1, <2>2 DEF Rules, RuleOf
    <3>3. Gates!Moves(p, w, "outside", "waiting")
      BY <1>1, <1>6, <2>1, <3>1, RowMoves
    <3> QED
      BY <3>2, <3>3 DEF Gates!Ask, Rules
  <2>3. CASE ~pools[p].gated
    <3>1. StandingOf(p, w)' = "inside"
      BY <1>5, <1>6, <1>7, <1>9, <2>3 DEF StandingOf, Member, JoinStatus
    <3>2. Rules[p] = "open"
      BY <1>1, <2>3 DEF Rules, RuleOf
    <3>3. Gates!Moves(p, w, "outside", "inside")
      BY <1>1, <1>6, <2>1, <3>1, RowMoves
    <3> QED
      BY <3>2, <3>3 DEF Gates!Enter, Rules
  <2> QED
    BY <2>2, <2>3
<1> QED
  BY <1>8, <1>9

LEMMA FinishRefines ==
    ASSUME RosterInv, NEW r \in Response, FinishResponse(r)
    PROVE  \E p \in PoolId, w \in Wallet : Gates!Accept(p, w) \/ Gates!Decline(p, w)
<1>1. response[r].pool \in PoolId /\ response[r].wallet \in Wallet
  BY ResponseType DEF FinishResponse, RosterInv
<1>2. PICK p \in PoolId, w \in Wallet : p = response[r].pool /\ w = response[r].wallet
  BY <1>1
<1>3. pools' = pools /\ members[p][w] \in MemberRow /\ members[p][w].status = "pending" /\ HasRow(p, w)
  <2>1. pools' = pools /\ Pending(p, w)
    BY <1>2 DEF FinishResponse
  <2> QED
    BY <2>1, RowType DEF Pending, RosterInv
<1>4. StandingOf(p, w) = "waiting"
  BY <1>3 DEF StandingOf, Member
<1>5. CASE response[r].yes
  <2> DEFINE row == [members[p][w] EXCEPT !.status = "member"]
  <2>1. members' = [members EXCEPT ![p][w].status = "member"]
    BY <1>2, <1>5 DEF FinishResponse
  <2>2. members' = [members EXCEPT ![p][w] = row]
    BY <2>1, <1>3 DEF RosterInv, RosterTypeOK
  <2>3. row \in MemberRow /\ row.status = "member"
    BY <1>3 DEF MemberRow
  <2> HIDE DEF row
  <2>4. /\ members'[p][w] = row
        /\ \A q \in PoolId, v \in Wallet : q # p \/ v # w => members'[q][v] = members[q][v]
    BY <2>2, <2>3, RowReplaced, ZenonT(30) DEF RosterInv
  <2>5. StandingOf(p, w)' = "inside"
    BY <2>3, <2>4, RosterConstants DEF StandingOf, Member, HasRow, MemberRow
  <2>6. Gates!Moves(p, w, "waiting", "inside")
    BY <1>3, <1>4, <2>4, <2>5, RowMoves
  <2> QED
    BY <2>6 DEF Gates!Accept
<1>6. CASE ~response[r].yes
  <2>1. members' = [members EXCEPT ![p][w] = NoRow]
    BY <1>2, <1>6 DEF FinishResponse
  <2>2. /\ members'[p][w] = NoRow
        /\ \A q \in PoolId, v \in Wallet : q # p \/ v # w => members'[q][v] = members[q][v]
    BY <2>1, RowReplaced, ZenonT(30) DEF RosterInv
  <2>3. StandingOf(p, w)' = "outside"
    BY <2>2 DEF StandingOf, Member, HasRow
  <2>4. Gates!Moves(p, w, "waiting", "outside")
    BY <1>3, <1>4, <2>2, <2>3, RowMoves
  <2> QED
    BY <2>4 DEF Gates!Decline
<1> QED
  BY <1>5, <1>6

LEMMA NextRefines ==
    ASSUME RosterInv, [RosterNext]_rosterVars
    PROVE  Gates!Next \/ (Rules' = Rules /\ Positions' = Positions)
<1>1. CASE UNCHANGED rosterVars
  BY <1>1, SilentStep DEF rosterVars
<1>2. ASSUME NEW p \in PoolId, NEW w \in Wallet, NEW gated \in BOOLEAN, RegisterPool(p, w, gated)
      PROVE  Gates!Next
  BY <1>2, RegisterRefines DEF Gates!Next
<1>3. ASSUME NEW p \in PoolId, NEW w \in Wallet, NEW email \in Email \cup {NoEmail},
             Join(p, w, email)
      PROVE  Gates!Next \/ (Rules' = Rules /\ Positions' = Positions)
  BY <1>3, JoinRefines DEF Gates!Next
<1>4. ASSUME NEW r \in Response, NEW p \in PoolId, NEW caller \in Wallet, NEW w \in Wallet,
             NEW yes \in BOOLEAN, StartResponse(r, p, caller, w, yes) \/ RefuseResponse(r)
      PROVE  Rules' = Rules /\ Positions' = Positions
  BY <1>4, SilentStep DEF StartResponse, RefuseResponse
<1>5. ASSUME NEW r \in Response, RefuseResponse(r)
      PROVE  Rules' = Rules /\ Positions' = Positions
  BY <1>5, SilentStep DEF RefuseResponse
<1>6. ASSUME NEW r \in Response, FinishResponse(r) PROVE Gates!Next
  BY <1>6, FinishRefines DEF Gates!Next
<1> QED
  BY <1>1, <1>2, <1>3, <1>4, <1>5, <1>6 DEF RosterNext

(***************************************************************************)
(* The handlers of server.ts, with what they read before their awaits and  *)
(* do after them, implement GatedPools: every step is one of its steps or  *)
(* changes nothing that people in and around a pool could tell.            *)
(***************************************************************************)
THEOREM RosterImplementsGatedPools == RosterSpec => RefinesGatedPools
<1>1. RosterInit => Gates!Init
  BY InitRefines
<1>2. RosterInv /\ [RosterNext]_rosterVars => [Gates!Next]_<<Rules, Positions>>
  BY NextRefines
<1> QED
  BY <1>1, <1>2, RosterInvariant, PTL DEF RosterSpec, RefinesGatedPools, Gates!Spec, Rules, Positions
=============================================================================

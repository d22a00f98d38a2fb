------------------------- MODULE FixtureSyncProofs -------------------------
(***************************************************************************)
(* What registration guarantees for any number of matches, of overlapping  *)
(* syncs and of runs of the tool, and any bound on what TxLINE, admins and *)
(* restarts do.                                                            *)
(***************************************************************************)
EXTENDS FixtureSync, TLAPS

(* The kickoffs of some of the matches: what a sync fetched or has to do. *)
Plan == UNION {[D -> KickoffTs] : D \in SUBSET FixtureId}

SyncState ==
    [step : Steps, by : Caller, fetched : Plan, todo : Plan, sent : FixtureId \cup {NoRow}]

(* A kickoff of the plan is one TxLINE announced for that match. *)
Told(plan) == \A f \in DOMAIN plan : plan[f] \in everTold[f]

(* Whatever a sync holds was announced, and it only waits to mark a row     *)
(* whose match is on the chain.                                            *)
SyncsAreTold ==
    \A s \in Sync :
        /\ sync[s].step = "fetched" => DOMAIN sync[s].fetched = FixtureId
        /\ Told(sync[s].fetched)
        /\ Told(sync[s].todo)
        /\ sync[s].step = "sent" => sync[s].sent \in FixtureId /\ Registered(sync[s].sent)

InFlightIsTold ==
    \A f \in FixtureId, t \in KickoffTs : <<f, t>> \in inFlight => t \in everTold[f]

SyncTypes ==
    /\ TypeOK
    /\ everTold \in [FixtureId -> SUBSET KickoffTs]
    /\ sync \in [Sync -> SyncState]

SyncInv ==
    /\ SyncTypes
    /\ SyncsAreTold
    /\ InFlightIsTold
    /\ MarkedIsOnChain
    /\ ChainKickoffWasAnnounced

-----------------------------------------------------------------------------

LEMMA EmptyPlan == << >> \in Plan /\ DOMAIN << >> = {}
<1>1. DOMAIN << >> = {}
  OBVIOUS
<1>2. << >> \in [{} -> KickoffTs]
  OBVIOUS
<1> QED
  BY <1>1, <1>2 DEF Plan

LEMMA PlanType ==
    ASSUME NEW D \in SUBSET FixtureId, NEW plan \in [D -> KickoffTs]
    PROVE  plan \in Plan /\ DOMAIN plan = D
BY DEF Plan

LEMMA PlanParts ==
    ASSUME NEW plan \in Plan
    PROVE  /\ DOMAIN plan \subseteq FixtureId
           /\ \A f \in DOMAIN plan : plan[f] \in KickoffTs
BY DEF Plan

(* Taking a match off a plan, or all but one side of it, leaves a plan. *)
LEMMA PlanPart ==
    ASSUME NEW plan \in Plan, NEW D \in SUBSET DOMAIN plan
    PROVE  /\ [f \in D |-> plan[f]] \in Plan
           /\ Told(plan) => Told([f \in D |-> plan[f]])
<1>1. D \in SUBSET FixtureId /\ [f \in D |-> plan[f]] \in [D -> KickoffTs]
  BY PlanParts
<1>2. [f \in D |-> plan[f]] \in Plan
  BY <1>1, PlanType
<1> QED
  BY <1>2 DEF Told

LEMMA IdleIsSync == IdleSync \in SyncState /\ Told(IdleSync.fetched) /\ Told(IdleSync.todo)
BY EmptyPlan DEF IdleSync, SyncState, Steps, Caller, Told

(* Seconds or milliseconds, the table gets seconds (toUnixSeconds,         *)
(* client.ts:95).                                                          *)
LEMMA UnitsAgree ==
    ASSUME NEW t \in KickoffTs, NEW unit \in {1, 1000}
    PROVE  toUnixSeconds(t * unit) = t
<1>1. t \in Nat /\ MsThreshold \in Nat /\ t <= MsThreshold /\ (t > 0 => t * 1000 > MsThreshold)
  BY SyncConstants
<1>2. CASE unit = 1
  BY <1>1, <1>2 DEF toUnixSeconds
<1>3. CASE unit = 1000
  <2>1. (t * 1000) \div 1000 = t
    BY <1>1
  <2> QED
    BY <1>1, <1>3, <2>1 DEF toUnixSeconds
<1> QED
  BY <1>2, <1>3

-----------------------------------------------------------------------------

(* What one step makes of one sync: it is well typed, holds only what was   *)
(* announced, and waits to mark only what is on the chain.                 *)
LEMMA SyncMoves ==
    ASSUME SyncInv, NEW s \in Sync, NEW q \in SyncState, sync' = [sync EXCEPT ![s] = q],
           UNCHANGED everTold,
           \A f \in FixtureId : Registered(f) => fixtures'[f] # NoAccount,
           q.step = "fetched" => DOMAIN q.fetched = FixtureId,
           Told(q.fetched), Told(q.todo),
           q.step = "sent" => q.sent \in FixtureId /\ fixtures'[q.sent] # NoAccount
    PROVE  sync' \in [Sync -> SyncState] /\ SyncsAreTold'
<1>1. sync' \in [Sync -> SyncState]
  BY DEF SyncInv, SyncTypes
<1>2. ASSUME NEW r \in Sync
      PROVE  /\ sync'[r].step = "fetched" => DOMAIN sync'[r].fetched = FixtureId
             /\ \A f \in DOMAIN sync'[r].fetched : sync'[r].fetched[f] \in everTold'[f]
             /\ \A f \in DOMAIN sync'[r].todo : sync'[r].todo[f] \in everTold'[f]
             /\ sync'[r].step = "sent" =>
                  sync'[r].sent \in FixtureId /\ fixtures'[sync'[r].sent] # NoAccount
  <2>1. CASE r = s
    <3>1. sync'[r] = q
      BY <2>1 DEF SyncInv, SyncTypes
    <3> QED
      BY <3>1 DEF Told
  <2>2. CASE r # s
    <3>1. sync'[r] = sync[r]
      BY <2>2 DEF SyncInv, SyncTypes
    <3> QED
      BY <3>1 DEF SyncInv, SyncsAreTold, Told, Registered
  <2> QED
    BY <2>1, <2>2
<1> QED
  BY <1>1, <1>2 DEF SyncsAreTold, Told, Registered

(* Nobody's sync moves, and no more is announced or less registered. *)
LEMMA SyncsStay ==
    ASSUME SyncInv, UNCHANGED sync,
           \A f \in FixtureId : everTold[f] \subseteq everTold'[f],
           \A f \in FixtureId : Registered(f) => fixtures'[f] # NoAccount
    PROVE  SyncsAreTold'
<1>1. ASSUME NEW r \in Sync
      PROVE  /\ DOMAIN sync[r].fetched \subseteq FixtureId
             /\ DOMAIN sync[r].todo \subseteq FixtureId
  <2>1. sync[r] \in SyncState
    BY DEF SyncInv, SyncTypes
  <2> QED
    BY <2>1, PlanParts DEF SyncState
<1> QED
  BY <1>1 DEF SyncInv, SyncsAreTold, Told, Registered

(* The part of TypeOK that is about the syncs follows from their type. *)
LEMMA SyncTypesSuffice ==
    ASSUME ChainTypeOK, sync \in [Sync -> SyncState], SyncsAreTold,
           everTold \in [FixtureId -> SUBSET KickoffTs],
           announced \in [FixtureId -> KickoffTs],
           \A f \in FixtureId : announced[f] \in everTold[f],
           rows \in [FixtureId -> Fixture \cup {NoRow}],
           inFlight \subseteq FixtureId \X KickoffTs,
           deletes \in 0..MaxDeletes, restarts \in 0..MaxRestarts
    PROVE  SyncTypes
<1>1. ASSUME NEW s \in Sync
      PROVE  /\ sync[s].step \in Steps
             /\ DOMAIN sync[s].todo \subseteq FixtureId
             /\ sync[s].step = "sent" => sync[s].sent \in FixtureId
  <2>1. sync[s] \in SyncState
    BY <1>1
  <2> QED
    BY <2>1, PlanParts DEF SyncState, SyncsAreTold
<1> QED
  BY <1>1 DEF SyncTypes, TypeOK

(* register_fixture, sent by the authority: fixtures are created once and   *)
(* stay, and nothing else changes (lib.rs:61-74).                          *)
LEMMA Registering ==
    ASSUME SyncTypes, NEW f \in FixtureId, NEW t \in KickoffTs,
           RegisterFixture(FixtureAuthority, f, t)
    PROVE  /\ ChainTypeOK'
           /\ fixtures' = [fixtures EXCEPT ![f] = t]
           /\ ~Registered(f) /\ fixtures'[f] = t /\ t # NoAccount
           /\ \A g \in FixtureId : Registered(g) => fixtures'[g] = fixtures[g]
BY ChainConstants DEF SyncTypes, TypeOK, ChainTypeOK, RegisterFixture, ValidKickoff, Registered, Registrable

LEMMA InitSyncInv == Init => SyncInv
<1> SUFFICES ASSUME Init PROVE SyncInv
  OBVIOUS
<1>1. ChainTypeOK
  BY ChainConstants DEF Init, ChainInit, ChainTypeOK
<1>2. sync \in [Sync -> SyncState]
  BY IdleIsSync DEF Init
<1>3. SyncsAreTold
  BY IdleIsSync DEF Init, SyncsAreTold, IdleSync, Told
<1>4. SyncTypes
  <2>1. everTold \in [FixtureId -> SUBSET KickoffTs]
    BY DEF Init
  <2>2. /\ announced \in [FixtureId -> KickoffTs]
        /\ \A f \in FixtureId : announced[f] \in everTold[f]
        /\ rows \in [FixtureId -> Fixture \cup {NoRow}]
        /\ inFlight \subseteq FixtureId \X KickoffTs
        /\ deletes \in 0..MaxDeletes /\ restarts \in 0..MaxRestarts
    BY SyncConstants DEF Init
  <2> QED
    BY <1>1, <1>2, <1>3, <2>1, <2>2, SyncTypesSuffice
<1>5. InFlightIsTold
  BY DEF Init, InFlightIsTold
<1>6. MarkedIsOnChain /\ ChainKickoffWasAnnounced
  BY DEF Init, ChainInit, MarkedIsOnChain, Marked, ChainKickoffWasAnnounced, Registered
<1> QED
  BY <1>3, <1>4, <1>5, <1>6 DEF SyncInv

-----------------------------------------------------------------------------

(* Everything a step of one sync has to respect.                           *)
LEMMA SyncStepInv ==
    ASSUME SyncInv, NEW s \in Sync, NEW q \in SyncState, sync' = [sync EXCEPT ![s] = q],
           UNCHANGED <<announced, everTold, deletes>>,
           restarts' \in 0..MaxRestarts,
           ChainTypeOK',
           \A f \in FixtureId : Registered(f) => fixtures'[f] = fixtures[f],
           \A f \in FixtureId :
               fixtures'[f] # NoAccount => Registered(f) \/ fixtures'[f] \in everTold[f],
           rows' \in [FixtureId -> Fixture \cup {NoRow}],
           \A f \in FixtureId :
               rows'[f] # NoRow /\ rows'[f].registered => Marked(f) \/ fixtures'[f] # NoAccount,
           inFlight' \subseteq FixtureId \X KickoffTs,
           \A f \in FixtureId, t \in KickoffTs : <<f, t>> \in inFlight' => t \in everTold[f],
           q.step = "fetched" => DOMAIN q.fetched = FixtureId,
           Told(q.fetched), Told(q.todo),
           q.step = "sent" => q.sent \in FixtureId /\ fixtures'[q.sent] # NoAccount
    PROVE  SyncInv'
<1>1. \A f \in FixtureId : Registered(f) => fixtures'[f] # NoAccount
  BY DEF Registered
<1>2. sync' \in [Sync -> SyncState] /\ SyncsAreTold'
  BY <1>1, SyncMoves
<1>3. SyncTypes'
  <2>1. /\ everTold' \in [FixtureId -> SUBSET KickoffTs]
        /\ announced' \in [FixtureId -> KickoffTs]
        /\ \A f \in FixtureId : announced'[f] \in everTold'[f]
        /\ deletes' \in 0..MaxDeletes
    BY DEF SyncInv, SyncTypes, TypeOK
  <2>2. ASSUME NEW r \in Sync
        PROVE  /\ sync'[r].step \in Steps
               /\ DOMAIN sync'[r].todo \subseteq FixtureId
               /\ sync'[r].step = "sent" => sync'[r].sent \in FixtureId
    <3>1. sync'[r] \in SyncState
      BY <1>2
    <3> QED
      BY <1>2, <3>1, PlanParts DEF SyncState, SyncsAreTold
  <2>3. TypeOK'
    <3>1. \A f \in FixtureId : everTold'[f] \subseteq KickoffTs
      BY <2>1
    <3> QED
      BY <2>1, <2>2, <3>1 DEF TypeOK
  <2> QED
    BY <1>2, <2>1, <2>3 DEF SyncTypes
<1>4. InFlightIsTold'
  BY DEF InFlightIsTold
<1>5. MarkedIsOnChain'
  BY <1>1 DEF SyncInv, MarkedIsOnChain, Marked, Registered
<1>6. ChainKickoffWasAnnounced'
  BY DEF SyncInv, ChainKickoffWasAnnounced, Registered
<1> QED
  BY <1>2, <1>3, <1>4, <1>5, <1>6 DEF SyncInv

(* A step of one sync that leaves the world alone. *)
LEMMA SyncOnly ==
    ASSUME SyncInv, NEW s \in Sync, NEW q \in SyncState, sync' = [sync EXCEPT ![s] = q],
           UNCHANGED <<chainVars, announced, everTold, rows, inFlight, deletes>>,
           restarts' \in 0..MaxRestarts,
           q.step = "fetched" => DOMAIN q.fetched = FixtureId,
           Told(q.fetched), Told(q.todo), q.step # "sent"
    PROVE  SyncInv'
<1>1. ChainTypeOK' /\ UNCHANGED fixtures
  BY DEF SyncInv, SyncTypes, TypeOK, ChainTypeOK, chainVars
<1>2. /\ rows' \in [FixtureId -> Fixture \cup {NoRow}]
      /\ inFlight' \subseteq FixtureId \X KickoffTs
  BY DEF SyncInv, SyncTypes, TypeOK
<1>3. \A f \in FixtureId, t \in KickoffTs : <<f, t>> \in inFlight' => t \in everTold[f]
  BY DEF SyncInv, InFlightIsTold
<1>4. \A f \in FixtureId : fixtures'[f] # NoAccount => Registered(f)
  BY <1>1 DEF Registered
<1>5. \A f \in FixtureId : rows'[f] # NoRow /\ rows'[f].registered => Marked(f)
  BY DEF Marked
<1> QED
  BY <1>1, <1>2, <1>3, <1>4, <1>5, SyncStepInv

LEMMA FetchInv ==
    ASSUME SyncInv, NEW s \in Sync, Fetch(s)
    PROVE  SyncInv'
<1> DEFINE InSeconds(unit) == [f \in FixtureId |-> toUnixSeconds(announced[f] * unit)]
<1>1. PICK unit \in {1, 1000}, by \in Caller :
          sync' = [sync EXCEPT ![s] = [@ EXCEPT !.step = "fetched", !.by = by,
                                                !.fetched = InSeconds(unit)]]
  BY ZenonT(30) DEF Fetch
<1>2. PICK plan : plan = InSeconds(unit)
  OBVIOUS
<1>3. announced \in [FixtureId -> KickoffTs]
  BY DEF SyncInv, SyncTypes, TypeOK
<1>4. \A f \in FixtureId : plan[f] = announced[f]
  BY <1>2, <1>3, UnitsAgree
<1>5. plan \in Plan /\ DOMAIN plan = FixtureId
  <2>1. \A f \in FixtureId : plan[f] \in KickoffTs
    BY <1>3, <1>4
  <2>2. plan = [f \in FixtureId |-> plan[f]]
    BY <1>2, Zenon
  <2>3. plan \in [FixtureId -> KickoffTs]
    BY <2>1, <2>2, Zenon
  <2> QED
    BY <2>3, PlanType, Zenon
<1>6. Told(plan)
  <2>1. \A f \in FixtureId : plan[f] \in everTold[f]
    BY <1>4 DEF SyncInv, SyncTypes, TypeOK
  <2> QED
    BY <1>5, <2>1 DEF Told
<1>7. Told(sync[s].todo)
  BY DEF SyncInv, SyncsAreTold
<1> HIDE DEF InSeconds
<1>8. sync' = [sync EXCEPT ![s] = [@ EXCEPT !.step = "fetched", !.by = by, !.fetched = plan]]
  BY <1>1, <1>2
<1>9. PICK q \in SyncState :
          /\ sync' = [sync EXCEPT ![s] = q]
          /\ q.step = "fetched" /\ q.fetched = plan /\ q.todo = sync[s].todo
  <2>1. sync \in [Sync -> SyncState] /\ sync[s] \in SyncState
    BY DEF SyncInv, SyncTypes
  <2> DEFINE q == [sync[s] EXCEPT !.step = "fetched", !.by = by, !.fetched = plan]
  <2>2. sync' = [sync EXCEPT ![s] = q]
    BY <1>8, <2>1
  <2>3. q \in SyncState
    BY <1>5, <2>1 DEF SyncState, Steps
  <2>4. q.step = "fetched" /\ q.fetched = plan /\ q.todo = sync[s].todo
    BY <2>1 DEF SyncState
  <2> HIDE DEF q
  <2> QED
    BY <2>2, <2>3, <2>4, ZenonT(30)
<1>10. /\ UNCHANGED <<chainVars, announced, everTold, rows, inFlight, deletes>>
       /\ restarts' \in 0..MaxRestarts
  BY DEF Fetch, SyncInv, SyncTypes, TypeOK
<1>11. /\ q.step = "fetched" => DOMAIN q.fetched = FixtureId
       /\ Told(q.fetched) /\ Told(q.todo) /\ q.step # "sent"
  BY <1>5, <1>6, <1>7, <1>9
<1> QED
  BY <1>9, <1>10, <1>11, SyncOnly, ZenonT(30)

LEMMA IdleInv ==
    ASSUME SyncInv, NEW s \in Sync, LoopEnds(s) \/ Restart(s)
    PROVE  SyncInv'
<1>1. /\ sync' = [sync EXCEPT ![s] = IdleSync]
      /\ UNCHANGED <<chainVars, announced, everTold, rows, inFlight, deletes>>
  BY DEF LoopEnds, Restart
<1>2. restarts' \in 0..MaxRestarts
  BY SyncConstants DEF SyncInv, SyncTypes, TypeOK, LoopEnds, Restart
<1>3. IdleSync.step = "idle"
  BY DEF IdleSync
<1> QED
  BY <1>1, <1>2, <1>3, IdleIsSync, SyncOnly

LEMMA UpsertInv ==
    ASSUME SyncInv, NEW s \in Sync, Upsert(s)
    PROVE  SyncInv'
<1>1. /\ sync \in [Sync -> SyncState] /\ sync[s] \in SyncState
      /\ rows \in [FixtureId -> Fixture \cup {NoRow}]
  BY DEF SyncInv, SyncTypes, TypeOK
<1>2. PICK fetched : fetched = sync[s].fetched
  OBVIOUS
<1>3. fetched \in Plan /\ DOMAIN fetched = FixtureId /\ Told(fetched)
  BY <1>1, <1>2 DEF Upsert, SyncInv, SyncsAreTold, SyncState
<1>4. \A f \in FixtureId : fetched[f] \in KickoffTs
  BY <1>3, PlanParts
<1>5. PICK todo : todo = IF sync[s].by = "tool" THEN CliTodo(fetched) ELSE PendingAfter(fetched)
  OBVIOUS
<1>6. todo \in Plan /\ Told(todo)
  <2>1. CASE sync[s].by = "tool"
    BY <1>3, <1>5, <2>1 DEF CliTodo
  <2>2. CASE sync[s].by # "tool"
    <3>1. PICK D \in SUBSET FixtureId : todo = [f \in D |-> fetched[f]]
      BY <1>5, <2>2 DEF PendingAfter
    <3> QED
      BY <1>3, <3>1, PlanPart
  <2> QED
    BY <2>1, <2>2
<1>7. PICK q \in SyncState :
          /\ sync' = [sync EXCEPT ![s] = q]
          /\ q.step = "registering" /\ q.fetched = << >> /\ q.todo = todo
  <2> DEFINE q == [sync[s] EXCEPT !.step = "registering", !.fetched = << >>, !.todo = todo]
  <2>1. sync' = [sync EXCEPT ![s] = q]
    BY <1>1, <1>2, <1>5 DEF Upsert
  <2>2. q \in SyncState
    BY <1>1, <1>6, EmptyPlan DEF SyncState, Steps
  <2>3. q.step = "registering" /\ q.fetched = << >> /\ q.todo = todo
    BY <1>1 DEF SyncState
  <2> HIDE DEF q
  <2> QED
    BY <2>1, <2>2, <2>3
<1>8. /\ UNCHANGED <<chainVars, announced, everTold, inFlight, deletes, restarts>>
      /\ rows' = [f \in FixtureId |-> Upserted(f, fetched[f])]
  BY <1>2 DEF Upsert
<1>9. /\ ChainTypeOK' /\ UNCHANGED fixtures
      /\ restarts' \in 0..MaxRestarts
      /\ inFlight' \subseteq FixtureId \X KickoffTs
      /\ \A f \in FixtureId, t \in KickoffTs : <<f, t>> \in inFlight' => t \in everTold[f]
  BY <1>8 DEF SyncInv, SyncTypes, TypeOK, ChainTypeOK, chainVars, InFlightIsTold
<1>10. rows' \in [FixtureId -> Fixture \cup {NoRow}]
  <2>1. \A f \in FixtureId : Marked(f) \in BOOLEAN
    BY <1>1 DEF Marked, Fixture
  <2> QED
    BY <1>4, <1>8, <2>1 DEF Upserted, Fixture
<1>11. \A f \in FixtureId : rows'[f] # NoRow /\ rows'[f].registered => Marked(f)
  BY <1>8 DEF Upserted
<1>12. \A f \in FixtureId : fixtures'[f] # NoAccount => Registered(f)
  BY <1>9 DEF Registered
<1>13. /\ q.step = "fetched" => DOMAIN q.fetched = FixtureId
       /\ Told(q.fetched) /\ Told(q.todo) /\ q.step # "sent"
  BY <1>6, <1>7, EmptyPlan DEF Told
<1> QED
  BY <1>7, <1>8, <1>9, <1>10, <1>11, <1>12, <1>13, SyncStepInv

(* An answer takes the match off the plan, or ends the plan of the tool;    *)
(* only an answer that counts makes a sync wait to mark.                   *)
LEMMA AnsweredSync ==
    ASSUME SyncInv, NEW s \in Sync, NEW f \in FixtureId, NEW answer \in {"Ok", "InUse", "Failed"},
           Sending(s, f), Answered(s, f, answer)
    PROVE  \E q \in SyncState :
              /\ sync' = [sync EXCEPT ![s] = q]
              /\ q.fetched = sync[s].fetched /\ Told(q.todo)
              /\ q.step \in {"registering", "sent"}
              /\ q.step = "sent" => q.sent = f /\ Counts(answer)
<1>1. sync \in [Sync -> SyncState] /\ sync[s] \in SyncState
  BY DEF SyncInv, SyncTypes
<1>2. sync[s].step = "registering" /\ Told(sync[s].todo)
  BY DEF Sending, SyncInv, SyncsAreTold
<1>3. PICK plan : plan = sync[s].todo
  OBVIOUS
<1>4. plan \in Plan /\ Told(plan)
  BY <1>1, <1>2, <1>3 DEF SyncState
<1>5. PICK rest : rest = Rest(plan, f)
  OBVIOUS
<1>6. rest \in Plan /\ Told(rest)
  <2>1. DOMAIN plan \ {f} \in SUBSET DOMAIN plan
    OBVIOUS
  <2> QED
    BY <1>4, <1>5, <2>1, PlanPart DEF Rest
<1>7. CASE sync[s].by = "tool"
  <2>1. PICK todo : todo = IF answer = "Failed" THEN << >> ELSE rest
    OBVIOUS
  <2>2. todo \in Plan /\ Told(todo)
    BY <1>6, <2>1, EmptyPlan DEF Told
  <2>3. sync' = [sync EXCEPT ![s] = [@ EXCEPT !.todo = todo]]
    <3>1. sync' = [sync EXCEPT ![s] = [@ EXCEPT !.todo = CliTodoAfter(sync[s].todo, f, answer)]]
      BY <1>7 DEF Answered, CliAnswered
    <3>2. CliTodoAfter(sync[s].todo, f, answer) = todo
      BY <1>3, <1>5, <2>1 DEF CliTodoAfter
    <3> QED
      BY <3>1, <3>2
  <2> DEFINE q == [sync[s] EXCEPT !.todo = todo]
  <2>4. sync' = [sync EXCEPT ![s] = q]
    BY <1>1, <2>3
  <2>5. q \in SyncState
    BY <1>1, <2>2 DEF SyncState
  <2>6. q.fetched = sync[s].fetched /\ q.todo = todo /\ q.step = "registering"
    BY <1>1, <1>2 DEF SyncState
  <2> HIDE DEF q
  <2> QED
    BY <2>2, <2>4, <2>5, <2>6
<1>8. CASE sync[s].by # "tool"
  <2>1. PICK step : step = IF Counts(answer) THEN "sent" ELSE "registering"
    OBVIOUS
  <2>2. PICK sent : sent = IF Counts(answer) THEN f ELSE NoRow
    OBVIOUS
  <2>3. sync' = [sync EXCEPT ![s] = [@ EXCEPT !.todo = rest, !.step = step, !.sent = sent]]
    <3>1. TodoAfter(sync[s].todo, f, answer) = rest
      BY <1>3, <1>5 DEF TodoAfter
    <3>2. sync' = [sync EXCEPT ![s] =
              [@ EXCEPT !.todo = TodoAfter(sync[s].todo, f, answer),
                        !.step = IF Counts(answer) THEN "sent" ELSE "registering",
                        !.sent = IF Counts(answer) THEN f ELSE NoRow]]
      BY <1>8 DEF Answered, SyncAnswered
    <3> QED
      BY <2>1, <2>2, <3>1, <3>2
  <2> DEFINE q == [sync[s] EXCEPT !.todo = rest, !.step = step, !.sent = sent]
  <2>4. sync' = [sync EXCEPT ![s] = q]
    BY <1>1, <2>3
  <2>5. step \in Steps /\ sent \in FixtureId \cup {NoRow}
    BY <2>1, <2>2 DEF Steps
  <2>6. q \in SyncState
    BY <1>1, <1>6, <2>5 DEF SyncState
  <2>7. q.fetched = sync[s].fetched /\ q.todo = rest /\ q.step = step /\ q.sent = sent
    BY <1>1 DEF SyncState
  <2> HIDE DEF q
  <2> QED
    BY <1>6, <2>1, <2>2, <2>4, <2>6, <2>7
<1> QED
  BY <1>7, <1>8

LEMMA RegisterAnsweredInv ==
    ASSUME SyncInv, NEW s \in Sync, NEW f \in FixtureId, RegisterAnswered(s, f)
    PROVE  SyncInv'
<1>1. PICK kickoff : kickoff = sync[s].todo[f]
  OBVIOUS
<1>2. PICK answer : answer = RegisterOutcome(f, kickoff)
  OBVIOUS
<1>3. answer \in {"Ok", "InUse", "Failed"}
  BY <1>2 DEF RegisterOutcome
<1>4. kickoff \in KickoffTs /\ kickoff \in everTold[f]
  <2>1. sync[s] \in SyncState /\ f \in DOMAIN sync[s].todo
    BY DEF RegisterAnswered, Sending, SyncInv, SyncTypes
  <2>2. sync[s].todo[f] \in KickoffTs
    BY <2>1, PlanParts DEF SyncState
  <2> QED
    BY <1>1, <2>1, <2>2 DEF SyncInv, SyncsAreTold, Told
<1>5. Sending(s, f) /\ Answered(s, f, answer)
  BY <1>1, <1>2 DEF RegisterAnswered
<1>6. PICK q \in SyncState :
          /\ sync' = [sync EXCEPT ![s] = q]
          /\ q.fetched = sync[s].fetched /\ Told(q.todo)
          /\ q.step \in {"registering", "sent"}
          /\ q.step = "sent" => q.sent = f /\ Counts(answer)
  BY <1>3, <1>5, AnsweredSync
<1>7. /\ ChainTypeOK'
      /\ \A g \in FixtureId : Registered(g) => fixtures'[g] = fixtures[g]
      /\ \A g \in FixtureId :
            fixtures'[g] # NoAccount => Registered(g) \/ fixtures'[g] \in everTold[g]
      /\ Counts(answer) => fixtures'[f] # NoAccount
  <2>1. CASE answer = "Ok"
    <3>1. RegisterFixture(FixtureAuthority, f, kickoff)
      BY <1>1, <1>2, <2>1 DEF RegisterAnswered
    <3>2. /\ ChainTypeOK'
          /\ fixtures' = [fixtures EXCEPT ![f] = kickoff]
          /\ fixtures'[f] = kickoff /\ kickoff # NoAccount
          /\ \A g \in FixtureId : Registered(g) => fixtures'[g] = fixtures[g]
      BY <1>4, <3>1, Registering DEF SyncInv
    <3>3. \A g \in FixtureId \ {f} : fixtures'[g] = fixtures[g]
      BY <3>2 DEF SyncInv, SyncTypes, TypeOK, ChainTypeOK
    <3> QED
      BY <1>4, <3>2, <3>3 DEF Registered
  <2>2. CASE answer # "Ok"
    <3>1. UNCHANGED chainVars
      BY <1>1, <1>2, <2>2 DEF RegisterAnswered
    <3>2. Counts(answer) => Registered(f)
      BY <1>2, <1>3, <2>2 DEF Counts, RegisterOutcome
    <3>3. ChainTypeOK' /\ fixtures' = fixtures
      BY <3>1 DEF SyncInv, SyncTypes, TypeOK, ChainTypeOK, chainVars
    <3> QED
      BY <3>2, <3>3 DEF Registered
  <2> QED
    BY <2>1, <2>2
<1>8. UNCHANGED <<announced, everTold, rows, inFlight, deletes, restarts>>
  BY DEF RegisterAnswered
<1>9. /\ restarts' \in 0..MaxRestarts
      /\ rows' \in [FixtureId -> Fixture \cup {NoRow}]
      /\ \A g \in FixtureId : rows'[g] # NoRow /\ rows'[g].registered => Marked(g)
      /\ inFlight' \subseteq FixtureId \X KickoffTs
      /\ \A g \in FixtureId, t \in KickoffTs : <<g, t>> \in inFlight' => t \in everTold[g]
  BY <1>8 DEF SyncInv, SyncTypes, TypeOK, InFlightIsTold, Marked
<1>10. Told(q.fetched) /\ q.step # "fetched"
  BY <1>6 DEF SyncInv, SyncsAreTold
<1>11. q.step = "sent" => q.sent \in FixtureId /\ fixtures'[q.sent] # NoAccount
  BY <1>6, <1>7
<1> QED
  BY <1>6, <1>7, <1>8, <1>9, <1>10, <1>11, SyncStepInv

(* A transaction without an answer may still land; it holds what was told. *)
LEMMA RegisterFailsInv ==
    ASSUME SyncInv, NEW s \in Sync, NEW f \in FixtureId, RegisterFails(s, f)
    PROVE  SyncInv'
<1>1. PICK kickoff : kickoff = sync[s].todo[f]
  OBVIOUS
<1>2. kickoff \in KickoffTs /\ kickoff \in everTold[f]
  <2>1. sync[s] \in SyncState /\ f \in DOMAIN sync[s].todo
    BY DEF RegisterFails, Sending, SyncInv, SyncTypes
  <2>2. sync[s].todo[f] \in KickoffTs
    BY <2>1, PlanParts DEF SyncState
  <2> QED
    BY <1>1, <2>1, <2>2 DEF SyncInv, SyncsAreTold, Told
<1>3. Sending(s, f) /\ Answered(s, f, "Failed")
  BY DEF RegisterFails
<1>4. PICK q \in SyncState :
          /\ sync' = [sync EXCEPT ![s] = q]
          /\ q.fetched = sync[s].fetched /\ Told(q.todo)
          /\ q.step \in {"registering", "sent"}
          /\ q.step = "sent" => q.sent = f /\ Counts("Failed")
  BY <1>3, AnsweredSync
<1>5. UNCHANGED <<chainVars, announced, everTold, rows, deletes, restarts>>
  BY DEF RegisterFails
<1>6. ChainTypeOK' /\ UNCHANGED fixtures
  BY <1>5 DEF SyncInv, SyncTypes, TypeOK, ChainTypeOK, chainVars
<1>7. /\ restarts' \in 0..MaxRestarts
      /\ rows' \in [FixtureId -> Fixture \cup {NoRow}]
      /\ \A g \in FixtureId : rows'[g] # NoRow /\ rows'[g].registered => Marked(g)
  BY <1>5 DEF SyncInv, SyncTypes, TypeOK, Marked
<1>8. inFlight' \subseteq inFlight \cup {<<f, kickoff>>}
  BY <1>1 DEF RegisterFails
<1>9. /\ inFlight' \subseteq FixtureId \X KickoffTs
      /\ \A g \in FixtureId, t \in KickoffTs : <<g, t>> \in inFlight' => t \in everTold[g]
  BY <1>2, <1>8 DEF SyncInv, SyncTypes, TypeOK, InFlightIsTold
<1>10. Told(q.fetched) /\ q.step # "fetched" /\ q.step # "sent"
  BY <1>4 DEF SyncInv, SyncsAreTold, Counts
<1>11. \A g \in FixtureId : fixtures'[g] # NoAccount => Registered(g)
  BY <1>6 DEF Registered
<1> QED
  BY <1>4, <1>5, <1>6, <1>7, <1>9, <1>10, <1>11, SyncStepInv

(* A sync waits to mark only what the chain knows, and the chain forgets    *)
(* nothing.                                                                *)
LEMMA MarkInv ==
    ASSUME SyncInv, NEW s \in Sync, Mark(s)
    PROVE  SyncInv'
<1>1. /\ sync \in [Sync -> SyncState] /\ sync[s] \in SyncState
      /\ rows \in [FixtureId -> Fixture \cup {NoRow}]
  BY DEF SyncInv, SyncTypes, TypeOK
<1>2. sync[s].step = "sent" /\ sync[s].sent \in FixtureId /\ Registered(sync[s].sent)
  BY DEF Mark, SyncInv, SyncsAreTold
<1>3. PICK q \in SyncState :
          /\ sync' = [sync EXCEPT ![s] = q]
          /\ q.step = "registering" /\ q.fetched = sync[s].fetched /\ q.todo = sync[s].todo
  <2> DEFINE q == [sync[s] EXCEPT !.step = "registering", !.sent = NoRow]
  <2>1. sync' = [sync EXCEPT ![s] = q]
    BY <1>1 DEF Mark
  <2>2. q \in SyncState
    BY <1>1 DEF SyncState, Steps
  <2>3. q.step = "registering" /\ q.fetched = sync[s].fetched /\ q.todo = sync[s].todo
    BY <1>1 DEF SyncState
  <2> HIDE DEF q
  <2> QED
    BY <2>1, <2>2, <2>3
<1>4. UNCHANGED <<chainVars, announced, everTold, inFlight, deletes, restarts>>
  BY DEF Mark
<1>5. ChainTypeOK' /\ UNCHANGED fixtures
  BY <1>4 DEF SyncInv, SyncTypes, TypeOK, ChainTypeOK, chainVars
<1>6. PICK sent : sent = sync[s].sent
  OBVIOUS
<1>7. rows' = [f \in FixtureId |->
          IF f = sent /\ rows[f] # NoRow THEN [rows[f] EXCEPT !.registered = TRUE] ELSE rows[f]]
  BY <1>6 DEF Mark
<1>8. \A f \in FixtureId : rows[f] # NoRow => rows[f] \in Fixture
  BY <1>1
<1>9. rows' \in [FixtureId -> Fixture \cup {NoRow}]
  <2>1. \A f \in FixtureId : rows[f] # NoRow => [rows[f] EXCEPT !.registered = TRUE] \in Fixture
    BY <1>8 DEF Fixture
  <2> QED
    BY <1>1, <1>7, <2>1
<1>10. \A f \in FixtureId : rows'[f] # NoRow /\ rows'[f].registered => Marked(f) \/ f = sent
  BY <1>7 DEF Marked
<1>11. \A f \in FixtureId :
          rows'[f] # NoRow /\ rows'[f].registered => Marked(f) \/ fixtures'[f] # NoAccount
  BY <1>2, <1>5, <1>6, <1>10 DEF Registered
<1>12. /\ restarts' \in 0..MaxRestarts
       /\ inFlight' \subseteq FixtureId \X KickoffTs
       /\ \A g \in FixtureId, t \in KickoffTs : <<g, t>> \in inFlight' => t \in everTold[g]
  BY <1>4 DEF SyncInv, SyncTypes, TypeOK, InFlightIsTold
<1>13. Told(q.fetched) /\ Told(q.todo) /\ q.step # "fetched" /\ q.step # "sent"
  BY <1>3 DEF SyncInv, SyncsAreTold
<1>14. \A g \in FixtureId : fixtures'[g] # NoAccount => Registered(g)
  BY <1>5 DEF Registered
<1> QED
  BY <1>3, <1>4, <1>5, <1>9, <1>11, <1>12, <1>13, <1>14, SyncStepInv

-----------------------------------------------------------------------------

(* Steps of the world: no sync moves. *)
LEMMA WorldInv ==
    ASSUME SyncInv, UNCHANGED sync,
           ChainTypeOK',
           everTold' \in [FixtureId -> SUBSET KickoffTs],
           announced' \in [FixtureId -> KickoffTs],
           \A f \in FixtureId : announced'[f] \in everTold'[f],
           \A f \in FixtureId : everTold[f] \subseteq everTold'[f],
           \A f \in FixtureId : Registered(f) => fixtures'[f] = fixtures[f],
           \A f \in FixtureId :
               fixtures'[f] # NoAccount => Registered(f) \/ fixtures'[f] \in everTold[f],
           rows' \in [FixtureId -> Fixture \cup {NoRow}],
           \A f \in FixtureId : rows'[f] # NoRow /\ rows'[f].registered => Marked(f),
           inFlight' \subseteq inFlight,
           deletes' \in 0..MaxDeletes, restarts' \in 0..MaxRestarts
    PROVE  SyncInv'
<1>1. \A f \in FixtureId : Registered(f) => fixtures'[f] # NoAccount
  BY DEF Registered
<1>2. SyncsAreTold'
  BY <1>1, SyncsStay
<1>3. /\ sync' \in [Sync -> SyncState]
      /\ inFlight' \subseteq FixtureId \X KickoffTs
  BY DEF SyncInv, SyncTypes, TypeOK
<1>4. ASSUME NEW r \in Sync
      PROVE  /\ sync'[r].step \in Steps
             /\ DOMAIN sync'[r].todo \subseteq FixtureId
             /\ sync'[r].step = "sent" => sync'[r].sent \in FixtureId
  BY DEF SyncInv, SyncTypes, TypeOK
<1>5. SyncTypes'
  <2>1. \A f \in FixtureId : everTold'[f] \subseteq KickoffTs
    OBVIOUS
  <2>2. TypeOK'
    BY <1>3, <1>4, <2>1 DEF TypeOK
  <2> QED
    BY <1>3, <2>2 DEF SyncTypes
<1>6. InFlightIsTold'
  BY DEF SyncInv, InFlightIsTold
<1>7. MarkedIsOnChain'
  BY <1>1 DEF SyncInv, MarkedIsOnChain, Marked, Registered
<1>8. ChainKickoffWasAnnounced'
  BY DEF SyncInv, ChainKickoffWasAnnounced, Registered
<1> QED
  BY <1>2, <1>5, <1>6, <1>7, <1>8 DEF SyncInv

LEMMA RescheduleInv ==
    ASSUME SyncInv, NEW f \in FixtureId, NEW t \in KickoffTs, Reschedule(f, t)
    PROVE  SyncInv'
<1>1. /\ announced \in [FixtureId -> KickoffTs]
      /\ everTold \in [FixtureId -> SUBSET KickoffTs]
      /\ \A g \in FixtureId : announced[g] \in everTold[g]
  BY DEF SyncInv, SyncTypes, TypeOK
<1>2. /\ announced' = [announced EXCEPT ![f] = t]
      /\ everTold' = [everTold EXCEPT ![f] = @ \cup {t}]
      /\ UNCHANGED <<chainVars, rows, sync, inFlight, deletes, restarts>>
  BY DEF Reschedule
<1>3. /\ announced' \in [FixtureId -> KickoffTs]
      /\ everTold' \in [FixtureId -> SUBSET KickoffTs]
      /\ \A g \in FixtureId : announced'[g] \in everTold'[g]
      /\ \A g \in FixtureId : everTold[g] \subseteq everTold'[g]
  BY <1>1, <1>2
<1>4. ChainTypeOK' /\ UNCHANGED fixtures
  BY <1>2 DEF SyncInv, SyncTypes, TypeOK, ChainTypeOK, chainVars
<1>5. \A g \in FixtureId : fixtures'[g] # NoAccount => Registered(g)
  BY <1>4 DEF Registered
<1>6. /\ rows' \in [FixtureId -> Fixture \cup {NoRow}]
      /\ \A g \in FixtureId : rows'[g] # NoRow /\ rows'[g].registered => Marked(g)
      /\ inFlight' \subseteq inFlight
      /\ deletes' \in 0..MaxDeletes /\ restarts' \in 0..MaxRestarts
  BY <1>2 DEF SyncInv, SyncTypes, TypeOK, Marked
<1> QED
  BY <1>2, <1>3, <1>4, <1>5, <1>6, WorldInv

LEMMA RegisterLandsInv ==
    ASSUME SyncInv, NEW f \in FixtureId, NEW t \in KickoffTs, RegisterLands(f, t)
    PROVE  SyncInv'
<1>1. /\ t \in everTold[f] /\ inFlight' \subseteq inFlight
      /\ UNCHANGED <<announced, everTold, rows, sync, deletes, restarts>>
  BY DEF RegisterLands, SyncInv, InFlightIsTold
<1>2. /\ ChainTypeOK'
      /\ \A g \in FixtureId : Registered(g) => fixtures'[g] = fixtures[g]
      /\ \A g \in FixtureId :
            fixtures'[g] # NoAccount => Registered(g) \/ fixtures'[g] \in everTold[g]
  <2>1. CASE RegisterFixture(FixtureAuthority, f, t)
    <3>1. /\ ChainTypeOK'
          /\ fixtures' = [fixtures EXCEPT ![f] = t]
          /\ fixtures'[f] = t
          /\ \A g \in FixtureId : Registered(g) => fixtures'[g] = fixtures[g]
      BY <2>1, Registering DEF SyncInv
    <3>2. \A g \in FixtureId \ {f} : fixtures'[g] = fixtures[g]
      BY <3>1 DEF SyncInv, SyncTypes, TypeOK, ChainTypeOK
    <3> QED
      BY <1>1, <3>1, <3>2 DEF Registered
  <2>2. CASE UNCHANGED chainVars
    <3>1. ChainTypeOK' /\ fixtures' = fixtures
      BY <2>2 DEF SyncInv, SyncTypes, TypeOK, ChainTypeOK, chainVars
    <3> QED
      BY <3>1 DEF Registered
  <2> QED
    BY <2>1, <2>2 DEF RegisterLands
<1>3. /\ everTold' \in [FixtureId -> SUBSET KickoffTs]
      /\ announced' \in [FixtureId -> KickoffTs]
      /\ \A g \in FixtureId : announced'[g] \in everTold'[g] /\ everTold[g] \subseteq everTold'[g]
      /\ rows' \in [FixtureId -> Fixture \cup {NoRow}]
      /\ \A g \in FixtureId : rows'[g] # NoRow /\ rows'[g].registered => Marked(g)
      /\ deletes' \in 0..MaxDeletes /\ restarts' \in 0..MaxRestarts
  BY <1>1 DEF SyncInv, SyncTypes, TypeOK, Marked
<1> QED
  BY <1>1, <1>2, <1>3, WorldInv

LEMMA DeleteInv ==
    ASSUME SyncInv, NEW f \in FixtureId, DeleteFixture(f)
    PROVE  SyncInv'
<1>1. /\ rows' = [rows EXCEPT ![f] = NoRow] /\ deletes' = deletes + 1 /\ deletes < MaxDeletes
      /\ UNCHANGED <<chainVars, announced, everTold, sync, inFlight, restarts>>
  BY DEF DeleteFixture
<1>2. ChainTypeOK' /\ UNCHANGED fixtures
  BY <1>1 DEF SyncInv, SyncTypes, TypeOK, ChainTypeOK, chainVars
<1>3. \A g \in FixtureId : fixtures'[g] # NoAccount => Registered(g)
  BY <1>2 DEF Registered
<1>4. /\ rows' \in [FixtureId -> Fixture \cup {NoRow}]
      /\ \A g \in FixtureId : rows'[g] # NoRow /\ rows'[g].registered => Marked(g)
  BY <1>1 DEF SyncInv, SyncTypes, TypeOK, Marked
<1>5. deletes' \in 0..MaxDeletes
  BY <1>1, SyncConstants DEF SyncInv, SyncTypes, TypeOK
<1>6. /\ everTold' \in [FixtureId -> SUBSET KickoffTs]
      /\ announced' \in [FixtureId -> KickoffTs]
      /\ \A g \in FixtureId : announced'[g] \in everTold'[g] /\ everTold[g] \subseteq everTold'[g]
      /\ restarts' \in 0..MaxRestarts /\ inFlight' \subseteq inFlight
  BY <1>1 DEF SyncInv, SyncTypes, TypeOK
<1> QED
  BY <1>1, <1>2, <1>3, <1>4, <1>5, <1>6, WorldInv

LEMMA SyncStutters == SyncInv /\ UNCHANGED vars => SyncInv'
BY DEF vars, chainVars, syncVars, SyncInv, SyncTypes, TypeOK, ChainTypeOK, SyncsAreTold,
       Told, InFlightIsTold, MarkedIsOnChain, Marked, ChainKickoffWasAnnounced, Registered

LEMMA SyncNextInv == SyncInv /\ [Next]_vars => SyncInv'
<1> SUFFICES ASSUME SyncInv, [Next]_vars PROVE SyncInv'
  OBVIOUS
<1>1. ASSUME NEW f \in FixtureId, NEW t \in KickoffTs, Reschedule(f, t) PROVE SyncInv'
  BY <1>1, RescheduleInv
<1>2. ASSUME NEW f \in FixtureId, NEW t \in KickoffTs, RegisterLands(f, t) PROVE SyncInv'
  BY <1>2, RegisterLandsInv
<1>3. ASSUME NEW f \in FixtureId, DeleteFixture(f) PROVE SyncInv'
  BY <1>3, DeleteInv
<1>4. ASSUME NEW s \in Sync, SyncStep(s) \/ Restart(s) PROVE SyncInv'
  <2>1. CASE Fetch(s)
    BY <2>1, FetchInv
  <2>2. CASE Upsert(s)
    BY <2>2, UpsertInv
  <2>3. ASSUME NEW f \in FixtureId, RegisterAnswered(s, f) \/ RegisterFails(s, f) PROVE SyncInv'
    BY <2>3, RegisterAnsweredInv, RegisterFailsInv
  <2>4. CASE Mark(s)
    BY <2>4, MarkInv
  <2>5. CASE LoopEnds(s) \/ Restart(s)
    BY <2>5, IdleInv
  <2> QED
    BY <1>4, <2>1, <2>2, <2>3, <2>4, <2>5 DEF SyncStep
<1> QED
  BY <1>1, <1>2, <1>3, <1>4, SyncStutters DEF Next

-----------------------------------------------------------------------------

(* Whatever syncs, runs of the tool, reschedulings, deletions and restarts  *)
(* overlap, every kickoff that is fetched, planned, on its way or on the    *)
(* chain is one TxLINE announced for that match (fixtureSync.ts:18-79).     *)
THEOREM SyncInvariant == Spec => []SyncInv
<1>1. Init => SyncInv
  BY InitSyncInv
<1>2. SyncInv /\ [Next]_vars => SyncInv'
  BY SyncNextInv
<1> QED
  BY <1>1, <1>2, PTL DEF Spec

(* Every variable keeps holding what it can hold. *)
THEOREM FixtureTypesCorrect == Spec => []TypeOK
<1>1. SyncInv => TypeOK
  BY DEF SyncInv, SyncTypes
<1> QED
  BY <1>1, SyncInvariant, PTL

(* A row the loop marks `registered` (fixtureSync.ts:65-76) is on the       *)
(* chain, although between the answer and the mark anything may happen:    *)
(* fixtures are never closed.                                              *)
THEOREM MarkedRowsAreOnChain == Spec => []MarkedIsOnChain
<1>1. SyncInv => MarkedIsOnChain
  BY DEF SyncInv
<1> QED
  BY <1>1, SyncInvariant, PTL

(* The kickoff on the chain, which no instruction can correct, was          *)
(* announced for that match, in seconds (toUnixSeconds, client.ts:95).      *)
THEOREM KickoffsWereAnnounced == Spec => []ChainKickoffWasAnnounced
<1>1. SyncInv => ChainKickoffWasAnnounced
  BY DEF SyncInv
<1> QED
  BY <1>1, SyncInvariant, PTL
=============================================================================

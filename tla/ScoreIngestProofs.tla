------------------------- MODULE ScoreIngestProofs -------------------------
(***************************************************************************)
(* What the results store guarantees for every set of fixtures and         *)
(* scorelines, any number of backfill passes in progress at once and every *)
(* bound on the feed.                                                      *)
(***************************************************************************)
EXTENDS ScoreIngest, SequenceTheorems, NaturalsInduction, WellFoundedInduction, TLAPS

(* Persisted is what makes a restart harmless, the types what an event can do. *)
IngestInv == TypeOK /\ Persisted

-----------------------------------------------------------------------------

(* What apply writes is a result. *)
LEMMA MergedType ==
    ASSUME StoreTypeOK, NEW f \in FixtureId, NEW e \in Event
    PROVE  Merged(f, e) \in Result
<1>1. results[f] # NoResult => results[f].score \in Scoreline
  BY DEF StoreTypeOK, Result
<1>2. e.score # NoScore => e.score \in Scoreline
  BY DEF Event
<1>3. e.final \in BOOLEAN
  BY DEF Event
<1> QED
  BY <1>1, <1>2, <1>3, ResultsConstants DEF Merged, Result

(* apply keeps the store well typed and the table equal to it. *)
LEMMA ApplyInvariant ==
    ASSUME StoreTypeOK, Persisted, NEW f \in FixtureId, NEW e \in Event, Apply(f, e)
    PROVE  StoreTypeOK' /\ Persisted'
<1>1. CASE UNCHANGED <<results, table>>
  BY <1>1 DEF StoreTypeOK, Persisted
<1>2. CASE /\ results' = [results EXCEPT ![f] = Merged(f, e)]
           /\ table' = Persist(f, Merged(f, e))
  BY <1>2, MergedType DEF StoreTypeOK, Persisted, Persist
<1> QED
  BY <1>1, <1>2 DEF Apply

(* apply never touches a final result except with another final one. *)
LEMMA ApplyKeepsFinals ==
    ASSUME StoreTypeOK, NEW f \in FixtureId, NEW e \in Event, Apply(f, e),
           NEW g \in FixtureId, Final(g)
    PROVE  Final(g)'
<1>1. CASE UNCHANGED <<results, table>>
  BY <1>1 DEF Final
<1>2. CASE /\ ~Downgrades(f, e)
           /\ results' = [results EXCEPT ![f] = Merged(f, e)]
  <2>1. CASE g = f
    <3>1. e.final
      BY <1>2, <2>1 DEF Downgrades
    <3>2. results'[g] = Merged(f, e)
      BY <1>2, <2>1 DEF StoreTypeOK
    <3>3. Merged(f, e) # NoResult
      BY MergedType, NoResultAssumption
    <3>4. Merged(f, e).final
      BY <3>1 DEF Merged
    <3> QED
      BY <3>2, <3>3, <3>4 DEF Final
  <2>2. CASE g # f
    BY <1>2, <2>2 DEF Final, StoreTypeOK
  <2> QED
    BY <2>1, <2>2
<1> QED
  BY <1>1, <1>2 DEF Apply

(* The scoreline of a history is one of its scorelines or none. *)
LEMMA LastScoreType ==
    ASSUME NEW h \in Seq(Event)
    PROVE  LastScore(h) \in Scoreline \cup {NoScore}
<1> DEFINE last == {i \in DOMAIN h : /\ h[i].score # NoScore
                                     /\ \A j \in DOMAIN h : j > i => h[j].score = NoScore}
<1>1. \A i \in last : h[i] \in Event
  OBVIOUS
<1>2. last # {} => (CHOOSE i \in last : TRUE) \in last
  OBVIOUS
<1> QED
  BY <1>1, <1>2 DEF LastScore, Event

(* What the feed records and what a snapshot says are events. *)
LEMMA FeedEventType ==
    ASSUME history \in [FixtureId -> Seq(Event)], NEW f \in FixtureId
    PROVE  /\ Snapshot(f) \in Event
           /\ TrueScore(f) \in Scoreline
<1>1. history[f] \in Seq(Event)
  OBVIOUS
<1>2. LastScore(history[f]) \in Scoreline \cup {NoScore}
  BY <1>1, LastScoreType
<1>3. Ended(history[f]) \in BOOLEAN
  BY DEF Ended
<1> QED
  BY <1>2, <1>3, ResultsConstants DEF Snapshot, TrueScore, Standing, Event

(* One more action in the history of a fixture disturbs nothing else. *)
LEMMA RecordInvariant ==
    ASSUME IngestInv, NEW f \in FixtureId, NEW e \in Event, Record(f, e)
    PROVE  IngestInv'
<1>1. history' \in [FixtureId -> Seq(Event)]
  BY DEF IngestInv, TypeOK, Record
<1>2. \A g \in FixtureId : Len(history'[g]) >= Len(history[g])
  BY DEF IngestInv, TypeOK, Record
<1>3. \A g \in FixtureId : next'[g] \in 1..(Len(history'[g]) + 1)
  <2> TAKE g \in FixtureId
  <2>1. history[g] \in Seq(Event) /\ history'[g] \in Seq(Event)
    BY <1>1 DEF IngestInv, TypeOK
  <2>2. next'[g] = next[g] /\ next[g] \in 1..(Len(history[g]) + 1)
    BY DEF IngestInv, TypeOK, Record
  <2> QED
    BY <1>2, <2>1, <2>2
<1> QED
  BY <1>1, <1>3 DEF IngestInv, TypeOK, StoreTypeOK, Persisted, Record

-----------------------------------------------------------------------------

LEMMA InitInvariant == Init => IngestInv
<1> SUFFICES ASSUME Init PROVE IngestInv
  OBVIOUS
<1>1. StoreTypeOK /\ Persisted
  BY DEF Init, StoreInit, StoreTypeOK, Persisted
<1>2. /\ history \in [FixtureId -> Seq(Event)]
      /\ next \in [FixtureId -> Nat]
      /\ \A f \in FixtureId : next[f] \in 1..(Len(history[f]) + 1)
  <2>1. << >> \in Seq(Event) /\ Len(<< >>) = 0
    BY EmptySeq
  <2>2. \A f \in FixtureId : history[f] = << >> /\ next[f] = 1
    BY DEF Init, Nowhere
  <2>3. \A f \in FixtureId : next[f] \in 1..(Len(history[f]) + 1)
    <3> TAKE f \in FixtureId
    <3>1. Len(history[f]) = 0
      BY <2>1, <2>2, Zenon
    <3> QED
      BY <2>2, <3>1
  <2>4. history \in [FixtureId -> Seq(Event)]
    BY <2>1, Zenon DEF Init
  <2>5. next \in [FixtureId -> Nat]
    BY DEF Init, Nowhere
  <2> QED
    BY <2>3, <2>4, <2>5
<1>3. pass \in [Backfill -> Pass] /\ \A b \in Backfill : pass[b].asked = NoResult
  BY DEF Init, IdlePass, Pass
<1>4. streaming \in BOOLEAN /\ restarts = 0
  BY Zenon DEF Init
<1>5. restarts \in 0..MaxRestarts /\ endsHeard = {}
  BY <1>4, IngestConstants DEF Init
<1> QED
  BY <1>1, <1>2, <1>3, <1>4, <1>5 DEF IngestInv, TypeOK

(* An event of the stream is one of the history. *)
LEMMA DeliveryStep ==
    ASSUME IngestInv, NEW f \in FixtureId, StreamDelivers(f)
    PROVE  /\ IngestInv'
           /\ history[f][next[f]] \in Event
           /\ Apply(f, history[f][next[f]])
<1>1. history[f] \in Seq(Event) /\ next[f] \in 1..(Len(history[f]) + 1)
  BY DEF IngestInv, TypeOK
<1>2. next[f] \in 1..Len(history[f])
  BY <1>1 DEF StreamDelivers
<1>3. history[f][next[f]] \in Event /\ Apply(f, history[f][next[f]])
  BY <1>1, <1>2 DEF StreamDelivers
<1>4. StoreTypeOK' /\ Persisted'
  BY <1>3, ApplyInvariant DEF IngestInv, TypeOK
<1>5. /\ next' \in [FixtureId -> Nat]
      /\ \A g \in FixtureId : next'[g] \in 1..(Len(history[g]) + 1)
  <2>1. next' = [next EXCEPT ![f] = next[f] + 1]
    BY DEF StreamDelivers
  <2>2. next[f] + 1 \in 1..(Len(history[f]) + 1)
    BY <1>1, <1>2
  <2> QED
    BY <2>1, <2>2 DEF IngestInv, TypeOK
<1>6. endsHeard' \subseteq FixtureId
  BY DEF StreamDelivers, Hear, IngestInv, TypeOK
<1> QED
  BY <1>3, <1>4, <1>5, <1>6 DEF IngestInv, TypeOK, StreamDelivers

(* A snapshot that was asked for is applied as it was answered. *)
LEMMA SnapshotStep ==
    ASSUME IngestInv, NEW b \in Backfill, ApplySnapshot(b)
    PROVE  /\ IngestInv'
           /\ pass[b].asked \in FixtureId /\ pass[b].answer \in Event
           /\ Apply(pass[b].asked, pass[b].answer)
<1>1. /\ pass[b].asked \in FixtureId /\ pass[b].answer \in Event
      /\ Apply(pass[b].asked, pass[b].answer)
  BY DEF IngestInv, TypeOK, Pass, ApplySnapshot
<1>2. StoreTypeOK' /\ Persisted'
  BY <1>1, ApplyInvariant DEF IngestInv, TypeOK
<1>3. endsHeard' \subseteq FixtureId
  BY <1>1 DEF ApplySnapshot, Hear, IngestInv, TypeOK
<1> QED
  BY <1>1, <1>2, <1>3 DEF IngestInv, TypeOK, Pass, ApplySnapshot

(* The steps of a backfill pass that leave the store alone. *)
LEMMA PassStep ==
    ASSUME IngestInv, NEW b \in Backfill,
           \/ StartBackfill(b)
           \/ \E f \in FixtureId : SkipRow(b, f) \/ AskSnapshot(b, f) \/ SnapshotFails(b, f)
           \/ EndBackfill(b)
    PROVE  IngestInv' /\ UNCHANGED <<results, table>>
<1>0. \/ StartBackfill(b)
      \/ \E f \in FixtureId : SkipRow(b, f) \/ SnapshotFails(b, f)
      \/ \E f \in FixtureId : AskSnapshot(b, f)
      \/ EndBackfill(b)
  OBVIOUS
<1>1. CASE StartBackfill(b)
  BY <1>1 DEF StartBackfill, IdlePass, Pass, IngestInv, TypeOK, StoreTypeOK, Persisted
<1>2. CASE \E f \in FixtureId : SkipRow(b, f) \/ SnapshotFails(b, f)
  <2> PICK f \in FixtureId : SkipRow(b, f) \/ SnapshotFails(b, f)
    BY <1>2
  <2>1. pass' = [pass EXCEPT ![b].todo = pass[b].todo \ {f}]
    BY DEF SkipRow, SnapshotFails
  <2>2. /\ pass' \in [Backfill -> Pass]
        /\ \A c \in Backfill : /\ pass'[c].asked = pass[c].asked
                              /\ pass'[c].answer = pass[c].answer
                              /\ pass'[c].active = pass[c].active
    BY <2>1 DEF Pass, IngestInv, TypeOK
  <2> QED
    BY <2>2 DEF SkipRow, SnapshotFails, IngestInv, TypeOK, StoreTypeOK, Persisted
<1>3. CASE \E f \in FixtureId : AskSnapshot(b, f)
  <2> PICK f \in FixtureId : AskSnapshot(b, f)
    BY <1>3
  <2>1. Snapshot(f) \in Event
    BY FeedEventType DEF IngestInv, TypeOK
  <2>2. /\ pass' \in [Backfill -> Pass]
        /\ pass'[b].active = pass[b].active /\ pass'[b].answer = Snapshot(f)
        /\ \A c \in Backfill \ {b} : pass'[c] = pass[c]
    BY <2>1, ZenonT(30) DEF AskSnapshot, Pass, IngestInv, TypeOK
  <2>3. pass[b].active
    BY DEF AskSnapshot, NextRow
  <2> QED
    BY <2>1, <2>2, <2>3 DEF AskSnapshot, IngestInv, TypeOK, StoreTypeOK, Persisted
<1>4. CASE EndBackfill(b)
  BY <1>4 DEF EndBackfill, IdlePass, Pass, IngestInv, TypeOK, StoreTypeOK, Persisted
<1> QED
  BY <1>0, <1>1, <1>2, <1>3, <1>4

(* Before the first action the stream is nowhere ahead of the feed. *)
LEMMA NowhereIsSafe ==
    ASSUME TypeOK
    PROVE  /\ Nowhere \in [FixtureId -> Nat]
           /\ \A f \in FixtureId : Nowhere[f] \in 1..(Len(history[f]) + 1)
<1>1. \A f \in FixtureId : Len(history[f]) \in Nat
  BY LenProperties DEF TypeOK
<1> QED
  BY <1>1 DEF Nowhere

(* A new process knows what the table held, which is what the old one knew. *)
LEMMA RestartStep ==
    ASSUME IngestInv, Restart
    PROVE  IngestInv' /\ results' = results
<1>1. results' = results /\ table' = table
  BY DEF Restart, Reload, IngestInv, Persisted
<1>2. restarts' \in 0..MaxRestarts
  BY IngestConstants DEF Restart, IngestInv, TypeOK
<1>3. /\ next' \in [FixtureId -> Nat]
      /\ \A f \in FixtureId : next'[f] \in 1..(Len(history[f]) + 1)
  BY NowhereIsSafe DEF Restart, IngestInv
<1> QED
  BY <1>1, <1>2, <1>3 DEF Restart, IdlePass, Pass, IngestInv, TypeOK, StoreTypeOK, Persisted

LEMMA StreamStep ==
    ASSUME IngestInv, StreamConnects \/ StreamDrops
    PROVE  IngestInv' /\ UNCHANGED <<results, table>>
<1>1. CASE StreamConnects
  <2> PICK resume \in [FixtureId -> 1..(MaxActions + 1)] :
         /\ \A f \in FixtureId : resume[f] <= Len(history[f]) + 1
         /\ next' = resume
    BY <1>1 DEF StreamConnects
  <2>1. \A f \in FixtureId : history[f] \in Seq(Event)
    BY DEF IngestInv, TypeOK
  <2>2. next' \in [FixtureId -> Nat] /\ \A f \in FixtureId : next'[f] \in 1..(Len(history[f]) + 1)
    BY <2>1, IngestConstants
  <2> QED
    BY <1>1, <2>2 DEF StreamConnects, IngestInv, TypeOK, StoreTypeOK, Persisted
<1>2. CASE StreamDrops
  <2>1. /\ next' \in [FixtureId -> Nat]
        /\ \A f \in FixtureId : next'[f] \in 1..(Len(history[f]) + 1)
    BY <1>2, NowhereIsSafe DEF StreamDrops, IngestInv
  <2> QED
    BY <1>2, <2>1 DEF StreamDrops, IngestInv, TypeOK, StoreTypeOK, Persisted
<1> QED
  BY <1>1, <1>2

(***************************************************************************)
(* One step: the invariant survives it, and so does every final result.    *)
(***************************************************************************)
LEMMA NextStep ==
    ASSUME IngestInv, [Next]_vars
    PROVE  IngestInv' /\ \A g \in FixtureId : Final(g) => Final(g)'
<1> USE DEF BackfillStep
<1>1. StoreTypeOK /\ Persisted
  BY DEF IngestInv, TypeOK
<1>2. CASE \E f \in FixtureId, e \in Event : Record(f, e)
  BY <1>2, RecordInvariant DEF Record, Final
<1>3. CASE \E f \in FixtureId : StreamDelivers(f)
  BY <1>1, <1>3, DeliveryStep, ApplyKeepsFinals
<1>4. CASE \E f \in FixtureId, s \in Scoreline, final \in BOOLEAN : AdminResult(f, s, final)
  <2> PICK f \in FixtureId, s \in Scoreline, final \in BOOLEAN : AdminResult(f, s, final)
    BY <1>4
  <2> DEFINE e == [score |-> s, final |-> final]
  <2>1. e \in Event /\ Apply(f, e)
    BY DEF AdminResult, Event
  <2>2. StoreTypeOK' /\ Persisted'
    BY <1>1, <2>1, ApplyInvariant
  <2>3. \A g \in FixtureId : Final(g) => Final(g)'
    BY <1>1, <2>1, ApplyKeepsFinals
  <2> QED
    BY <2>2, <2>3 DEF AdminResult, IngestInv, TypeOK
<1>5. CASE StreamConnects \/ StreamDrops
  BY <1>5, StreamStep DEF Final
<1>6. CASE \E b \in Backfill : ApplySnapshot(b)
  BY <1>1, <1>6, SnapshotStep, ApplyKeepsFinals
<1>7. CASE \E b \in Backfill :
             \/ StartBackfill(b)
             \/ \E f \in FixtureId : SkipRow(b, f) \/ AskSnapshot(b, f) \/ SnapshotFails(b, f)
             \/ EndBackfill(b)
  BY <1>7, PassStep DEF Final
<1>8. CASE Restart
  BY <1>8, RestartStep DEF Final
<1>9. CASE UNCHANGED vars
  BY <1>9 DEF vars, Final, IngestInv, TypeOK, StoreTypeOK, Persisted
<1> QED
  BY <1>2, <1>3, <1>4, <1>5, <1>6, <1>7, <1>8, <1>9 DEF Next

-----------------------------------------------------------------------------

(***************************************************************************)
(* In every state the store and its table hold results, and the same ones: *)
(* however events, snapshots, admin results and restarts interleave.       *)
(***************************************************************************)
THEOREM IngestInvariant == Spec => []IngestInv
<1>1. Init => IngestInv
  BY InitInvariant
<1>2. IngestInv /\ [Next]_vars => IngestInv'
  BY NextStep
<1> QED
  BY <1>1, <1>2, PTL DEF Spec

(* TypeOK: the stream's position and the passes stay consistent with the feed. *)
THEOREM IngestTypeCorrect == Spec => []TypeOK
<1>1. IngestInv => TypeOK
  BY DEF IngestInv
<1> QED
  BY <1>1, IngestInvariant, PTL

(* Persisted: a restart at any moment forgets no result (results.ts:16-17). *)
THEOREM ResultsSurviveRestarts == Spec => []Persisted
<1>1. IngestInv => Persisted
  BY DEF IngestInv
<1> QED
  BY <1>1, IngestInvariant, PTL

(***************************************************************************)
(* FinalStaysFinal: "a final result is never downgraded by a late/replayed *)
(* provisional event" (results.ts:11-12), nor by a stale snapshot or a     *)
(* restart.                                                                *)
(***************************************************************************)
THEOREM FinalsAreFinal == Spec => FinalStaysFinal
<1>1. IngestInv /\ [Next]_vars => [FinalsKept]_<<results, table>>
  BY NextStep DEF FinalsKept
<1> QED
  BY <1>1, IngestInvariant, PTL DEF Spec, FinalStaysFinal

-----------------------------------------------------------------------------
(* Histories and what a loop over them has seen. *)

(* The scoreline after a history is that of its last action with goals. *)
LEMMA LastScoreIs ==
    ASSUME NEW h \in Seq(Event), NEW i \in DOMAIN h, h[i].score # NoScore,
           \A j \in DOMAIN h : j > i => h[j].score = NoScore
    PROVE  LastScore(h) = h[i].score
<1> DEFINE last == {k \in DOMAIN h : /\ h[k].score # NoScore
                                     /\ \A j \in DOMAIN h : j > k => h[j].score = NoScore}
<1>1. \A k \in DOMAIN h : k \in Nat
  BY LenProperties
<1>2. \A k \in last : k = i
  <2> TAKE k \in last
  <2>1. k \in Nat /\ i \in Nat /\ k \in DOMAIN h
    BY <1>1
  <2>2. ~(k > i) /\ ~(i > k)
    OBVIOUS
  <2> QED
    BY <2>1, <2>2
<1>3. i \in last
  OBVIOUS
<1>4. last # {} /\ (CHOOSE k \in last : TRUE) = i
  BY <1>2, <1>3
<1> HIDE DEF last
<1>5. LastScore(h) = IF last = {} THEN NoScore ELSE h[CHOOSE k \in last : TRUE].score
  BY DEF LastScore, last
<1> QED
  BY <1>4, <1>5

(* One pass of the loop of fetchScoreSnapshot. *)
Folded(m, e) ==
    [score |-> IF e.score # NoScore THEN e.score ELSE m.score, final |-> m.final \/ e.final]

(* What the loop has after n actions. *)
UpTo(h, n) ==
    LET seen == SubSeq(h, 1, n) IN [score |-> LastScore(seen), final |-> Ended(seen)]

LEMMA NothingSeen == ASSUME NEW h \in Seq(Event)
                     PROVE  UpTo(h, 0) = [score |-> NoScore, final |-> FALSE]
<1>1. SubSeq(h, 1, 0) = << >>
  BY SubSeqEmpty
<1>2. LastScore(<< >>) = NoScore /\ Ended(<< >>) = FALSE
  BY DEF LastScore, Ended
<1> QED
  BY <1>1, <1>2 DEF UpTo

LEMMA OneMoreSeen ==
    ASSUME NEW h \in Seq(Event), NEW n \in 1..Len(h)
    PROVE  UpTo(h, n) = Folded(UpTo(h, n - 1), h[n])
<1> DEFINE old == SubSeq(h, 1, n - 1)
           new == SubSeq(h, 1, n)
<1>1. Len(h) \in Nat /\ DOMAIN h = 1..Len(h) /\ n \in Nat /\ n - 1 \in Nat
  BY LenProperties
<1>2. /\ old \in Seq(Event) /\ Len(old) = n - 1 /\ DOMAIN old = 1..(n - 1)
      /\ \A i \in 1..(n - 1) : old[i] = h[i]
  BY <1>1
<1>3. /\ new \in Seq(Event) /\ Len(new) = n /\ DOMAIN new = 1..n
      /\ \A i \in 1..n : new[i] = h[i]
  BY <1>1
<1> HIDE DEF old, new
<1>4. \A i \in 1..n : i \in 1..(n - 1) \/ i = n
  BY <1>1
<1>5. \A i \in 1..(n - 1) : i \in 1..n /\ n > i /\ ~(i > n)
  BY <1>1
<1>6. Ended(new) <=> Ended(old) \/ h[n].final
  BY <1>1, <1>2, <1>3, <1>4, <1>5 DEF Ended
<1>7. LastScore(new) = IF h[n].score # NoScore THEN h[n].score ELSE LastScore(old)
  <2>1. CASE h[n].score # NoScore
    <3>1. n \in DOMAIN new /\ new[n].score # NoScore /\ \A j \in DOMAIN new : ~(j > n)
      BY <1>1, <1>3, <2>1
    <3> QED
      BY <1>3, <2>1, <3>1, LastScoreIs
  <2>2. CASE h[n].score = NoScore
    <3> DEFINE Last(g) == {i \in DOMAIN g : /\ g[i].score # NoScore
                                            /\ \A j \in DOMAIN g : j > i => g[j].score = NoScore}
    <3>1. \A g : LastScore(g) = IF Last(g) = {} THEN NoScore
                                ELSE g[CHOOSE i \in Last(g) : TRUE].score
      BY DEF LastScore
    <3>2. Last(new) = Last(old)
      BY <1>1, <1>2, <1>3, <1>4, <1>5, <2>2
    <3>3. \A i \in Last(old) : new[i] = old[i]
      BY <1>2, <1>3, <1>5
    <3> HIDE DEF Last
    <3>4. Last(old) # {} => (CHOOSE i \in Last(old) : TRUE) \in Last(old)
      OBVIOUS
    <3> QED
      BY <2>2, <3>1, <3>2, <3>3, <3>4
  <2> QED
    BY <2>1, <2>2
<1>8. (Ended(new) \in BOOLEAN) /\ (Ended(old) \in BOOLEAN) /\ h[n].final \in BOOLEAN
  <2>1. h[n] \in Event
    BY <1>1
  <2> QED
    BY <2>1 DEF Ended, Event
<1>9. Ended(new) = (Ended(old) \/ h[n].final)
  BY <1>6, <1>8
<1> QED
  BY <1>7, <1>9 DEF UpTo, Folded, old, new

(* g is the history h and one more action e. *)
OneMore(h, e, g) == h \in Seq(Event) /\ e \in Event /\ g = Append(h, e)

LEMMA OneMoreAction ==
    ASSUME NEW h, NEW e, NEW g, OneMore(h, e, g)
    PROVE  /\ g \in Seq(Event) /\ Len(h) \in Nat /\ Len(g) = Len(h) + 1
           /\ DOMAIN h = 1..Len(h) /\ DOMAIN g = 1..(Len(h) + 1)
           /\ \A n \in DOMAIN h : n \in DOMAIN g /\ g[n] = h[n]
                                  /\ SubSeq(g, 1, n) = SubSeq(h, 1, n)
           /\ g[Len(h) + 1] = e
           /\ SubSeq(g, 1, Len(h) + 1) = g
           /\ e.score # NoScore => LastScore(g) = e.score
           /\ e.score = NoScore => LastScore(g) = LastScore(h)
           /\ Ended(g) <=> Ended(h) \/ e.final
<1>0. h \in Seq(Event) /\ e \in Event /\ g = Append(h, e)
  BY DEF OneMore
<1>1. /\ g \in Seq(Event) /\ Len(h) \in Nat /\ Len(g) = Len(h) + 1
      /\ DOMAIN h = 1..Len(h) /\ DOMAIN g = 1..(Len(h) + 1)
      /\ \A n \in DOMAIN h : g[n] = h[n]
      /\ g[Len(h) + 1] = e
  BY <1>0, AppendProperties, LenProperties
<1>2. \A n \in DOMAIN h : n \in DOMAIN g /\ SubSeq(g, 1, n) = SubSeq(h, 1, n)
  BY <1>0, <1>1
<1>3. SubSeq(g, 1, Len(h) + 1) = g /\ SubSeq(g, 1, Len(h)) = h
  BY <1>0, <1>1
<1>4. UpTo(g, Len(h) + 1) = Folded(UpTo(g, Len(h)), g[Len(h) + 1])
  <2>1. PICK n \in 1..Len(g) : n = Len(h) + 1 /\ n - 1 = Len(h)
    BY <1>1
  <2>2. UpTo(g, n) = Folded(UpTo(g, n - 1), g[n])
    BY <1>1, OneMoreSeen
  <2> QED
    BY <2>1, <2>2
<1>5. [score |-> LastScore(g), final |-> Ended(g)] =
          Folded([score |-> LastScore(h), final |-> Ended(h)], e)
  BY <1>1, <1>3, <1>4 DEF UpTo
<1>6. PICK a, b, c, d : a = LastScore(g) /\ b = Ended(g) /\ c = LastScore(h) /\ d = Ended(h)
  OBVIOUS
<1>7. [score |-> a, final |-> b] =
          [score |-> IF e.score # NoScore THEN e.score ELSE c, final |-> d \/ e.final]
  BY <1>5, <1>6 DEF Folded
<1>8. a = (IF e.score # NoScore THEN e.score ELSE c) /\ b = (d \/ e.final)
  BY <1>7
<1> QED
  BY <1>1, <1>2, <1>3, <1>6, <1>8

(* A match that is over stands at one of the scorelines it stood at. *)
LEMMA StandingStood ==
    ASSUME NEW h \in Seq(Event), Ended(h)
    PROVE  Standing(h) \in Stood(h)
<1>1. Len(h) \in DOMAIN h /\ SubSeq(h, 1, Len(h)) = h
  <2>1. PICK i \in DOMAIN h : h[i].final
    BY DEF Ended
  <2> QED
    BY <2>1, LenProperties
<1> QED
  BY <1>1 DEF Stood

(* So it is with the scoreline that an end was told with. *)
LEMMA ScoredEndStood ==
    ASSUME NEW h \in Seq(Event), NEW i \in DOMAIN h, h[i].final, h[i].score # NoScore
    PROVE  h[i].score \in Stood(h)
<1>1. i \in 1..Len(h) /\ h[i] \in Event
  BY LenProperties
<1>2. UpTo(h, i) = Folded(UpTo(h, i - 1), h[i])
  BY <1>1, OneMoreSeen, ZenonT(30)
<1>3. PICK a, b, c, d : /\ a = LastScore(SubSeq(h, 1, i)) /\ b = Ended(SubSeq(h, 1, i))
                        /\ c = LastScore(SubSeq(h, 1, i - 1)) /\ d = Ended(SubSeq(h, 1, i - 1))
  OBVIOUS
<1>4. [score |-> a, final |-> b] =
          [score |-> IF h[i].score # NoScore THEN h[i].score ELSE c, final |-> d \/ h[i].final]
  BY <1>2, <1>3 DEF UpTo, Folded
<1>5. a = h[i].score /\ b = (d \/ h[i].final)
  BY <1>4
<1>6. Standing(SubSeq(h, 1, i)) = h[i].score /\ Ended(SubSeq(h, 1, i))
  BY <1>3, <1>5 DEF Standing
<1> QED
  BY <1>6 DEF Stood

(* What one more action adds to what a match was told and stood at. *)
LEMMA OneMoreStood ==
    ASSUME NEW h, NEW e, NEW g, OneMore(h, e, g)
    PROVE  /\ Told(g) = Told(h) \cup ({e.score} \ {NoScore})
           /\ Ended(g) => Stood(g) = Stood(h) \cup {Standing(g)}
           /\ ~Ended(g) => Stood(g) = Stood(h)
           /\ e.score # NoScore => Standing(g) = e.score
           /\ e.score = NoScore => Standing(g) = Standing(h)
<1>1. /\ g \in Seq(Event) /\ Len(h) \in Nat
      /\ DOMAIN h = 1..Len(h) /\ DOMAIN g = 1..(Len(h) + 1)
      /\ \A n \in DOMAIN h : n \in DOMAIN g /\ g[n] = h[n]
                             /\ SubSeq(g, 1, n) = SubSeq(h, 1, n)
      /\ g[Len(h) + 1] = e
      /\ SubSeq(g, 1, Len(h) + 1) = g
      /\ e.score # NoScore => LastScore(g) = e.score
      /\ e.score = NoScore => LastScore(g) = LastScore(h)
  BY OneMoreAction
<1>2. /\ \A n \in DOMAIN g : n \in DOMAIN h \/ n = Len(h) + 1
      /\ Len(h) + 1 \in DOMAIN g
  BY <1>1
<1>3. Told(g) = Told(h) \cup ({e.score} \ {NoScore})
  BY <1>1, <1>2 DEF Told
<1>4. /\ e.score # NoScore => Standing(g) = e.score
      /\ e.score = NoScore => Standing(g) = Standing(h)
  BY <1>1 DEF Standing
<1>5. /\ Ended(g) => Stood(g) = Stood(h) \cup {Standing(g)}
      /\ ~Ended(g) => Stood(g) = Stood(h)
  BY <1>1, <1>2, ZenonT(30) DEF Stood
<1> QED
  BY <1>3, <1>4, <1>5

-----------------------------------------------------------------------------
(* Where scorelines come from, whatever the order of ends and scores. *)

Reports(h, s) == \E i \in DOMAIN h : h[i].score = s

(* What is said to be final is so; with a scoreline, the match stood at it. *)
EventSourced(h, e) ==
    /\ e.score = NoScore \/ Reports(h, e.score)
    /\ e.final => Ended(h)
    /\ e.final /\ e.score # NoScore => e.score \in Stood(h)

ResultSourced(h, r) ==
    /\ \/ Reports(h, r.score)
       \/ r.score = NilNil /\ Ended(h)
    /\ r.final => Ended(h)

AnswersSourced ==
    \A b \in Backfill : pass[b].asked # NoResult /\ pass[b].asked \in Covered =>
        EventSourced(history[pass[b].asked], pass[b].answer)

ResultsSourced ==
    \A f \in Covered : results[f] # NoResult => ResultSourced(history[f], results[f])

(***************************************************************************)
(* NoInventedScore and ScoredEndIsTrue hold of the store because what they *)
(* say of a result holds of every answer that is still to be applied.      *)
(***************************************************************************)
SourceInv == IngestInv /\ AnswersSourced /\ ResultsSourced /\ ScoredEndIsTrue

LEMMA LastScoreReported ==
    ASSUME NEW h \in Seq(Event)
    PROVE  LastScore(h) = NoScore \/ Reports(h, LastScore(h))
<1> DEFINE last == {i \in DOMAIN h : /\ h[i].score # NoScore
                                     /\ \A j \in DOMAIN h : j > i => h[j].score = NoScore}
<1>1. CASE last = {}
  BY <1>1 DEF LastScore
<1>2. CASE last # {}
  <2>1. PICK i \in last : i = (CHOOSE k \in last : TRUE)
    BY <1>2
  <2>2. LastScore(h) = h[i].score
    BY <1>2, <2>1 DEF LastScore
  <2> QED
    BY <2>1, <2>2 DEF Reports
<1> QED
  BY <1>1, <1>2

(* An action of the feed and a snapshot of it are sourced in it. *)
LEMMA ActionIsSourced ==
    ASSUME NEW h \in Seq(Event), NEW i \in DOMAIN h
    PROVE  EventSourced(h, h[i])
BY ScoredEndStood DEF EventSourced, Reports, Ended

LEMMA SnapshotIsSourced ==
    ASSUME NEW h \in Seq(Event)
    PROVE  EventSourced(h, [score |-> LastScore(h), final |-> Ended(h)])
<1>1. LastScore(h) # NoScore => Standing(h) = LastScore(h)
  BY DEF Standing
<1> QED
  BY <1>1, LastScoreReported, StandingStood DEF EventSourced

(* One more action takes nothing back that was sourced before it. *)
LEMMA HistoryGrows ==
    ASSUME NEW h, NEW e, NEW g, OneMore(h, e, g)
    PROVE  /\ \A s : Reports(h, s) => Reports(g, s)
           /\ Stood(h) \subseteq Stood(g)
           /\ Ended(h) => Ended(g)
           /\ \A r : /\ EventSourced(h, r) => EventSourced(g, r)
                     /\ ResultSourced(h, r) => ResultSourced(g, r)
<1>1. /\ \A n \in DOMAIN h : n \in DOMAIN g /\ g[n] = h[n]
      /\ Ended(g) <=> Ended(h) \/ e.final
  BY OneMoreAction
<1>2. \A s : Reports(h, s) => Reports(g, s)
  BY <1>1 DEF Reports
<1>3. Stood(h) \subseteq Stood(g)
  BY OneMoreStood
<1>4. Ended(h) => Ended(g)
  BY <1>1
<1> QED
  BY <1>2, <1>3, <1>4 DEF EventSourced, ResultSourced

(* apply makes a sourced result of a sourced event. *)
LEMMA ApplySourced ==
    ASSUME SourceInv, NEW f \in FixtureId, NEW e \in Event, Apply(f, e), UNCHANGED history,
           f \in Covered => EventSourced(history[f], e)
    PROVE  ResultsSourced'
<1>1. CASE UNCHANGED results
  BY <1>1 DEF SourceInv, ResultsSourced
<1>2. CASE ~SaysNothing(f, e) /\ results' = [results EXCEPT ![f] = Merged(f, e)]
  <2>1. /\ results'[f] = Merged(f, e)
        /\ \A g \in FixtureId \ {f} : results'[g] = results[g]
    BY <1>2 DEF SourceInv, IngestInv, TypeOK, StoreTypeOK
  <2>2. ASSUME f \in Covered PROVE ResultSourced(history[f], Merged(f, e))
    <3> DEFINE h == history[f]
    <3>1. EventSourced(h, e)
      BY <2>2
    <3>2. Merged(f, e).final = e.final
      BY DEF Merged
    <3>3. CASE e.score # NoScore
      <4>1. Merged(f, e).score = e.score
        BY <3>3 DEF Merged
      <4> QED
        BY <3>1, <3>2, <3>3, <4>1 DEF EventSourced, ResultSourced
    <3>4. CASE e.score = NoScore /\ results[f] # NoResult
      <4>1. Merged(f, e).score = results[f].score
        BY <3>4 DEF Merged
      <4>2. Reports(h, results[f].score) \/ (results[f].score = NilNil /\ Ended(h))
        BY <2>2, <3>4 DEF SourceInv, ResultsSourced, ResultSourced
      <4> QED
        BY <3>1, <3>2, <4>1, <4>2 DEF EventSourced, ResultSourced
    <3>5. CASE e.score = NoScore /\ results[f] = NoResult
      <4>1. Merged(f, e).score = NilNil /\ e.final
        BY <1>2, <3>5 DEF Merged, SaysNothing
      <4> QED
        BY <3>1, <4>1 DEF EventSourced, ResultSourced
    <3> QED
      BY <3>3, <3>4, <3>5
  <2> QED
    BY <2>1, <2>2, IngestConstants DEF SourceInv, ResultsSourced
<1> QED
  BY <1>1, <1>2 DEF Apply

(***************************************************************************)
(* apply and an end with its scoreline: an event that has one settles the  *)
(* match with it; a bare end keeps the scoreline of a settled match, and   *)
(* what is not final does not touch one.                                   *)
(***************************************************************************)
LEMMA ApplySettles ==
    ASSUME SourceInv, NEW f \in FixtureId, NEW e \in Event, Apply(f, e), Hear(f, e),
           UNCHANGED history, f \in Covered => EventSourced(history[f], e)
    PROVE  ScoredEndIsTrue'
<1>1. StoreTypeOK /\ endsHeard \subseteq FixtureId
  BY DEF SourceInv, IngestInv, TypeOK
<1>2. ASSUME NEW g \in Covered, g # f, g \in endsHeard'
      PROVE  Final(g)' /\ results'[g].score \in Stood(history[g])
  <2>1. results'[g] = results[g] /\ g \in endsHeard /\ g \in FixtureId
    BY <1>1, <1>2, IngestConstants DEF Apply, Hear, StoreTypeOK
  <2> QED
    BY <2>1 DEF SourceInv, ScoredEndIsTrue, Final
<1>3. ASSUME f \in Covered, f \in endsHeard'
      PROVE  Final(f)' /\ results'[f].score \in Stood(history[f])
  <2>1. EventSourced(history[f], e) /\ e.final \in BOOLEAN
    BY <1>3 DEF Event
  <2>2. CASE e.final /\ e.score # NoScore
    <3>1. Merged(f, e).score = e.score /\ Merged(f, e).final = TRUE /\ Merged(f, e) # NoResult
      BY <1>1, <2>1, <2>2, MergedType, NoResultAssumption DEF Merged
    <3>2. results'[f] = Merged(f, e)
      BY <1>1, <2>2 DEF Apply, Downgrades, SaysNothing, StoreTypeOK
    <3>3. e.score \in Stood(history[f])
      BY <2>1, <2>2 DEF EventSourced
    <3> QED
      BY <3>1, <3>2, <3>3 DEF Final
  <2>3. CASE ~(e.final /\ e.score # NoScore)
    <3>1. Final(f) /\ results[f].score \in Stood(history[f])
      BY <1>3, <2>3 DEF Hear, SourceInv, ScoredEndIsTrue
    <3>2. Final(f)'
      BY <1>1, <3>1, ApplyKeepsFinals
    <3>3. results'[f].score = results[f].score
      <4>1. CASE UNCHANGED results
        BY <4>1
      <4>2. CASE ~Downgrades(f, e) /\ results' = [results EXCEPT ![f] = Merged(f, e)]
        <5>1. e.score = NoScore /\ results[f] # NoResult
          BY <2>3, <3>1, <4>2 DEF Downgrades, Final
        <5>2. Merged(f, e).score = results[f].score
          BY <5>1 DEF Merged
        <5> QED
          BY <1>1, <4>2, <5>2 DEF StoreTypeOK
      <4> QED
        BY <4>1, <4>2 DEF Apply
    <3> QED
      BY <3>1, <3>2, <3>3
  <2> QED
    BY <2>2, <2>3
<1> QED
  BY <1>2, <1>3 DEF ScoredEndIsTrue, Final

LEMMA RecordSourced ==
    ASSUME SourceInv, NEW f \in FixtureId, NEW e \in Event, Record(f, e)
    PROVE  SourceInv'
<1>1. /\ history[f] \in Seq(Event)
      /\ history'[f] = Append(history[f], e)
      /\ \A g \in FixtureId \ {f} : history'[g] = history[g]
      /\ UNCHANGED <<pass, results, endsHeard>>
  BY DEF SourceInv, IngestInv, TypeOK, Record
<1>2. PICK h, g : h = history[f] /\ g = history'[f] /\ OneMore(h, e, g)
  BY <1>1 DEF OneMore
<1>3. /\ Stood(h) \subseteq Stood(g)
      /\ \A r : /\ EventSourced(h, r) => EventSourced(g, r)
                /\ ResultSourced(h, r) => ResultSourced(g, r)
  BY <1>2, HistoryGrows
<1>4. AnswersSourced'
  BY <1>1, <1>2, <1>3, IngestConstants DEF SourceInv, AnswersSourced
<1>5. ResultsSourced'
  BY <1>1, <1>2, <1>3, IngestConstants DEF SourceInv, ResultsSourced
<1>6. ScoredEndIsTrue'
  BY <1>1, <1>2, <1>3, IngestConstants DEF SourceInv, ScoredEndIsTrue, Final
<1>7. IngestInv'
  BY RecordInvariant DEF SourceInv
<1> QED
  BY <1>4, <1>5, <1>6, <1>7 DEF SourceInv

LEMMA InitSourced == Init => SourceInv
<1> SUFFICES ASSUME Init PROVE SourceInv
  OBVIOUS
<1>1. \A f \in FixtureId : history[f] = << >> /\ results[f] = NoResult
  BY DEF Init, StoreInit
<1>2. ScoredEndIsTrue
  BY DEF Init, ScoredEndIsTrue
<1>3. ResultsSourced
  BY <1>1, IngestConstants DEF ResultsSourced
<1>4. AnswersSourced
  BY DEF Init, IdlePass, AnswersSourced
<1> QED
  BY <1>2, <1>3, <1>4, InitInvariant DEF SourceInv

(* Steps that leave feed, store and the answers that wait alone. *)
LEMMA NothingApplied ==
    ASSUME SourceInv, IngestInv', UNCHANGED <<history, results, endsHeard>>,
           \A b \in Backfill : pass'[b].asked # NoResult =>
               pass'[b].asked = pass[b].asked /\ pass'[b].answer = pass[b].answer
    PROVE  SourceInv'
BY DEF SourceInv, ResultsSourced, AnswersSourced, ScoredEndIsTrue, Final

LEMMA AskSourced ==
    ASSUME SourceInv, NEW b \in Backfill, NEW f \in FixtureId, AskSnapshot(b, f)
    PROVE  AnswersSourced'
<1>1. /\ \A c \in Backfill \ {b} : pass'[c] = pass[c]
      /\ pass'[b].asked = f /\ pass'[b].answer = Snapshot(f)
      /\ UNCHANGED history
  <2>1. pass \in [Backfill -> Pass]
    BY DEF SourceInv, IngestInv, TypeOK
  <2>2. \A c \in Backfill \ {b} : pass'[c] = pass[c]
    BY <2>1 DEF AskSnapshot
  <2>3. pass'[b].asked = f /\ pass'[b].answer = Snapshot(f)
    BY <2>1 DEF AskSnapshot, Pass
  <2> QED
    BY <2>2, <2>3 DEF AskSnapshot
<1>2. EventSourced(history[f], Snapshot(f))
  BY SnapshotIsSourced DEF Snapshot, SourceInv, IngestInv, TypeOK
<1> QED
  BY <1>1, <1>2 DEF SourceInv, AnswersSourced

LEMMA PassSourced ==
    ASSUME SourceInv, NEW b \in Backfill, BackfillStep(b)
    PROVE  SourceInv'
<1>1. CASE ApplySnapshot(b)
  <2>1. /\ IngestInv'
        /\ pass[b].asked \in FixtureId /\ pass[b].answer \in Event
        /\ Apply(pass[b].asked, pass[b].answer)
    BY <1>1, SnapshotStep DEF SourceInv
  <2>2. PICK f \in FixtureId, e \in Event : f = pass[b].asked /\ e = pass[b].answer
    BY <2>1
  <2>3. f \in Covered => EventSourced(history[f], e)
    BY <1>1, <2>2 DEF ApplySnapshot, SourceInv, AnswersSourced
  <2>4. UNCHANGED history
    BY <1>1 DEF ApplySnapshot
  <2>5. ResultsSourced'
    BY <2>1, <2>2, <2>3, <2>4, ApplySourced
  <2>7. ScoredEndIsTrue'
    <3>1. Hear(f, e)
      BY <1>1, <2>2 DEF ApplySnapshot
    <3> QED
      BY <2>1, <2>2, <2>3, <2>4, <3>1, ApplySettles
  <2>6. \A c \in Backfill : pass'[c].asked # NoResult => pass'[c] = pass[c]
    <3>1. pass \in [Backfill -> Pass]
      BY DEF SourceInv, IngestInv, TypeOK
    <3>2. \A c \in Backfill \ {b} : pass'[c] = pass[c]
      BY <1>1, <3>1 DEF ApplySnapshot
    <3>3. pass'[b].asked = NoResult
      BY <1>1, <3>1 DEF ApplySnapshot, Pass
    <3> QED
      BY <3>2, <3>3
  <2> QED
    BY <2>1, <2>4, <2>5, <2>6, <2>7 DEF SourceInv, AnswersSourced
<1>2. CASE ~ApplySnapshot(b)
  <2>0. \/ StartBackfill(b)
        \/ \E f \in FixtureId : SkipRow(b, f) \/ AskSnapshot(b, f) \/ SnapshotFails(b, f)
        \/ EndBackfill(b)
    BY <1>2 DEF BackfillStep
  <2>1. IngestInv' /\ UNCHANGED <<results, table>>
    BY <2>0, PassStep DEF SourceInv
  <2>2. pass \in [Backfill -> Pass]
    BY DEF SourceInv, IngestInv, TypeOK
  <2>3. ASSUME NEW f \in FixtureId, AskSnapshot(b, f) PROVE SourceInv'
    <3>1. UNCHANGED <<history, endsHeard>>
      BY <2>3 DEF AskSnapshot
    <3>2. AnswersSourced'
      BY <2>3, AskSourced
    <3> QED
      BY <2>1, <3>1, <3>2 DEF SourceInv, ResultsSourced, ScoredEndIsTrue, Final
  <2>4. ASSUME NEW f \in FixtureId, SkipRow(b, f) \/ SnapshotFails(b, f) PROVE SourceInv'
    <3>1. pass' = [pass EXCEPT ![b].todo = pass[b].todo \ {f}] /\ UNCHANGED <<history, endsHeard>>
      BY <2>4 DEF SkipRow, SnapshotFails
    <3>2. \A c \in Backfill :
              pass'[c].asked = pass[c].asked /\ pass'[c].answer = pass[c].answer
      BY <2>2, <3>1 DEF Pass
    <3> QED
      BY <2>1, <3>1, <3>2, NothingApplied
  <2>5. CASE StartBackfill(b) \/ EndBackfill(b)
    <3>1. /\ UNCHANGED <<history, endsHeard>>
          /\ \A c \in Backfill \ {b} : pass'[c] = pass[c]
          /\ pass'[b].asked = NoResult
      <4>1. CASE StartBackfill(b)
        BY <2>2, <4>1 DEF StartBackfill, IdlePass
      <4>2. CASE EndBackfill(b)
        BY <2>2, <4>2 DEF EndBackfill, IdlePass
      <4> QED
        BY <2>5, <4>1, <4>2
    <3> QED
      BY <2>1, <3>1, NothingApplied
  <2> QED
    BY <2>0, <2>3, <2>4, <2>5
<1> QED
  BY <1>1, <1>2

(* What the stream delivers is an action of the history. *)
LEMMA DeliveryIsSourced ==
    ASSUME SourceInv, NEW f \in FixtureId, StreamDelivers(f)
    PROVE  EventSourced(history[f], history[f][next[f]])
<1>1. history[f] \in Seq(Event)
  BY DEF SourceInv, IngestInv, TypeOK
<1>2. next[f] \in DOMAIN history[f]
  <2>1. next[f] \in 1..(Len(history[f]) + 1) /\ next[f] <= Len(history[f])
    BY DEF StreamDelivers, SourceInv, IngestInv, TypeOK
  <2> QED
    BY <1>1, <2>1, LenProperties
<1> QED
  BY <1>1, <1>2, ActionIsSourced

LEMMA NextSourced == SourceInv /\ [Next]_vars => SourceInv'
<1> SUFFICES ASSUME SourceInv, [Next]_vars PROVE SourceInv'
  OBVIOUS
<1>0. IngestInv /\ IngestInv'
  BY NextStep DEF SourceInv
<1>1. CASE \E f \in FixtureId, e \in Event : Record(f, e)
  BY <1>1, RecordSourced
<1>2. ASSUME NEW f \in FixtureId, StreamDelivers(f) PROVE SourceInv'
  <2>1. /\ history[f][next[f]] \in Event
        /\ Apply(f, history[f][next[f]])
    BY <1>0, <1>2, DeliveryStep
  <2>2. PICK e \in Event : e = history[f][next[f]]
    BY <2>1
  <2>3. EventSourced(history[f], e)
    BY <1>2, <2>2, DeliveryIsSourced
  <2>4. UNCHANGED <<history, pass>> /\ Hear(f, e)
    BY <1>2, <2>2 DEF StreamDelivers
  <2>5. ResultsSourced'
    BY <2>1, <2>2, <2>3, <2>4, ApplySourced
  <2>6. ScoredEndIsTrue'
    BY <2>1, <2>2, <2>3, <2>4, ApplySettles
  <2> QED
    BY <1>0, <2>4, <2>5, <2>6 DEF SourceInv, AnswersSourced
<1>3. ASSUME NEW f \in FixtureId, NEW s \in Scoreline, NEW final \in BOOLEAN,
             AdminResult(f, s, final)
      PROVE  SourceInv'
  <2>1. PICK e \in Event : e = [score |-> s, final |-> final]
    BY DEF Event
  <2>2. Apply(f, e) /\ f \notin Covered /\ UNCHANGED <<history, pass, endsHeard>>
    BY <1>3, <2>1 DEF AdminResult
  <2>3. ResultsSourced'
    BY <2>2, ApplySourced
  <2>4. \A g \in Covered : results'[g] = results[g]
    BY <2>2, IngestConstants DEF Apply, SourceInv, IngestInv, TypeOK, StoreTypeOK
  <2> QED
    BY <1>0, <2>2, <2>3, <2>4 DEF SourceInv, AnswersSourced, ScoredEndIsTrue, Final
<1>4. CASE StreamConnects \/ StreamDrops \/ UNCHANGED vars
  <2>1. UNCHANGED <<history, results, pass, endsHeard>>
    BY <1>4 DEF StreamConnects, StreamDrops, vars
  <2> QED
    BY <1>0, <2>1, NothingApplied
<1>5. CASE \E b \in Backfill : BackfillStep(b)
  BY <1>5, PassSourced
<1>6. CASE Restart
  <2>1. results' = results
    BY <1>0, <1>6, RestartStep
  <2>2. UNCHANGED <<history, endsHeard>> /\ \A b \in Backfill : pass'[b].asked = NoResult
    BY <1>6 DEF Restart, IdlePass
  <2> QED
    BY <1>0, <2>1, <2>2, NothingApplied
<1> QED
  BY <1>1, <1>2, <1>3, <1>4, <1>5, <1>6 DEF Next

(***************************************************************************)
(* Whatever waits in a backfill pass and whatever the store holds comes    *)
(* from the feed, through gaps, replays, stale snapshots and restarts.     *)
(***************************************************************************)
THEOREM SourceInvariant == Spec => []SourceInv
<1> QED
  BY InitSourced, NextSourced, PTL DEF Spec

(***************************************************************************)
(* NoInventedScore: apply (results.ts:43-78) never shows a scoreline the   *)
(* feed did not report, save the 0-0 of a match that has ended.            *)
(***************************************************************************)
THEOREM ScoresAreReported == Spec => []NoInventedScore
<1>1. SourceInv => NoInventedScore
  BY DEF SourceInv, ResultsSourced, ResultSourced, Reports, NoInventedScore
<1> QED
  BY <1>1, SourceInvariant, PTL

(***************************************************************************)
(* ScoredEndIsTrue: an end that carries the scoreline, however often the   *)
(* end was told before it, settles the match with a scoreline it stood at  *)
(* when it had ended, for good (results.ts:43-78, backfill.ts:23).         *)
(***************************************************************************)
THEOREM ScoredEndsSettle == Spec => []ScoredEndIsTrue
<1>1. SourceInv => ScoredEndIsTrue
  BY DEF SourceInv
<1> QED
  BY <1>1, SourceInvariant, PTL

(* The feed does not correct itself: all ends are told at one scoreline. *)
FeedIsSure == \A f \in FixtureId : Stood(history[f]) \subseteq {TrueScore(f)}

LEMMA RecordIsSure ==
    ASSUME IngestInv, FeedIsSure, ~Corrections, NEW f \in FixtureId, NEW e \in Event, Record(f, e)
    PROVE  FeedIsSure'
<1>1. /\ history[f] \in Seq(Event)
      /\ history'[f] = Append(history[f], e)
      /\ \A g \in FixtureId \ {f} : history'[g] = history[g]
      /\ ~Ended(history[f]) \/ e.score \in {NoScore, Standing(history[f])}
  BY DEF IngestInv, TypeOK, Record, TrueScore
<1>2. PICK h, g : h = history[f] /\ g = history'[f] /\ OneMore(h, e, g)
  BY <1>1 DEF OneMore
<1>3. /\ Ended(g) => Stood(g) = Stood(h) \cup {Standing(g)}
      /\ ~Ended(g) => Stood(g) = Stood(h)
      /\ e.score # NoScore => Standing(g) = e.score
      /\ e.score = NoScore => Standing(g) = Standing(h)
  BY <1>2, OneMoreStood
<1>4. Stood(h) \subseteq {Standing(h)}
  BY <1>2 DEF FeedIsSure, TrueScore
<1>5. Ended(h) => Standing(g) = Standing(h)
  BY <1>1, <1>2, <1>3
<1>6. ~Ended(h) => Stood(h) = {}
  <2> SUFFICES ASSUME NEW n \in DOMAIN h, Ended(SubSeq(h, 1, n)) PROVE Ended(h)
    BY DEF Stood
  <2>1. /\ \A i \in DOMAIN SubSeq(h, 1, n) : i \in DOMAIN h /\ SubSeq(h, 1, n)[i] = h[i]
    BY <1>2, LenProperties
  <2> QED
    BY <2>1 DEF Ended
<1>7. Stood(g) \subseteq {Standing(g)}
  BY <1>3, <1>4, <1>5, <1>6
<1> QED
  BY <1>1, <1>2, <1>7 DEF FeedIsSure, TrueScore

(* Nothing but the feed writes the history. *)
LEMMA OnlyTheFeedRecords ==
    ASSUME [Next]_vars, ~ \E f \in FixtureId, e \in Event : Record(f, e)
    PROVE  history' = history
BY DEF Next, vars, StreamDelivers, AdminResult, StreamConnects, StreamDrops, BackfillStep,
       StartBackfill, SkipRow, AskSnapshot, SnapshotFails, ApplySnapshot, EndBackfill, Restart

(***************************************************************************)
(* If the feed does not correct itself after the end, a match of which an  *)
(* end with its scoreline was ever applied is settled with the true one.   *)
(***************************************************************************)
THEOREM UncorrectedEndsAreTrue ==
    Spec => [](~Corrections => \A f \in Covered :
                   f \in endsHeard => Final(f) /\ results[f].score = TrueScore(f))
<1> DEFINE Sure == ~Corrections => FeedIsSure
           True == ~Corrections => \A f \in Covered :
                       f \in endsHeard => Final(f) /\ results[f].score = TrueScore(f)
<1>1. Init => Sure
  <2> SUFFICES ASSUME Init PROVE FeedIsSure
    OBVIOUS
  <2>1. \A f \in FixtureId : history[f] = << >>
    BY DEF Init
  <2>2. Stood(<< >>) = {}
    BY DEF Stood
  <2> QED
    BY <2>1, <2>2 DEF FeedIsSure
<1>2. IngestInv /\ Sure /\ [Next]_vars => Sure'
  <2> SUFFICES ASSUME IngestInv, FeedIsSure, ~Corrections, [Next]_vars PROVE FeedIsSure'
    OBVIOUS
  <2>1. CASE \E f \in FixtureId, e \in Event : Record(f, e)
    BY <2>1, RecordIsSure
  <2>2. CASE history' = history
    BY <2>2 DEF FeedIsSure, TrueScore
  <2> QED
    BY <2>1, <2>2, OnlyTheFeedRecords
<1>3. SourceInv /\ Sure => True
  BY IngestConstants DEF SourceInv, ScoredEndIsTrue, FeedIsSure
<1> HIDE DEF Sure, True
<1>4. Spec => []True
  BY <1>1, <1>2, <1>3, IngestInvariant, SourceInvariant, PTL DEF Spec
<1> QED
  BY <1>4 DEF True

-----------------------------------------------------------------------------
(* What the stream and a snapshot make of the same history: loops over a    *)
(* sequence, each given by what one pass does.                              *)

(* Every non-empty set of numbers has a least one: what induction rests on.  *)
LEMMA SmallestNumber ==
    ASSUME NEW T, T \subseteq Nat, T # {}
    PROVE  \E n \in T : \A m \in T : n <= m
<1> DEFINE Less == {ss \in Nat \X Nat : ss[1] < ss[2]}
<1>1. IsWellFoundedOn(Less, Nat)
  BY NatLessThanWellFounded, Zenon DEF OpToRel
<1>2. PICK n \in T : \A m \in T : <<m, n>> \notin Less
  <2> HIDE DEF Less
  <2> QED
    BY <1>1, WFMin, Zenon
<1>3. ASSUME NEW m \in T PROVE n <= m
  <2>1. n \in Nat /\ m \in Nat
    BY <1>3
  <2>2. ~(m < n)
    BY <1>2, <2>1
  <2> QED
    BY <2>1, <2>2
<1> QED
  BY <1>3

(* What apply makes of a known result and an event. *)
Known(r, e) ==
    IF \/ r # NoResult /\ r.final /\ ~e.final
       \/ r = NoResult /\ e.score = NoScore /\ ~e.final
    THEN r
    ELSE [score |-> IF e.score # NoScore THEN e.score
                    ELSE IF r # NoResult THEN r.score ELSE NilNil,
          final |-> e.final]

LEMMA ApplyIsKnown ==
    ASSUME StoreTypeOK, NEW f \in FixtureId, NEW e \in Event, Apply(f, e)
    PROVE  results'[f] = Known(results[f], e)
BY DEF StoreTypeOK, Apply, Downgrades, SaysNothing, Merged, Final, Known

(***************************************************************************)
(* fetchScoreSnapshot goes over the ordered history once and keeps a       *)
(* scoreline and a final flag (client.ts:212-223): in the end they are the *)
(* scoreline and the end that the model's Snapshot reads off the history.  *)
(***************************************************************************)
THEOREM SnapshotIsTheFold ==
    ASSUME NEW h \in Seq(Event), NEW merged,
           merged[0] = [score |-> NoScore, final |-> FALSE],
           \A n \in 1..Len(h) : merged[n] = Folded(merged[n - 1], h[n])
    PROVE  merged[Len(h)] = [score |-> LastScore(h), final |-> Ended(h)]
<1>1. Len(h) \in Nat
  BY LenProperties
<1> DEFINE Wrong == {n \in 0..Len(h) : merged[n] # UpTo(h, n)}
<1>2. Wrong = {}
  <2> SUFFICES ASSUME Wrong # {} PROVE FALSE
    OBVIOUS
  <2>1. PICK n \in Wrong : \A m \in Wrong : n <= m
    <3>1. Wrong \subseteq Nat
      BY <1>1
    <3> HIDE DEF Wrong
    <3> QED
      BY <3>1, SmallestNumber
  <2>2. n # 0
    BY <2>1, NothingSeen
  <2>3. n \in 1..Len(h) /\ n - 1 \in 0..Len(h) /\ ~(n <= n - 1)
    BY <1>1, <2>1, <2>2
  <2>4. merged[n - 1] = UpTo(h, n - 1)
    BY <2>1, <2>3
  <2> QED
    BY <2>1, <2>3, <2>4, OneMoreSeen
<1>3. merged[Len(h)] = UpTo(h, Len(h))
  BY <1>1, <1>2
<1>4. SubSeq(h, 1, Len(h)) = h
  BY <1>1
<1> QED
  BY <1>3, <1>4 DEF UpTo

(* A status is on every action (client.ts:39-42), so what comes after the end *)
(* with a scoreline is final too.                                            *)
EndIsAPhase(h) ==
    \A i, j \in DOMAIN h : h[i].final /\ i < j /\ h[j].score # NoScore => h[j].final

(* What apply makes of a snapshot is what it makes of one more action after *)
(* the snapshot of the actions before.                                      *)
LEMMA KnownGoesOn ==
    ASSUME NEW h \in Seq(Event), EndIsAPhase(h), NEW n \in 1..Len(h)
    PROVE  Known(NoResult, UpTo(h, n)) = Known(Known(NoResult, UpTo(h, n - 1)), h[n])
<1> DEFINE m == UpTo(h, n - 1)
           e == h[n]
<1>1. Len(h) \in Nat /\ DOMAIN h = 1..Len(h) /\ e \in Event
  BY LenProperties
<1>2. UpTo(h, n) = Folded(m, e)
  BY OneMoreSeen
<1>3. m.final \in BOOLEAN /\ m.score \in Scoreline \cup {NoScore}
      /\ m = [score |-> m.score, final |-> m.final]
  <2>1. SubSeq(h, 1, n - 1) \in Seq(Event)
    BY <1>1
  <2> QED
    BY <2>1, LastScoreType DEF UpTo, Ended
<1>4. m.final => e.score = NoScore \/ e.final
  <2> SUFFICES ASSUME m.final, e.score # NoScore PROVE e.final
    OBVIOUS
  <2>1. PICK i \in DOMAIN SubSeq(h, 1, n - 1) : SubSeq(h, 1, n - 1)[i].final
    BY DEF UpTo, Ended
  <2>2. i \in DOMAIN h /\ h[i].final /\ i < n /\ n \in DOMAIN h
    BY <1>1, <2>1
  <2> QED
    BY <2>2 DEF EndIsAPhase
<1>5. e.final \in BOOLEAN /\ e.score \in Scoreline \cup {NoScore}
  BY <1>1 DEF Event
<1>6. \A r \in Result : r # NoResult
  BY NoResultAssumption
<1>7. NilNil \in Scoreline /\ NoScore \notin Scoreline
  BY ResultsConstants
<1> HIDE DEF m, e
<1>8. CASE m.final
  <2>0. m.final = TRUE
    BY <1>3, <1>8
  <2>1. PICK r : r = Known(NoResult, m)
    OBVIOUS
  <2>2. r = [score |-> IF m.score # NoScore THEN m.score ELSE NilNil, final |-> TRUE]
    BY <1>8, <2>0, <2>1 DEF Known
  <2>3. PICK s \in Scoreline : s = IF m.score # NoScore THEN m.score ELSE NilNil
    BY <1>3, <1>7
  <2>4. r.score = s /\ r.final = TRUE /\ r # NoResult /\ r = [score |-> s, final |-> TRUE]
    <3>1. r = [score |-> s, final |-> TRUE]
      BY <2>2, <2>3
    <3>2. r \in Result
      BY <3>1 DEF Result
    <3> QED
      BY <1>6, <3>1, <3>2
  <2>5. CASE e.score = NoScore
    <3>1. Folded(m, e) = m
      BY <1>3, <2>0, <2>5 DEF Folded
    <3>2. Known(r, e) = r
      <4>1. CASE ~e.final
        BY <2>4, <4>1 DEF Known
      <4>2. CASE e.final
        <5>1. e.final = TRUE
          BY <1>5, <4>2
        <5>2. Known(r, e) = [score |-> r.score, final |-> e.final]
          BY <2>4, <2>5, <4>2 DEF Known
        <5> QED
          BY <2>4, <5>1, <5>2
      <4> QED
        BY <4>1, <4>2
    <3> QED
      BY <1>2, <2>1, <3>1, <3>2 DEF m, e
  <2>6. CASE e.score # NoScore
    <3>1. e.final = TRUE
      BY <1>4, <1>5, <1>8, <2>6
    <3>2. Folded(m, e) = [score |-> e.score, final |-> TRUE]
      BY <2>0, <2>6 DEF Folded
    <3>3. Known(NoResult, Folded(m, e)) = [score |-> e.score, final |-> TRUE]
      BY <2>6, <3>2 DEF Known
    <3>4. Known(r, e) = [score |-> e.score, final |-> TRUE]
      BY <2>6, <3>1 DEF Known
    <3> QED
      BY <1>2, <2>1, <3>3, <3>4 DEF m, e
  <2> QED
    BY <2>5, <2>6
<1>9. CASE ~m.final
  <2>1. CASE m.score = NoScore
    <3>1. Known(NoResult, m) = NoResult
      BY <1>9, <2>1 DEF Known
    <3>2. Folded(m, e) = [score |-> e.score, final |-> e.final]
      BY <1>3, <1>5, <1>9, <2>1 DEF Folded
    <3>3. Known(NoResult, Folded(m, e)) = Known(NoResult, e)
      BY <3>2 DEF Known
    <3> QED
      BY <1>2, <3>1, <3>3 DEF m, e
  <2>2. CASE m.score # NoScore
    <3>1. Known(NoResult, m) = m /\ m \in Result
      BY <1>3, <1>9, <2>2 DEF Known, Result
    <3>2. Folded(m, e) = [score |-> IF e.score # NoScore THEN e.score ELSE m.score,
                          final |-> e.final]
      BY <1>3, <1>5, <1>9 DEF Folded
    <3>3. Known(m, e) = Folded(m, e)
      BY <1>6, <1>9, <3>1, <3>2 DEF Known
    <3>4. Known(NoResult, Folded(m, e)) = Folded(m, e)
      BY <1>5, <1>7, <2>2, <3>2 DEF Known
    <3> QED
      BY <1>2, <3>1, <3>3, <3>4 DEF m, e
  <2> QED
    BY <2>1, <2>2
<1> QED
  BY <1>3, <1>8, <1>9

(* The results of a store that hears a history, action after action. *)
Hears(heard, h) ==
    /\ heard[0] = NoResult
    /\ \A n \in 1..Len(h) : heard[n] = Known(heard[n - 1], h[n])

LEMMA HeardIsSnapshot ==
    ASSUME NEW h \in Seq(Event), EndIsAPhase(h), NEW heard, Hears(heard, h)
    PROVE  \A n \in 0..Len(h) : heard[n] = Known(NoResult, UpTo(h, n))
<1>1. Len(h) \in Nat
  BY LenProperties
<1> DEFINE Wrong == {n \in 0..Len(h) : heard[n] # Known(NoResult, UpTo(h, n))}
<1> SUFFICES ASSUME Wrong # {} PROVE FALSE
  OBVIOUS
<1>2. PICK n \in Wrong : \A m \in Wrong : n <= m
  <2>1. Wrong \subseteq Nat
    BY <1>1
  <2> HIDE DEF Wrong
  <2> QED
    BY <2>1, SmallestNumber
<1>3. n # 0
  <2>1. Known(NoResult, UpTo(h, 0)) = NoResult
    BY NothingSeen DEF Known
  <2> QED
    BY <1>2, <2>1 DEF Hears
<1>4. n \in 1..Len(h) /\ n - 1 \in 0..Len(h) /\ ~(n <= n - 1)
  BY <1>1, <1>2, <1>3
<1>5. heard[n - 1] = Known(NoResult, UpTo(h, n - 1))
  BY <1>2, <1>4
<1> QED
  BY <1>2, <1>4, <1>5, KnownGoesOn DEF Hears

(***************************************************************************)
(* A stream that delivers everything and one snapshot at the end leave the *)
(* same result, although one folds in apply and the other in               *)
(* fetchScoreSnapshot: "final-wins, like the ResultsStore"                 *)
(* (client.ts:220).  The history may tell the end any number of times, bare*)
(* or with a score, also another score, as long as what it tells after the *)
(* end carries the phase of an ended match.                                *)
(***************************************************************************)
THEOREM StreamAndSnapshotAgree ==
    ASSUME NEW h \in Seq(Event), EndIsAPhase(h), NEW heard, Hears(heard, h)
    PROVE  heard[Len(h)] = Known(NoResult, [score |-> LastScore(h), final |-> Ended(h)])
<1>1. Len(h) \in 0..Len(h)
  BY LenProperties
<1>2. SubSeq(h, 1, Len(h)) = h
  OBVIOUS
<1> QED
  BY <1>1, <1>2, HeardIsSnapshot DEF UpTo

(* What apply makes of results and events. *)
LEMMA KnownType ==
    ASSUME NEW r \in Result \cup {NoResult}, NEW e \in Event
    PROVE  /\ Known(r, e) \in Result \cup {NoResult}
           /\ e.final \/ (r # NoResult /\ r.final) =>
                  Known(r, e) # NoResult /\ Known(r, e).final
<1>1. /\ e.final \in BOOLEAN /\ e.score \in Scoreline \cup {NoScore}
      /\ r # NoResult => r.score \in Scoreline /\ r \in Result
  BY DEF Event, Result
<1>2. CASE Known(r, e) = r /\ (r # NoResult => ~(e.final /\ ~r.final)) /\ (r = NoResult => ~e.final)
  BY <1>2
<1>3. CASE Known(r, e) = [score |-> IF e.score # NoScore THEN e.score
                                    ELSE IF r # NoResult THEN r.score ELSE NilNil,
                          final |-> e.final]
           /\ (e.final \/ ~(r # NoResult /\ r.final))
  <2>1. PICK s \in Scoreline : s = IF e.score # NoScore THEN e.score
                                   ELSE IF r # NoResult THEN r.score ELSE NilNil
    BY <1>1, ResultsConstants
  <2>2. Known(r, e) = [score |-> s, final |-> e.final]
    BY <1>3, <2>1
  <2>3. Known(r, e) \in Result /\ Known(r, e).final = e.final
    BY <1>1, <2>2 DEF Result
  <2> QED
    BY <1>3, <2>3, NoResultAssumption
<1> QED
  BY <1>2, <1>3 DEF Known

(* A store that hears a history holds results, and keeps the final ones. *)
LEMMA HeardType ==
    ASSUME NEW h \in Seq(Event), NEW heard, Hears(heard, h)
    PROVE  \A n \in 0..Len(h) : heard[n] \in Result \cup {NoResult}
<1>1. Len(h) \in Nat
  BY LenProperties
<1> DEFINE Wrong == {n \in 0..Len(h) : heard[n] \notin Result \cup {NoResult}}
<1> SUFFICES ASSUME Wrong # {} PROVE FALSE
  OBVIOUS
<1>2. PICK n \in Wrong : \A m \in Wrong : n <= m
  <2>1. Wrong \subseteq Nat
    BY <1>1
  <2> HIDE DEF Wrong
  <2> QED
    BY <2>1, SmallestNumber
<1>3. n # 0
  BY <1>2 DEF Hears
<1>4. n \in 1..Len(h) /\ n - 1 \in 0..Len(h) /\ ~(n <= n - 1) /\ h[n] \in Event
  BY <1>1, <1>2, <1>3
<1>5. heard[n - 1] \in Result \cup {NoResult}
  BY <1>2, <1>4
<1>6. heard[n] = Known(heard[n - 1], h[n])
  BY <1>4 DEF Hears
<1>7. heard[n] \in Result \cup {NoResult}
  BY <1>4, <1>5, <1>6, KnownType
<1> QED
  BY <1>2, <1>7

LEMMA HeardEndStays ==
    ASSUME NEW h \in Seq(Event), NEW heard, Hears(heard, h),
           NEW k \in 0..Len(h), heard[k] # NoResult, heard[k].final
    PROVE  heard[Len(h)] # NoResult /\ heard[Len(h)].final
<1>1. Len(h) \in Nat
  BY LenProperties
<1> DEFINE Shut(n) == heard[n] # NoResult /\ heard[n].final
           Wrong == {n \in k..Len(h) : ~Shut(n)}
<1> HIDE DEF Shut
<1>2. Wrong = {}
  <2> SUFFICES ASSUME Wrong # {} PROVE FALSE
    OBVIOUS
  <2>1. PICK n \in Wrong : \A m \in Wrong : n <= m
    <3>1. Wrong \subseteq Nat
      BY <1>1
    <3> HIDE DEF Wrong
    <3> QED
      BY <3>1, SmallestNumber
  <2>2. n # k
    BY <2>1 DEF Shut
  <2>3. /\ n \in 1..Len(h) /\ n - 1 \in k..Len(h) /\ n - 1 \in 0..Len(h)
        /\ ~(n <= n - 1) /\ h[n] \in Event
    BY <1>1, <2>1, <2>2
  <2>4. Shut(n - 1)
    BY <2>1, <2>3
  <2>5. heard[n] = Known(heard[n - 1], h[n]) /\ heard[n - 1] \in Result \cup {NoResult}
    BY <2>3, HeardType DEF Hears
  <2>6. Shut(n)
    BY <2>3, <2>4, <2>5, KnownType DEF Shut
  <2> QED
    BY <2>1, <2>6
<1>3. Shut(Len(h))
  BY <1>1, <1>2
<1> QED
  BY <1>3 DEF Shut

(* An action that changes the result r a store ends with makes of r what it *)
(* made of the result before it.                                            *)
LEMMA OverwritesAlike ==
    ASSUME NEW r \in Result \cup {NoResult}, NEW p \in Result \cup {NoResult}, NEW e \in Event,
           p # NoResult /\ p.final => r # NoResult /\ r.final,
           e.final => r # NoResult /\ r.final,
           Known(r, e) # r
    PROVE  Known(r, e) = Known(p, e)
<1>1. /\ e.final \in BOOLEAN
      /\ r # NoResult => r.final \in BOOLEAN /\ r = [score |-> r.score, final |-> r.final]
  BY DEF Event, Result
<1>2. ~(r # NoResult /\ r.final /\ ~e.final)
  BY DEF Known
<1>3. CASE e.score # NoScore
  BY <1>2, <1>3 DEF Known
<1>4. CASE e.score = NoScore
  <2>1. r # NoResult
    BY <1>4 DEF Known
  <2>2. Known(r, e) = [score |-> r.score, final |-> e.final]
    BY <1>2, <1>4, <2>1 DEF Known
  <2>3. r.final = e.final
    BY <1>1, <1>2, <2>1
  <2> QED
    BY <1>1, <2>1, <2>2, <2>3
<1> QED
  BY <1>3, <1>4

(***************************************************************************)
(* Replays are harmless (client.ts:231): a store that has heard a history  *)
(* and hears its actions from the k-th on again ends with the result it    *)
(* had, whatever the history: one end or many, bare or scored, corrected or*)
(* followed by other actions.  On the way it may show an earlier scoreline.*)
(***************************************************************************)
THEOREM ReplaysAreHarmless ==
    ASSUME NEW h \in Seq(Event), NEW heard, Hears(heard, h),
           NEW k \in 1..Len(h), NEW again, again[k - 1] = heard[Len(h)],
           \A n \in k..Len(h) : again[n] = Known(again[n - 1], h[n])
    PROVE  again[Len(h)] = heard[Len(h)]
<1> DEFINE Right(n) == again[n] = heard[Len(h)] \/ again[n] = heard[n]
           Wrong == {n \in (k - 1)..Len(h) : ~Right(n)}
<1>1. Len(h) \in Nat /\ k \in Nat /\ k - 1 \in Nat
  BY LenProperties
<1>2. PICK r \in Result \cup {NoResult} : r = heard[Len(h)]
  BY <1>1, HeardType
<1>3. ASSUME NEW n \in k..Len(h), Right(n - 1) PROVE Right(n)
  <2>1. PICK e \in Event : e = h[n]
    BY <1>1
  <2>2. /\ n \in 1..Len(h) /\ n - 1 \in 0..Len(h) /\ n \in 0..Len(h)
        /\ again[n] = Known(again[n - 1], e)
    BY <1>1, <2>1
  <2>3. PICK p \in Result \cup {NoResult} : p = heard[n - 1]
    BY <2>2, HeardType
  <2>4. heard[n] = Known(p, e)
    BY <2>1, <2>2, <2>3 DEF Hears
  <2>5. p # NoResult /\ p.final => r # NoResult /\ r.final
    BY <1>2, <2>2, <2>3, HeardEndStays
  <2>6. e.final => r # NoResult /\ r.final
    <3> SUFFICES ASSUME e.final PROVE r # NoResult /\ r.final
      OBVIOUS
    <3>1. Known(p, e) # NoResult /\ Known(p, e).final
      BY KnownType
    <3>2. heard[n] # NoResult /\ heard[n].final
      BY <2>4, <3>1
    <3> QED
      BY <1>2, <2>2, <3>2, HeardEndStays
  <2>7. CASE again[n - 1] = p
    BY <2>2, <2>4, <2>7
  <2>8. CASE again[n - 1] = r
    <3>1. CASE Known(r, e) = r
      BY <1>2, <2>2, <2>8, <3>1
    <3>2. CASE Known(r, e) # r
      <4>1. Known(r, e) = Known(p, e)
        BY <2>5, <2>6, <3>2, OverwritesAlike
      <4> QED
        BY <2>2, <2>4, <2>8, <4>1
    <3> QED
      BY <3>1, <3>2
  <2> QED
    BY <1>2, <1>3, <2>3, <2>7, <2>8
<1>4. Right(k - 1)
  OBVIOUS
<1>5. Wrong = {}
  <2> SUFFICES ASSUME Wrong # {} PROVE FALSE
    OBVIOUS
  <2>1. PICK n \in Wrong : \A m \in Wrong : n <= m
    <3>1. Wrong \subseteq Nat
      BY <1>1
    <3> HIDE DEF Wrong
    <3> QED
      BY <3>1, SmallestNumber
  <2> HIDE DEF Right
  <2>2. n # k - 1
    BY <1>4, <2>1
  <2>3. n \in k..Len(h) /\ n - 1 \in (k - 1)..Len(h) /\ ~(n <= n - 1)
    BY <1>1, <2>1, <2>2
  <2>4. Right(n - 1)
    BY <2>1, <2>3
  <2> QED
    BY <1>3, <2>1, <2>3, <2>4
<1>6. Right(Len(h))
  <2> HIDE DEF Right
  <2> QED
    BY <1>1, <1>5
<1> QED
  BY <1>6

-----------------------------------------------------------------------------
(* The store implements MatchBoard. *)

ToldMap == [f \in FixtureId |-> Told(history[f])]
StoodMap == [f \in FixtureId |-> Stood(history[f])]
BoardVars == <<ToldMap, StoodMap, results>>

(* Without a last scoreline there is no scoreline. *)
LEMMA NoLastNoScores ==
    ASSUME NEW h \in Seq(Event), LastScore(h) = NoScore
    PROVE  Told(h) = {}
<1>1. PICK n \in Nat : Len(h) = n /\ DOMAIN h = 1..n
  BY LenProperties
<1> DEFINE FromEnd == {k \in 0..(n - 1) : h[n - k].score # NoScore}
<1>2. FromEnd = {}
  <2> SUFFICES ASSUME FromEnd # {} PROVE FALSE
    OBVIOUS
  <2>1. PICK k \in FromEnd : \A m \in FromEnd : k <= m
    <3>1. FromEnd \subseteq Nat
      BY <1>1
    <3> HIDE DEF FromEnd
    <3> QED
      BY <3>1, SmallestNumber
  <2>2. PICK i \in 1..n : i = n - k /\ k \in Nat
    BY <1>1, <2>1
  <2>3. i \in DOMAIN h /\ h[i].score # NoScore
    BY <1>1, <2>1, <2>2
  <2>4. \A j \in DOMAIN h : j > i => h[j].score = NoScore
    <3> SUFFICES ASSUME NEW j \in 1..n, j > i, h[j].score # NoScore PROVE FALSE
      BY <1>1
    <3>1. PICK m \in 0..(n - 1) : m = n - j /\ n - m = j
      BY <1>1
    <3>2. m \in FromEnd
      BY <3>1
    <3>3. ~(k <= m)
      BY <1>1, <2>2, <3>1
    <3> QED
      BY <2>1, <3>2, <3>3
  <2> QED
    BY <2>3, <2>4, LastScoreIs
<1>3. \A i \in DOMAIN h : h[i].score = NoScore
  <2> TAKE i \in DOMAIN h
  <2>1. PICK k \in 0..(n - 1) : n - k = i
    <3>1. n - i \in 0..(n - 1) /\ n - (n - i) = i
      BY <1>1
    <3> QED
      BY <3>1
  <2> QED
    BY <1>2, <2>1
<1> QED
  BY <1>3 DEF Told

(* A match has ended exactly if it stood at a scoreline when it had. *)
LEMMA OverIsEnded ==
    ASSUME NEW h \in Seq(Event)
    PROVE  Ended(h) <=> Stood(h) # {}
<1>1. Ended(h) => Stood(h) # {}
  BY StandingStood
<1>2. Stood(h) # {} => Ended(h)
  <2> SUFFICES ASSUME NEW n \in DOMAIN h, Ended(SubSeq(h, 1, n)) PROVE Ended(h)
    BY DEF Stood
  <2>1. \A i \in DOMAIN SubSeq(h, 1, n) : i \in DOMAIN h /\ SubSeq(h, 1, n)[i] = h[i]
    BY LenProperties
  <2> QED
    BY <2>1 DEF Ended
<1> QED
  BY <1>1, <1>2

(* At the end a match stands at a scoreline that was told, or at 0-0. *)
LEMMA StandingTold ==
    ASSUME NEW h \in Seq(Event)
    PROVE  /\ Standing(h) \in Scoreline
           /\ Standing(h) \in Told(h) \/ (Told(h) = {} /\ Standing(h) = NilNil)
<1>1. LastScore(h) \in Scoreline \cup {NoScore}
  BY LastScoreType
<1>2. CASE LastScore(h) = NoScore
  BY <1>2, NoLastNoScores, ResultsConstants DEF Standing
<1>3. CASE LastScore(h) # NoScore
  <2>1. Reports(h, LastScore(h))
    BY <1>3, LastScoreReported
  <2> QED
    BY <1>1, <1>3, <2>1 DEF Standing, Reports, Told
<1> QED
  BY <1>2, <1>3

(* An action of the feed tells a score, the end, both, or nothing. *)
LEMMA FeedTells ==
    ASSUME IngestInv, NEW f \in FixtureId, NEW e \in Event, Record(f, e)
    PROVE  [Board!Next]_BoardVars
<1> USE DEF Board!Next, Board!Over, BoardVars
<1>1. /\ history[f] \in Seq(Event) /\ f \in Covered
      /\ history'[f] = Append(history[f], e)
      /\ \A g \in FixtureId \ {f} : history'[g] = history[g]
      /\ UNCHANGED results
  BY DEF IngestInv, TypeOK, Record
<1>2. PICK h, g : h = history[f] /\ g = history'[f] /\ OneMore(h, e, g)
  BY <1>1 DEF OneMore
<1>3. /\ ToldMap' = [ToldMap EXCEPT ![f] = Told(g)] /\ ToldMap[f] = Told(h)
      /\ StoodMap' = [StoodMap EXCEPT ![f] = Stood(g)] /\ StoodMap[f] = Stood(h)
  BY <1>1, <1>2 DEF ToldMap, StoodMap
<1>4. /\ h \in Seq(Event) /\ g \in Seq(Event)
      /\ Ended(g) <=> Ended(h) \/ e.final
  BY <1>2, OneMoreAction DEF OneMore
<1>5. /\ Told(g) = Told(h) \cup ({e.score} \ {NoScore})
      /\ Ended(g) => Stood(g) = Stood(h) \cup {Standing(g)}
      /\ ~Ended(g) => Stood(g) = Stood(h)
      /\ e.score # NoScore => Standing(g) = e.score
      /\ e.score = NoScore => Standing(g) = Standing(h)
  BY <1>2, OneMoreStood
<1>6. (Ended(h) <=> Stood(h) # {}) /\ (Ended(h) => Standing(h) \in Stood(h))
  BY <1>4, OverIsEnded, StandingStood
<1>7. /\ Standing(h) \in Scoreline
      /\ Standing(h) \in Told(h) \/ (Told(h) = {} /\ Standing(h) = NilNil)
  BY <1>4, StandingTold
<1>8. e.score \in Scoreline \cup {NoScore}
  BY DEF Event
<1>9. CASE e.score # NoScore /\ (Ended(h) \/ ~e.final)
  <2>1. ToldMap' = [ToldMap EXCEPT ![f] = ToldMap[f] \cup {e.score}]
    BY <1>3, <1>5, <1>9
  <2>2. StoodMap' = IF StoodMap[f] # {}
                    THEN [StoodMap EXCEPT ![f] = StoodMap[f] \cup {e.score}] ELSE StoodMap
    <3>1. CASE Ended(h)
      BY <1>3, <1>4, <1>5, <1>6, <1>9, <3>1
    <3>2. CASE ~Ended(h)
      <4>1. Stood(g) = StoodMap[f]
        BY <1>3, <1>4, <1>5, <1>9, <3>2
      <4>2. StoodMap' = StoodMap
        BY <1>3, <4>1 DEF StoodMap
      <4> QED
        BY <1>3, <1>6, <3>2, <4>2
    <3> QED
      BY <3>1, <3>2
  <2>3. Board!Score(f, e.score)
    BY <1>1, <2>1, <2>2 DEF Board!Score, ToldMap, StoodMap
  <2> QED
    BY <1>8, <1>9, <2>3
<1>10. CASE e.score # NoScore /\ ~Ended(h) /\ e.final
  <2>1. ToldMap' = [ToldMap EXCEPT ![f] = ToldMap[f] \cup {e.score}]
    BY <1>3, <1>5, <1>10
  <2>2. StoodMap' = [StoodMap EXCEPT ![f] = {e.score}] /\ StoodMap[f] = {}
    BY <1>3, <1>4, <1>5, <1>6, <1>10
  <2>3. Board!EndAt(f, e.score)
    BY <1>1, <2>1, <2>2 DEF Board!EndAt, ToldMap, StoodMap
  <2> QED
    BY <1>8, <1>10, <2>3
<1>11. CASE e.score = NoScore
  <2>1. Told(g) = Told(h)
    BY <1>5, <1>11
  <2>2. ToldMap' = ToldMap
    BY <1>3, <2>1 DEF ToldMap
  <2>3. CASE Ended(h) \/ ~e.final
    <3>1. Stood(g) = Stood(h)
      BY <1>4, <1>5, <1>6, <1>11, <2>3
    <3>2. StoodMap' = StoodMap
      BY <1>3, <3>1 DEF StoodMap
    <3> QED
      BY <1>1, <2>2, <3>2
  <2>4. CASE ~Ended(h) /\ e.final
    <3>1. StoodMap' = [StoodMap EXCEPT ![f] = {Standing(h)}] /\ StoodMap[f] = {}
      BY <1>3, <1>4, <1>5, <1>6, <1>11, <2>4
    <3>2. Standing(h) \in ToldMap[f] \/ (ToldMap[f] = {} /\ Standing(h) = NilNil)
      BY <1>3, <1>7
    <3>3. Board!End(f, Standing(h))
      BY <1>1, <2>2, <3>1, <3>2 DEF Board!End, ToldMap, StoodMap
    <3> QED
      BY <1>7, <3>3
  <2> QED
    BY <2>3, <2>4
<1> QED
  BY <1>9, <1>10, <1>11

(* What apply writes is shown: it is credible, and it changes what is shown  *)
(* of a settled match only to a scoreline that the match stood at.           *)
LEMMA ApplyShows ==
    ASSUME SourceInv, SourceInv', UNCHANGED history, NEW f \in FixtureId, NEW e \in Event,
           Apply(f, e), f \in Covered => EventSourced(history[f], e)
    PROVE  [Board!Next]_BoardVars
<1> USE DEF Board!Next, BoardVars
<1>0. ToldMap' = ToldMap /\ StoodMap' = StoodMap
  BY DEF ToldMap, StoodMap
<1>1. CASE UNCHANGED results
  BY <1>0, <1>1
<1>2. CASE ~Downgrades(f, e) /\ results' = [results EXCEPT ![f] = Merged(f, e)]
  <2>1. StoreTypeOK /\ history[f] \in Seq(Event)
    BY DEF SourceInv, IngestInv, TypeOK
  <2>2. PICK r : r = Merged(f, e)
    OBVIOUS
  <2>3. r \in [score : Scoreline, final : BOOLEAN] /\ r # NoResult
    BY <2>1, <2>2, MergedType, NoResultAssumption DEF Result
  <2>4. results' = [results EXCEPT ![f] = r] /\ results'[f] = r
    BY <1>2, <2>1, <2>2 DEF StoreTypeOK
  <2>5. results[f] # NoResult /\ results[f].final => r.final
    BY <2>1, <2>4, ApplyKeepsFinals DEF Final
  <2>6. ASSUME f \in Covered PROVE Board!Credible(f, r)
    <3>1. ResultSourced(history[f], r)
      BY <2>3, <2>4, <2>6 DEF SourceInv, ResultsSourced
    <3>2. r.score \in Told(history[f]) \/ (r.score = NilNil /\ Ended(history[f]))
      BY <2>3, <3>1, ResultsConstants DEF ResultSourced, Reports, Told
    <3>3. r.final => Ended(history[f])
      BY <3>1 DEF ResultSourced
    <3>4. Ended(history[f]) <=> Stood(history[f]) # {}
      BY <2>1, OverIsEnded
    <3> QED
      BY <3>2, <3>3, <3>4 DEF Board!Credible, Board!Over
  <2>7. ASSUME f \in Covered, Final(f)
        PROVE  r.score = results[f].score \/ r.score \in Stood(history[f])
    <3>1. e.final /\ results[f] # NoResult
      BY <1>2, <2>7 DEF Downgrades, Final
    <3>2. CASE e.score = NoScore
      BY <2>2, <3>1, <3>2 DEF Merged
    <3>3. CASE e.score # NoScore
      BY <2>2, <2>7, <3>1, <3>3 DEF Merged, EventSourced
    <3> QED
      BY <3>2, <3>3
  <2>8. Board!Show(f, r)
    BY <1>0, <2>4, <2>5, <2>6, <2>7 DEF Board!Show, Board!Shut, Final, ToldMap, StoodMap
  <2> QED
    BY <2>3, <2>8
<1> QED
  BY <1>1, <1>2 DEF Apply

LEMMA NextShows ==
    ASSUME SourceInv, SourceInv', [Next]_vars
    PROVE  [Board!Next]_BoardVars
<1> USE DEF BackfillStep
<1>1. SourceInv => IngestInv
  BY DEF SourceInv
<1>2. CASE UNCHANGED <<history, results>>
  BY <1>2 DEF BoardVars, ToldMap, StoodMap
<1>3. CASE \E f \in FixtureId, e \in Event : Record(f, e)
  BY <1>1, <1>3, FeedTells
<1>4. CASE \E f \in FixtureId : StreamDelivers(f)
  <2> PICK f \in FixtureId : StreamDelivers(f)
    BY <1>4
  <2>1. history[f][next[f]] \in Event /\ Apply(f, history[f][next[f]])
    BY <1>1, DeliveryStep
  <2>2. PICK e \in Event : e = history[f][next[f]]
    BY <2>1
  <2>3. EventSourced(history[f], e)
    BY <2>2, DeliveryIsSourced
  <2> QED
    BY <2>1, <2>2, <2>3, ApplyShows DEF StreamDelivers
<1>5. CASE \E f \in FixtureId, s \in Scoreline, final \in BOOLEAN : AdminResult(f, s, final)
  <2> PICK f \in FixtureId, s \in Scoreline, final \in BOOLEAN : AdminResult(f, s, final)
    BY <1>5
  <2> DEFINE e == [score |-> s, final |-> final]
  <2>1. e \in Event /\ Apply(f, e) /\ UNCHANGED history /\ f \notin Covered
    BY DEF AdminResult, Event
  <2> QED
    BY <2>1, ApplyShows
<1>6. CASE StreamConnects \/ StreamDrops
  BY <1>2, <1>6 DEF StreamConnects, StreamDrops
<1>7. CASE \E b \in Backfill : ApplySnapshot(b)
  <2> PICK b \in Backfill : ApplySnapshot(b)
    BY <1>7
  <2>1. /\ pass[b].asked \in FixtureId /\ pass[b].answer \in Event
        /\ Apply(pass[b].asked, pass[b].answer)
    BY <1>1, SnapshotStep
  <2>2. pass[b].asked \in Covered => EventSourced(history[pass[b].asked], pass[b].answer)
    BY DEF ApplySnapshot, SourceInv, AnswersSourced
  <2>3. PICK f \in FixtureId, e \in Event : f = pass[b].asked /\ e = pass[b].answer
    BY <2>1
  <2>4. UNCHANGED history
    BY DEF ApplySnapshot
  <2> QED
    BY <2>1, <2>2, <2>3, <2>4, ApplyShows
<1>8. CASE \E b \in Backfill :
             \/ StartBackfill(b)
             \/ \E f \in FixtureId : SkipRow(b, f) \/ AskSnapshot(b, f) \/ SnapshotFails(b, f)
             \/ EndBackfill(b)
  BY <1>2, <1>8 DEF StartBackfill, SkipRow, AskSnapshot, SnapshotFails, EndBackfill
<1>9. CASE Restart
  BY <1>1, <1>2, <1>9, RestartStep DEF Restart
<1>10. CASE UNCHANGED vars
  BY <1>2, <1>10 DEF vars
<1> QED
  BY <1>3, <1>4, <1>5, <1>6, <1>7, <1>8, <1>9, <1>10 DEF Next

LEMMA InitShows == Init => Board!Init
<1> SUFFICES ASSUME Init PROVE Board!Init
  OBVIOUS
<1>1. \A f \in FixtureId : history[f] = << >> /\ results = [g \in FixtureId |-> NoResult]
  BY DEF Init, StoreInit
<1>2. Told(<< >>) = {} /\ Stood(<< >>) = {}
  BY DEF Told, Stood
<1>3. \A f \in FixtureId : Told(history[f]) = {} /\ Stood(history[f]) = {}
  BY <1>1, <1>2, Zenon
<1>4. results = [g \in FixtureId |-> NoResult]
  BY DEF Init, StoreInit
<1> QED
  BY <1>3, <1>4 DEF Board!Init

(***************************************************************************)
(* The results store implements MatchBoard (RefinesMatchBoard), for any    *)
(* matches, scorelines, passes and restarts: an action of the feed tells   *)
(* something, an apply that writes shows something credible, and the rest, *)
(* a restart included, changes nothing a reader of the board could tell.   *)
(* The feed may tell the end any number of times, bare, scored, corrected. *)
(***************************************************************************)
THEOREM StoreImplementsMatchBoard == Spec => RefinesMatchBoard
<1>1. Init => Board!Init
  BY InitShows
<1>2. SourceInv /\ SourceInv' /\ [Next]_vars => [Board!Next]_BoardVars
  BY NextShows
<1> QED
  BY <1>1, <1>2, SourceInvariant, PTL
     DEF Spec, RefinesMatchBoard, Board!Spec, BoardVars, ToldMap, StoodMap
=============================================================================

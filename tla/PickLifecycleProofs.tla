------------------------ MODULE PickLifecycleProofs ------------------------
(***************************************************************************)
(* What the life of a pick guarantees for any number of pages, worker runs,*)
(* fixtures and transactions in flight: the backend never believes more    *)
(* than the chain, and the chain shows nothing but what was posted first;   *)
(* and no queue or retry pass ever has one pick twice.                     *)
(***************************************************************************)
EXTENDS PickLifecycle, AcertanaProgramProofs, SequenceTheorems, FiniteSetTheorems,
        NaturalsInduction

StoredPick == [fixture : FixtureId, score : Goals \X Goals, revealed : BOOLEAN]

(* The payload is that of a row. *)
InTable(f, score) == \E i \in DOMAIN stored : stored[i].fixture = f /\ stored[i].score = score

Line(k) == <<entries[k].home_goals, entries[k].away_goals>>

(* The table: a pick has one row. *)
TableOK ==
    /\ stored \in Seq(StoredPick)
    /\ \A i, j \in DOMAIN stored : stored[i].fixture = stored[j].fixture => i = j

(* What runs hold and what is on its way comes from the table. *)
SourcesOK ==
    /\ \A q \in Payload :
          [kind |-> "reveal", payload |-> q] \in inFlight => InTable(q.fixture, q.score)
    /\ DOMAIN run = WorkerRun
    /\ \A w \in WorkerRun :
          /\ DOMAIN run[w] = {"active", "rows", "answer"}
          /\ DOMAIN run[w].rows \subseteq Nat
          /\ \A i \in DOMAIN run[w].rows :
                /\ run[w].rows[i] \in StoredPick
                /\ InTable(run[w].rows[i].fixture, run[w].rows[i].score)

(* A run that was told so is about to mark a row whose entry is shown. *)
AnswersOK ==
    \A w \in WorkerRun : \A i \in DOMAIN run[w].rows :
        run[w].answer # Nothing /\ Marks(run[w].answer) /\ At(w, i) =>
            Revealed(Own(run[w].rows[i].fixture))

(* The chain shows a scoreline of the table, and a marked row is shown. *)
ShownInTable == \A f \in FixtureId : Revealed(Own(f)) => InTable(f, Line(Own(f)))

MarkedIsShown == \A i \in DOMAIN stored : stored[i].revealed => Revealed(Own(stored[i].fixture))

PickInv ==
    /\ ChainInv
    /\ TableOK
    /\ SourcesOK
    /\ AnswersOK
    /\ ShownInTable
    /\ MarkedIsShown

-----------------------------------------------------------------------------

LEMMA OwnIsKey ==
    /\ \A f \in FixtureId : Own(f) \in EntryKey /\ Own(f).fixture_id = f
    /\ \A f, g \in FixtureId : Own(f) = Own(g) => f = g
BY PickConstants DEF Own, EntryKey

LEMMA DigestType ==
    ASSUME NEW f \in FixtureId, NEW h \in Goals, NEW a \in Goals
    PROVE  Keccak[<<h, a, SaltOf[f]>>] \in Digest
BY PickConstants, KeccakAssumption

LEMMA RowType ==
    ASSUME TableOK, NEW i \in DOMAIN stored
    PROVE  i \in Nat /\ stored[i] \in StoredPick
BY ElementOfSeq, LenProperties DEF TableOK

(* The six parts imply what the runs check. *)
LEMMA PickInvMeans == PickInv => MarkedMeansShown /\ ShownWasStored
<1> SUFFICES ASSUME PickInv PROVE MarkedMeansShown /\ ShownWasStored
  OBVIOUS
<1>1. ASSUME NEW f \in FixtureId, Revealed(Own(f))
      PROVE  \E i \in DOMAIN stored : stored[i].fixture = f /\ stored[i].score = Line(Own(f))
  BY <1>1 DEF PickInv, ShownInTable, InTable
<1>2. ShownWasStored
  BY <1>1 DEF ShownWasStored, RowsOf, Line
<1>3. ASSUME NEW i \in DOMAIN stored, stored[i].revealed
      PROVE  /\ Revealed(Own(stored[i].fixture))
             /\ Line(Own(stored[i].fixture)) = stored[i].score
  <2>1. stored[i].fixture \in FixtureId
    <3>1. stored[i] \in StoredPick
      BY <1>3, RowType DEF PickInv
    <3> QED
      BY <3>1 DEF StoredPick
  <2>2. Revealed(Own(stored[i].fixture))
    BY <1>3 DEF PickInv, MarkedIsShown
  <2>3. PICK j \in DOMAIN stored :
            stored[j].fixture = stored[i].fixture /\ stored[j].score = Line(Own(stored[i].fixture))
    BY <1>1, <2>1, <2>2
  <2>4. i = j
    BY <2>3 DEF PickInv, TableOK
  <2> QED
    BY <2>2, <2>3, <2>4
<1>4. MarkedMeansShown
  BY <1>3 DEF MarkedMeansShown, Line
<1> QED
  BY <1>2, <1>4

LEMMA InitPickInv == Init => PickInv
<1> SUFFICES ASSUME Init PROVE PickInv
  OBVIOUS
<1>1. ChainInv
  BY PickConstants, ChainConstants
     DEF Init, ChainInv, ChainTypeOK, ShownOpensCommitment, EntriesAnchored, Committed
<1>2. stored = << >> /\ inFlight = {} /\ run = [w \in WorkerRun |-> IdleRun]
  BY DEF Init
<1>3. TableOK /\ MarkedIsShown
  BY <1>2, EmptySeq DEF TableOK, MarkedIsShown
<1>4. SourcesOK /\ AnswersOK
  BY <1>2 DEF SourcesOK, AnswersOK, IdleRun
<1>5. ShownInTable
  BY OwnIsKey DEF Init, ShownInTable, Revealed, Committed
<1> QED
  BY <1>1, <1>3, <1>4, <1>5 DEF PickInv

-----------------------------------------------------------------------------

(* Steps of the chain that this system takes. *)
LEMMA ChainGoesOn ==
    ASSUME PickInv,
           [ChainNext]_chainVars,
           UNCHANGED <<stored, run>>,
           \A q \in Payload : [kind |-> "reveal", payload |-> q] \in inFlight' =>
               [kind |-> "reveal", payload |-> q] \in inFlight,
           \A f \in FixtureId : Revealed(Own(f)) => Revealed(Own(f))',
           \A f \in FixtureId : Revealed(Own(f))' => InTable(f, Line(Own(f))')
    PROVE  PickInv'
<1>1. ChainInv'
  BY StepInv DEF PickInv
<1>2. TableOK'
  BY DEF PickInv, TableOK
<1>3. SourcesOK'
  BY DEF PickInv, SourcesOK, InTable
<1>4. ShownInTable'
  BY DEF ShownInTable, InTable
<1>5. ASSUME NEW w \in WorkerRun, NEW i \in DOMAIN run[w].rows
      PROVE  run[w].rows[i].fixture \in FixtureId
  BY DEF PickInv, SourcesOK, StoredPick
<1>6. AnswersOK'
  BY <1>5 DEF PickInv, AnswersOK, At
<1>7. ASSUME NEW i \in DOMAIN stored PROVE stored[i].fixture \in FixtureId
  <2>1. stored[i] \in StoredPick
    BY RowType DEF PickInv
  <2> QED
    BY <2>1 DEF StoredPick
<1>8. MarkedIsShown'
  BY <1>7 DEF PickInv, MarkedIsShown
<1> QED
  BY <1>1, <1>2, <1>3, <1>4, <1>6, <1>8 DEF PickInv

(* A payload of the table that is revealed, or refused. *)
LEMMA RevealStep ==
    ASSUME PickInv, NEW q \in [fixture : FixtureId, score : Goals \X Goals],
           InTable(q.fixture, q.score),
           RevealExecutes(q) \/ UNCHANGED chainVars
    PROVE  /\ [ChainNext]_chainVars
           /\ \A f \in FixtureId : Revealed(Own(f)) => Revealed(Own(f))'
           /\ \A f \in FixtureId : Revealed(Own(f))' => InTable(f, Line(Own(f))')
<1> DEFINE k == Own(q.fixture)
           h == q.score[1]
           a == q.score[2]
           salt == SaltOf[q.fixture]
<1>1. /\ q.fixture \in FixtureId /\ h \in Goals /\ a \in Goals
      /\ q.score = <<h, a>>
  OBVIOUS
<1>2. k \in EntryKey /\ salt \in Salt
  BY <1>1, OwnIsKey, PickConstants
<1>3. CASE UNCHANGED chainVars
  BY <1>3 DEF PickInv, ShownInTable, chainVars, Revealed, Committed, Line
<1>4. CASE RevealPick(k, h, a, salt)
  <2>1. ChainNext
    BY <1>1, <1>2, <1>4 DEF ChainNext
  <2>2. /\ entries' = [entries EXCEPT ![k] =
               [commitment |-> entries[k].commitment, revealed |-> TRUE,
                home_goals |-> h, away_goals |-> a]]
        /\ entries'[k] \in Entry
        /\ \A j \in EntryKey \ {k} : entries'[j] = entries[j]
    BY <1>1, <1>2, <1>4, RevealEffect DEF PickInv, ChainInv
  <2>3. entries'[k] = [commitment |-> entries[k].commitment, revealed |-> TRUE,
                       home_goals |-> h, away_goals |-> a]
    BY <1>2, <2>2 DEF PickInv, ChainInv, ChainTypeOK
  <2>4. ASSUME NEW f \in FixtureId, f # q.fixture
        PROVE  entries'[Own(f)] = entries[Own(f)]
    BY <1>1, <2>2, <2>4, OwnIsKey
  <2>5. Revealed(k)'
    <3>1. entries'[k] # NoAccount
      BY <2>2, ChainConstants
    <3>2. entries'[k].revealed
      BY <2>3
    <3> QED
      BY <3>1, <3>2 DEF Revealed, Committed
  <2>6. Line(k)' = q.score
    BY <1>1, <2>3 DEF Line
  <2>7. ASSUME NEW f \in FixtureId
        PROVE  /\ Revealed(Own(f)) => Revealed(Own(f))'
               /\ Revealed(Own(f))' => InTable(f, Line(Own(f))')
    <3>1. CASE f = q.fixture
      BY <2>5, <2>6, <3>1
    <3>2. CASE f # q.fixture
      BY <2>4, <3>2 DEF PickInv, ShownInTable, Revealed, Committed, Line
    <3> QED
      BY <3>1, <3>2
  <2> QED
    BY <2>1, <2>7
<1> QED
  BY <1>3, <1>4 DEF RevealExecutes

LEMMA QuietStep ==
    ASSUME PickInv,
           UNCHANGED <<chainVars, stored, run>>,
           \A q \in Payload : [kind |-> "reveal", payload |-> q] \in inFlight' =>
               [kind |-> "reveal", payload |-> q] \in inFlight
    PROVE  PickInv'
<1>1. \A f \in FixtureId : Revealed(Own(f)) => Revealed(Own(f))'
  BY DEF Revealed, Committed, chainVars
<1>2. \A f \in FixtureId : Revealed(Own(f))' => InTable(f, Line(Own(f))')
  BY DEF Revealed, Committed, chainVars, Line, PickInv, ShownInTable
<1> QED
  BY <1>1, <1>2, ChainGoesOn

LEMMA TimePassesInv == PickInv /\ TimePasses => PickInv'
<1> SUFFICES ASSUME PickInv, TimePasses PROVE PickInv'
  OBVIOUS
<1>1. [ChainNext]_chainVars
  BY DEF TimePasses, ChainNext
<1>2. UNCHANGED <<entries, inFlight, stored, run>>
  BY DEF TimePasses, Tick, backendVars
<1>3. \A f \in FixtureId : Revealed(Own(f)) => Revealed(Own(f))'
  BY <1>2 DEF Revealed, Committed
<1>4. \A f \in FixtureId : Revealed(Own(f))' => InTable(f, Line(Own(f))')
  BY <1>2 DEF Revealed, Committed, Line, PickInv, ShownInTable
<1> QED
  BY <1>1, <1>2, <1>3, <1>4, ChainGoesOn

LEMMA CommitLandsInv ==
    ASSUME PickInv, NEW p \in Page, NEW q \in Payload, CommitLands(p, q)
    PROVE  PickInv'
<1>1. UNCHANGED <<stored, run>> /\ inFlight' \subseteq inFlight
  BY DEF CommitLands, backendVars
<1>2. CASE UNCHANGED chainVars
  BY <1>1, <1>2, QuietStep
<1>3. CASE CommitPick(Own(q.fixture), DigestOf(q))
  <2> DEFINE k == Own(q.fixture)
  <2>1. q.fixture \in FixtureId /\ q.score \in Goals \X Goals
    BY PickConstants DEF Payload
  <2>2. k \in EntryKey
    BY <2>1, OwnIsKey
  <2>3. DigestOf(q) \in Digest
    BY <2>1, DigestType DEF DigestOf
  <2>4. ChainNext
    BY <1>3, <2>2, <2>3 DEF ChainNext
  <2>5. ~Committed(k)
    BY <1>3 DEF CommitPick, CommitAccounts
  <2>6. /\ entries'[k].revealed = FALSE
        /\ \A j \in EntryKey \ {k} : entries'[j] = entries[j]
    BY <1>3, <2>2 DEF CommitPick, PickInv, ChainInv, ChainTypeOK
  <2>7. ASSUME NEW f \in FixtureId
        PROVE  /\ Revealed(Own(f)) => Revealed(Own(f))'
               /\ Revealed(Own(f))' => InTable(f, Line(Own(f))')
    <3>1. Own(f) \in EntryKey
      BY OwnIsKey
    <3>2. CASE Own(f) = k
      BY <2>5, <2>6, <3>2 DEF Revealed
    <3>3. CASE Own(f) # k
      BY <2>6, <3>1, <3>3 DEF PickInv, ShownInTable, Revealed, Committed, Line
    <3> QED
      BY <3>2, <3>3
  <2> QED
    BY <1>1, <2>4, <2>7, ChainGoesOn
<1> QED
  BY <1>2, <1>3 DEF CommitLands

LEMMA RevealLandsInv ==
    ASSUME PickInv, NEW q \in Payload, RevealLands(q)
    PROVE  PickInv'
<1>1. UNCHANGED <<stored, run>> /\ inFlight' \subseteq inFlight
  BY DEF RevealLands, backendVars
<1>2. q \in [fixture : FixtureId, score : Goals \X Goals]
  BY PickConstants DEF Payload
<1>3. InTable(q.fixture, q.score)
  BY DEF RevealLands, PickInv, SourcesOK
<1>4. RevealExecutes(q) \/ UNCHANGED chainVars
  BY DEF RevealLands
<1> QED
  BY <1>1, <1>2, <1>3, <1>4, RevealStep, ChainGoesOn

-----------------------------------------------------------------------------

(* The table grows by a row for a pick that has none. *)
LEMMA PostStep ==
    ASSUME PickInv, NEW q, NEW ok \in BOOLEAN, Post(q, ok),
           UNCHANGED <<chainVars, inFlight, run>>
    PROVE  PickInv'
<1>1. CASE UNCHANGED stored
  BY <1>1, QuietStep
<1>2. CASE WellFormed(q) /\ RowsOf(q.fixture) = {} /\ stored' = Append(stored, NewRow(q))
  <2>1. stored \in Seq(StoredPick)
    BY DEF PickInv, TableOK
  <2>2. NewRow(q) \in StoredPick
    BY <1>2 DEF WellFormed, NewRow, StoredPick
  <2>3. /\ stored' \in Seq(StoredPick)
        /\ Len(stored) \in Nat
        /\ DOMAIN stored = 1..Len(stored)
        /\ DOMAIN stored' = 1..(Len(stored) + 1)
        /\ \A i \in 1..Len(stored) : stored'[i] = stored[i]
        /\ stored'[Len(stored) + 1] = NewRow(q)
    BY <1>2, <2>1, <2>2, AppendProperties, LenProperties
  <2>4. \A i \in DOMAIN stored : i \in DOMAIN stored' /\ stored'[i] = stored[i]
    BY <2>3
  <2>5. \A i \in DOMAIN stored' : i \in DOMAIN stored \/ i = Len(stored) + 1
    BY <2>3
  <2>6. \A i \in DOMAIN stored : stored[i].fixture # q.fixture
    BY <1>2 DEF RowsOf
  <2>7. NewRow(q).fixture = q.fixture /\ NewRow(q).revealed = FALSE
    BY DEF NewRow
  <2>8. TableOK'
    <3>1. ASSUME NEW i \in DOMAIN stored', NEW j \in DOMAIN stored',
                 stored'[i].fixture = stored'[j].fixture
          PROVE  i = j
      BY <2>3, <2>4, <2>5, <2>6, <2>7, <3>1 DEF PickInv, TableOK
    <3> QED
      BY <2>3, <3>1 DEF TableOK
  <2>9. \A f, score : InTable(f, score) => InTable(f, score)'
    BY <2>4 DEF InTable
  <2>10. SourcesOK'
    BY <2>9 DEF PickInv, SourcesOK
  <2>11. UNCHANGED entries
    BY DEF chainVars
  <2>12. AnswersOK'
    BY <2>11 DEF PickInv, AnswersOK, At, Revealed, Committed
  <2>13. ShownInTable'
    BY <2>9, <2>11 DEF PickInv, ShownInTable, Revealed, Committed, Line
  <2>14. MarkedIsShown'
    BY <2>3, <2>4, <2>5, <2>7, <2>11 DEF PickInv, MarkedIsShown, Revealed, Committed
  <2>15. ChainInv'
    BY StutterInv DEF PickInv
  <2> QED
    BY <2>8, <2>10, <2>12, <2>13, <2>14, <2>15 DEF PickInv
<1> QED
  BY <1>1, <1>2 DEF Post, StorePick

-----------------------------------------------------------------------------

(* What the loop goes on with is part of what it had. *)
LEMMA AheadIsPart ==
    ASSUME NEW rows
    PROVE  /\ DOMAIN Ahead(rows) \subseteq DOMAIN rows
           /\ \A i \in DOMAIN Ahead(rows) : Ahead(rows)[i] = rows[i]
BY DEF Ahead

(* A run starts from a copy of rows of the table. *)
LEMMA StartRunInv ==
    ASSUME PickInv, NEW w \in WorkerRun, StartRun(w)
    PROVE  PickInv'
<1>1. UNCHANGED <<chainVars, inFlight, stored>>
  BY DEF StartRun
<1>2. PICK due \in SUBSET DOMAIN stored :
          run' = [run EXCEPT ![w] =
              [active |-> TRUE, rows |-> Ahead([i \in due |-> stored[i]]), answer |-> Nothing]]
  BY DEF StartRun
<1>3. PICK rows : rows = Ahead([i \in due |-> stored[i]])
  OBVIOUS
<1> DEFINE r == [active |-> TRUE, rows |-> rows, answer |-> Nothing]
<1>4. /\ DOMAIN run' = WorkerRun
      /\ run'[w] = r
      /\ \A v \in WorkerRun \ {w} : run'[v] = run[v]
  BY <1>2, <1>3 DEF PickInv, SourcesOK
<1>5. DOMAIN rows \subseteq due /\ \A i \in DOMAIN rows : rows[i] = stored[i]
  BY <1>3, AheadIsPart
<1>6. /\ DOMAIN rows \subseteq Nat
      /\ \A i \in DOMAIN rows : rows[i] \in StoredPick /\ InTable(rows[i].fixture, rows[i].score)
  BY <1>5, RowType DEF PickInv, InTable
<1>a. r.answer = Nothing /\ DOMAIN r = {"active", "rows", "answer"} /\ r.rows = rows
  OBVIOUS
<1> HIDE DEF r
<1>7. SourcesOK'
  <2>1. \A v \in WorkerRun :
            /\ DOMAIN run'[v] = {"active", "rows", "answer"}
            /\ DOMAIN run'[v].rows \subseteq Nat
            /\ \A i \in DOMAIN run'[v].rows :
                  /\ run'[v].rows[i] \in StoredPick
                  /\ InTable(run'[v].rows[i].fixture, run'[v].rows[i].score)
    BY <1>4, <1>6, <1>a DEF PickInv, SourcesOK
  <2> QED
    BY <1>1, <1>4, <2>1 DEF PickInv, SourcesOK, InTable
<1>8. AnswersOK'
  BY <1>1, <1>4, <1>a DEF PickInv, AnswersOK, At, Revealed, Committed, chainVars
<1>9. TableOK' /\ ShownInTable' /\ MarkedIsShown'
  BY <1>1 DEF PickInv, TableOK, ShownInTable, MarkedIsShown, InTable, Line, Revealed, Committed,
              chainVars
<1>10. ChainInv'
  BY <1>1, StutterInv DEF PickInv
<1> QED
  BY <1>7, <1>8, <1>9, <1>10 DEF PickInv

(* An answer that marks the row says that its entry is shown. *)
LEMMA AnswerIsTrue ==
    ASSUME PickInv, NEW q \in [fixture : FixtureId, score : Goals \X Goals],
           RevealExecutes(q),
           Marks(RevealOutcome(Own(q.fixture), q.score[1], q.score[2], SaltOf[q.fixture]))
    PROVE  Revealed(Own(q.fixture)) \/ Revealed(Own(q.fixture))'
<1> DEFINE k == Own(q.fixture)
           h == q.score[1]
           a == q.score[2]
           salt == SaltOf[q.fixture]
<1>1. h \in Goals /\ a \in Goals /\ k \in EntryKey /\ salt \in Salt
  BY OwnIsKey, PickConstants
<1>2. CASE RevealOutcome(k, h, a, salt) = "AlreadyRevealed"
  BY <1>2 DEF RevealOutcome
<1>3. CASE RevealOutcome(k, h, a, salt) = "Ok"
  <2>1. RevealPick(k, h, a, salt)
    BY <1>3 DEF RevealExecutes
  <2>2. /\ entries' = [entries EXCEPT ![k] =
               [commitment |-> entries[k].commitment, revealed |-> TRUE,
                home_goals |-> h, away_goals |-> a]]
        /\ entries'[k] \in Entry
    BY <1>1, <2>1, RevealEffect DEF PickInv, ChainInv
  <2>3. entries'[k].revealed
    BY <1>1, <2>2 DEF PickInv, ChainInv, ChainTypeOK
  <2>4. entries'[k] # NoAccount
    BY <2>2, ChainConstants
  <2> QED
    BY <2>3, <2>4 DEF Revealed, Committed
<1> QED
  BY <1>2, <1>3 DEF Marks

(* Only one row is the first of those left. *)
LEMMA AtIsUnique ==
    ASSUME PickInv, NEW w \in WorkerRun, NEW i, NEW j, At(w, i), At(w, j)
    PROVE  i = j
<1>1. i \in Nat /\ j \in Nat /\ i <= j /\ j <= i
  BY DEF At, PickInv, SourcesOK
<1> QED
  BY <1>1

LEMMA SendAnsweredInv ==
    ASSUME PickInv, NEW w \in WorkerRun, NEW f \in FixtureId, SendAnswered(w, f)
    PROVE  PickInv'
<1>1. UNCHANGED <<inFlight, stored>>
  BY DEF SendAnswered
<1>2. PICK i \in DOMAIN run[w].rows :
          /\ At(w, i)
          /\ RevealExecutes(PayloadOf(run[w].rows[i]))
          /\ run' = [run EXCEPT ![w] = [@ EXCEPT !.answer =
                 RevealOutcome(Own(run[w].rows[i].fixture), run[w].rows[i].score[1],
                               run[w].rows[i].score[2], SaltOf[run[w].rows[i].fixture])]]
  BY DEF SendAnswered, Sending, PayloadOf
<1>3. PICK q : q = PayloadOf(run[w].rows[i])
  OBVIOUS
<1>4. PICK o : o = RevealOutcome(Own(q.fixture), q.score[1], q.score[2], SaltOf[q.fixture])
  OBVIOUS
<1>5. q.fixture = run[w].rows[i].fixture /\ q.score = run[w].rows[i].score
  BY <1>3 DEF PayloadOf
<1>6. /\ q \in [fixture : FixtureId, score : Goals \X Goals]
      /\ InTable(q.fixture, q.score)
  BY <1>2, <1>3, <1>5 DEF PickInv, SourcesOK, StoredPick, PayloadOf
<1>7. RevealExecutes(q)
  BY <1>2, <1>3
<1>8. /\ [ChainNext]_chainVars
      /\ \A g \in FixtureId : Revealed(Own(g)) => Revealed(Own(g))'
      /\ \A g \in FixtureId : Revealed(Own(g))' => InTable(g, Line(Own(g))')
  BY <1>6, <1>7, RevealStep
<1>9. Marks(o) => Revealed(Own(q.fixture))'
  BY <1>4, <1>6, <1>7, <1>8, AnswerIsTrue
<1>10. run' = [run EXCEPT ![w] = [run[w] EXCEPT !.answer = o]]
  BY <1>2, <1>4, <1>5
<1>11. /\ DOMAIN run' = WorkerRun
       /\ \A v \in WorkerRun \ {w} : run'[v] = run[v]
       /\ run'[w].rows = run[w].rows
       /\ DOMAIN run'[w] = DOMAIN run[w]
  BY <1>10 DEF PickInv, SourcesOK
<1>12. \A v \in WorkerRun : run'[v].rows = run[v].rows /\ DOMAIN run'[v] = DOMAIN run[v]
  BY <1>11
<1>13. SourcesOK'
  BY <1>1, <1>11, <1>12 DEF PickInv, SourcesOK, InTable
<1>14. AnswersOK'
  <2> SUFFICES ASSUME NEW v \in WorkerRun, NEW j \in DOMAIN run'[v].rows,
                      run'[v].answer # Nothing, Marks(run'[v].answer),
                      \A l \in DOMAIN run'[v].rows : j <= l
               PROVE  Revealed(Own(run[v].rows[j].fixture))'
    BY DEF AnswersOK, At
  <2>1. j \in DOMAIN run[v].rows /\ At(v, j) /\ run'[v].rows[j] = run[v].rows[j]
    BY <1>12 DEF At
  <2>2. PICK g \in FixtureId : g = run[v].rows[j].fixture /\ g = run'[v].rows[j].fixture
    BY <2>1 DEF PickInv, SourcesOK, StoredPick
  <2> SUFFICES Revealed(Own(g))'
    BY <2>2
  <2>3. CASE v = w
    <3>1. i = j
      BY <1>2, <2>1, <2>3, AtIsUnique
    <3>2. run'[w].answer = o
      BY <1>10 DEF PickInv, SourcesOK
    <3> QED
      BY <1>5, <1>9, <2>2, <2>3, <3>1, <3>2
  <2>4. CASE v # w
    <3>1. Revealed(Own(g))
      BY <1>11, <2>1, <2>2, <2>4 DEF PickInv, AnswersOK
    <3> QED
      BY <1>8, <3>1
  <2> QED
    BY <2>3, <2>4
<1>15. ChainInv'
  BY <1>8, StepInv DEF PickInv
<1>16. TableOK' /\ ShownInTable'
  BY <1>1, <1>8 DEF PickInv, TableOK, ShownInTable, InTable
<1>17. MarkedIsShown'
  <2>1. \A j \in DOMAIN stored : stored[j].fixture \in FixtureId
    BY RowType DEF PickInv, StoredPick
  <2> QED
    BY <1>1, <1>8, <2>1 DEF PickInv, MarkedIsShown
<1> QED
  BY <1>13, <1>14, <1>15, <1>16, <1>17 DEF PickInv

LEMMA SendUnansweredInv ==
    ASSUME PickInv, NEW w \in WorkerRun, NEW f \in FixtureId, SendUnanswered(w, f)
    PROVE  PickInv'
<1>1. UNCHANGED <<chainVars, stored>>
  BY DEF SendUnanswered
<1>2. PICK i \in DOMAIN run[w].rows :
          inFlight' \subseteq inFlight \cup
              {[kind |-> "reveal", payload |-> PayloadOf(run[w].rows[i])]}
  BY DEF SendUnanswered
<1>3. run' = [run EXCEPT ![w] = [run[w] EXCEPT !.answer = "NoAnswer"]]
  BY DEF SendUnanswered
<1>4. /\ DOMAIN run' = WorkerRun
      /\ \A v \in WorkerRun \ {w} : run'[v] = run[v]
      /\ run'[w].rows = run[w].rows
      /\ DOMAIN run'[w] = DOMAIN run[w]
      /\ run'[w].answer = "NoAnswer"
  BY <1>3 DEF PickInv, SourcesOK
<1>5. \A v \in WorkerRun : run'[v].rows = run[v].rows /\ DOMAIN run'[v] = DOMAIN run[v]
  BY <1>4
<1>6. ASSUME NEW q \in Payload, [kind |-> "reveal", payload |-> q] \in inFlight'
      PROVE  InTable(q.fixture, q.score)
  <2>1. CASE [kind |-> "reveal", payload |-> q] \in inFlight
    BY <2>1 DEF PickInv, SourcesOK
  <2>2. CASE [kind |-> "reveal", payload |-> q] =
             [kind |-> "reveal", payload |-> PayloadOf(run[w].rows[i])]
    <3>1. q = PayloadOf(run[w].rows[i])
      BY <2>2
    <3>2. q.fixture = run[w].rows[i].fixture /\ q.score = run[w].rows[i].score
      BY <3>1 DEF PayloadOf
    <3> QED
      BY <3>2 DEF PickInv, SourcesOK
  <2> QED
    BY <1>2, <1>6, <2>1, <2>2
<1>7. SourcesOK'
  BY <1>1, <1>4, <1>5, <1>6 DEF PickInv, SourcesOK, InTable
<1>8. ~Marks("NoAnswer")
  BY DEF Marks
<1>9. AnswersOK'
  BY <1>1, <1>4, <1>8 DEF PickInv, AnswersOK, At, Revealed, Committed, chainVars
<1>10. TableOK' /\ ShownInTable' /\ MarkedIsShown'
  BY <1>1 DEF PickInv, TableOK, ShownInTable, MarkedIsShown, InTable, Line, Revealed, Committed,
              chainVars
<1>11. ChainInv'
  BY <1>1, StutterInv DEF PickInv
<1> QED
  BY <1>7, <1>9, <1>10, <1>11 DEF PickInv

(* UPDATE ... WHERE wallet and fixture marks the row of one pick. *)
LEMMA MarkRowStep ==
    ASSUME TableOK, NEW g \in FixtureId, MarkRow(g)
    PROVE  /\ TableOK'
           /\ DOMAIN stored' = DOMAIN stored
           /\ \A j \in DOMAIN stored :
                 /\ stored'[j].fixture = stored[j].fixture
                 /\ stored'[j].score = stored[j].score
                 /\ stored'[j].revealed => stored[j].revealed \/ stored[j].fixture = g
                 /\ stored[j].revealed => stored'[j].revealed
<1>1. /\ stored \in Seq(StoredPick)
      /\ Len(stored) \in Nat
      /\ DOMAIN stored = 1..Len(stored)
  BY LenProperties DEF TableOK
<1>2. ASSUME NEW j \in DOMAIN stored
      PROVE  /\ stored'[j] \in StoredPick
             /\ stored'[j].fixture = stored[j].fixture
             /\ stored'[j].score = stored[j].score
             /\ stored'[j].revealed => stored[j].revealed \/ stored[j].fixture = g
             /\ stored[j].revealed => stored'[j].revealed
  <2>1. stored[j] \in StoredPick
    BY RowType
  <2>2. CASE stored[j].fixture = g
    <3>1. stored'[j] = [stored[j] EXCEPT !.revealed = TRUE]
      BY <2>2 DEF MarkRow
    <3> QED
      BY <2>1, <2>2, <3>1 DEF StoredPick
  <2>3. CASE stored[j].fixture # g
    <3>1. stored'[j] = stored[j]
      BY <2>3 DEF MarkRow
    <3> QED
      BY <2>1, <3>1
  <2> QED
    BY <2>2, <2>3
<1>3. DOMAIN stored' = DOMAIN stored
  BY DEF MarkRow
<1>4. stored' \in Seq(StoredPick)
  <2>1. stored' = [j \in 1..Len(stored) |-> stored'[j]]
    BY <1>1 DEF MarkRow
  <2>2. stored' \in [1..Len(stored) -> StoredPick]
    BY <1>1, <1>2, <2>1
  <2> QED
    BY <1>1, <2>2
<1> QED
  BY <1>2, <1>3, <1>4 DEF TableOK

LEMMA FinishRowInv ==
    ASSUME PickInv, NEW w \in WorkerRun, FinishRow(w)
    PROVE  PickInv'
<1>1. UNCHANGED <<chainVars, inFlight>>
  BY DEF FinishRow
<1>2. PICK i \in DOMAIN run[w].rows :
          /\ At(w, i)
          /\ IF Marks(run[w].answer) THEN MarkRow(run[w].rows[i].fixture) ELSE UNCHANGED stored
          /\ run' = [run EXCEPT ![w] = [active |-> RowsAfter(w, i) # << >>,
                                        rows |-> RowsAfter(w, i), answer |-> Nothing]]
  BY DEF FinishRow
<1>3. PICK g \in FixtureId : g = run[w].rows[i].fixture
  BY DEF PickInv, SourcesOK, StoredPick
<1>4. run[w].answer # Nothing /\ Marks(run[w].answer) => Revealed(Own(g))
  BY <1>2, <1>3 DEF PickInv, AnswersOK
<1>5. /\ TableOK'
      /\ DOMAIN stored' = DOMAIN stored
      /\ \A j \in DOMAIN stored :
            /\ stored'[j].fixture = stored[j].fixture
            /\ stored'[j].score = stored[j].score
            /\ stored'[j].revealed => stored[j].revealed \/ Revealed(Own(stored[j].fixture))
  <2>1. CASE Marks(run[w].answer)
    BY <1>2, <1>3, <1>4, <2>1, MarkRowStep DEF PickInv, FinishRow
  <2>2. CASE ~Marks(run[w].answer)
    BY <1>2, <2>2 DEF PickInv, TableOK
  <2> QED
    BY <2>1, <2>2
<1>6. \A f, score : InTable(f, score) => InTable(f, score)'
  BY <1>5 DEF InTable
<1>7. PICK rest : rest = RowsAfter(w, i)
  OBVIOUS
<1>8. PICK act : act = (RowsAfter(w, i) # << >>)
  OBVIOUS
<1>9. /\ DOMAIN rest \subseteq DOMAIN run[w].rows
      /\ \A j \in DOMAIN rest : rest[j] = run[w].rows[j]
  BY <1>7, AheadIsPart DEF RowsAfter
<1>10. run' = [run EXCEPT ![w] = [active |-> act, rows |-> rest, answer |-> Nothing]]
  BY <1>2, <1>7, <1>8
<1>11. /\ DOMAIN run' = WorkerRun
       /\ \A v \in WorkerRun \ {w} : run'[v] = run[v]
       /\ run'[w] = [active |-> act, rows |-> rest, answer |-> Nothing]
  BY <1>10 DEF PickInv, SourcesOK
<1>12. ASSUME NEW v \in WorkerRun
       PROVE  /\ DOMAIN run'[v] = {"active", "rows", "answer"}
              /\ DOMAIN run'[v].rows \subseteq DOMAIN run[v].rows
              /\ \A j \in DOMAIN run'[v].rows : run'[v].rows[j] = run[v].rows[j]
  BY <1>9, <1>11 DEF PickInv, SourcesOK
<1>13. SourcesOK'
  <2>1. \A q \in Payload :
            [kind |-> "reveal", payload |-> q] \in inFlight' => InTable(q.fixture, q.score)'
    BY <1>1, <1>6 DEF PickInv, SourcesOK
  <2>2. ASSUME NEW v \in WorkerRun, NEW j \in DOMAIN run'[v].rows
        PROVE  run'[v].rows[j] \in StoredPick
               /\ InTable(run[v].rows[j].fixture, run[v].rows[j].score)
    BY <1>12 DEF PickInv, SourcesOK
  <2>3. ASSUME NEW v \in WorkerRun, NEW j \in DOMAIN run'[v].rows
        PROVE  \E l \in DOMAIN stored' : /\ stored'[l].fixture = run'[v].rows[j].fixture
                                         /\ stored'[l].score = run'[v].rows[j].score
    BY <1>5, <1>12, <2>2 DEF InTable
  <2>4. \A v \in WorkerRun : DOMAIN run'[v].rows \subseteq Nat
    BY <1>12 DEF PickInv, SourcesOK
  <2> QED
    BY <1>11, <1>12, <2>1, <2>2, <2>3, <2>4 DEF SourcesOK, InTable
<1>14. AnswersOK'
  BY <1>1, <1>11 DEF PickInv, AnswersOK, At, Revealed, Committed, chainVars
<1>15. ShownInTable'
  BY <1>1, <1>6 DEF PickInv, ShownInTable, Line, Revealed, Committed, chainVars
<1>16. MarkedIsShown'
  <2>1. ASSUME NEW j \in DOMAIN stored', stored'[j].revealed
        PROVE  Revealed(Own(stored[j].fixture)) /\ stored'[j].fixture = stored[j].fixture
    BY <1>5, <2>1 DEF PickInv, MarkedIsShown
  <2> QED
    BY <1>1, <2>1 DEF MarkedIsShown, Revealed, Committed, chainVars
<1>17. ChainInv'
  BY <1>1, StutterInv DEF PickInv
<1> QED
  BY <1>5, <1>13, <1>14, <1>15, <1>16, <1>17 DEF PickInv

(* A restart loses the runs and keeps the table. *)
LEMMA RestartInv == PickInv /\ RestartBackend => PickInv'
<1> SUFFICES ASSUME PickInv, RestartBackend PROVE PickInv'
  OBVIOUS
<1>1. UNCHANGED <<chainVars, inFlight, stored>>
  BY DEF RestartBackend
<1>2. run' = [w \in WorkerRun |-> IdleRun]
  BY DEF RestartBackend
<1>3. SourcesOK'
  BY <1>1, <1>2 DEF PickInv, SourcesOK, InTable, IdleRun
<1>4. AnswersOK'
  BY <1>2 DEF AnswersOK, IdleRun
<1>5. TableOK' /\ ShownInTable' /\ MarkedIsShown'
  BY <1>1 DEF PickInv, TableOK, ShownInTable, MarkedIsShown, InTable, Line, Revealed, Committed,
              chainVars
<1>6. ChainInv'
  BY <1>1, StutterInv DEF PickInv
<1> QED
  BY <1>3, <1>4, <1>5, <1>6 DEF PickInv

-----------------------------------------------------------------------------

LEMMA ClientInv ==
    ASSUME PickInv, NEW p \in Page, Client(p)
    PROVE  PickInv'
<1>1. ASSUME NEW f \in FixtureId, NEW s \in Score, SubmitCommit(p, f, s) PROVE PickInv'
  <2>1. UNCHANGED <<chainVars, stored, run>>
    BY <1>1 DEF SubmitCommit, backendVars
  <2>2. \A q \in Payload : [kind |-> "reveal", payload |-> q] \in inFlight' =>
            [kind |-> "reveal", payload |-> q] \in inFlight
    BY <1>1 DEF SubmitCommit
  <2> QED
    BY <2>1, <2>2, QuietStep
<1>2. ASSUME NEW f \in FixtureId, ConfirmThrows(p, f) \/ FinishCommit(p, f) PROVE PickInv'
  <2>1. UNCHANGED <<chainVars, stored, run, inFlight>>
    BY <1>2 DEF ConfirmThrows, FinishCommit, backendVars
  <2> QED
    BY <2>1, QuietStep
<1>3. ASSUME NEW f \in FixtureId, PostPick(p, f) PROVE PickInv'
  <2>1. PICK ok \in BOOLEAN : Post([fixture |-> f, score |-> flow[p][f].score], ok)
    BY <1>3 DEF PostPick
  <2>2. PICK q : q = [fixture |-> f, score |-> flow[p][f].score]
    OBVIOUS
  <2>3. Post(q, ok) /\ UNCHANGED <<chainVars, inFlight, run>>
    BY <1>3, <2>1, <2>2 DEF PostPick
  <2> QED
    BY <2>3, PostStep
<1>4. CASE RetryPost(p)
  <2>1. PICK ok \in BOOLEAN : Post(Head(pass[p].todo), ok)
    BY <1>4 DEF RetryPost
  <2>2. PICK q : q = Head(pass[p].todo)
    OBVIOUS
  <2>3. Post(q, ok) /\ UNCHANGED <<chainVars, inFlight, run>>
    BY <1>4, <2>1, <2>2 DEF RetryPost
  <2> QED
    BY <2>3, PostStep
<1>5. CASE RefreshEntries(p) \/ ClosePage(p) \/ LoadPending(p) \/ SavePending(p)
  <2>1. UNCHANGED <<chainVars, stored, run, inFlight>>
    BY <1>5 DEF RefreshEntries, ClosePage, LoadPending, SavePending, backendVars
  <2> QED
    BY <2>1, QuietStep
<1> QED
  BY <1>1, <1>2, <1>3, <1>4, <1>5 DEF Client

LEMMA NextPickInv == PickInv /\ [Next]_vars => PickInv'
<1> SUFFICES ASSUME PickInv, [Next]_vars PROVE PickInv'
  OBVIOUS
<1>1. CASE \E p \in Page : Client(p)
  BY <1>1, ClientInv
<1>2. ASSUME NEW w \in WorkerRun, Worker(w) PROVE PickInv'
  BY <1>2, StartRunInv, SendAnsweredInv, SendUnansweredInv, FinishRowInv DEF Worker
<1>3. CASE Network
  <2>1. ASSUME NEW p \in Page, NEW q \in Payload, CommitExpires(p, q) PROVE PickInv'
    <3>1. UNCHANGED <<chainVars, stored, run>> /\ inFlight' \subseteq inFlight
      BY <2>1 DEF CommitExpires, backendVars
    <3> QED
      BY <3>1, QuietStep
  <2> QED
    BY <1>3, <2>1, CommitLandsInv, RevealLandsInv DEF Network
<1>4. CASE RestartBackend
  BY <1>4, RestartInv
<1>5. CASE TimePasses
  BY <1>5, TimePassesInv
<1>6. CASE UNCHANGED vars
  <2>1. UNCHANGED <<chainVars, stored, run, inFlight>>
    BY <1>6 DEF vars, backendVars
  <2> QED
    BY <2>1, QuietStep
<1>7. CASE \E f \in Deletable : DeleteFixture(f) \/ UpsertFixture(f)
  <2>1. UNCHANGED <<chainVars, stored, run, inFlight>>
    BY <1>7 DEF DeleteFixture, UpsertFixture
  <2> QED
    BY <2>1, QuietStep
<1> QED
  BY <1>1, <1>2, <1>3, <1>4, <1>5, <1>6, <1>7 DEF Next

(***************************************************************************)
(* Through any overlap of pages, retries, worker runs, lost answers, late  *)
(* transactions and restarts, what the runs hold and what is in flight is  *)
(* a payload of the table, and an answer that marks a row is true.         *)
(***************************************************************************)
THEOREM PickInvariant == Spec => []PickInv
<1> QED
  BY InitPickInv, NextPickInv, PTL DEF Spec

(***************************************************************************)
(* A row is marked only when its entry shows the stored scoreline          *)
(* (revealWorker.ts:28-71), so no mark ever buries a pick.                 *)
(***************************************************************************)
THEOREM MarkedPicksAreShown == Spec => []MarkedMeansShown
<1> QED
  BY PickInvariant, PickInvMeans, PTL

(***************************************************************************)
(* The chain shows no other payload of the participant than the first one  *)
(* posted (server.ts, POST /picks and its 409).                            *)
(***************************************************************************)
THEOREM ShownPicksWereStored == Spec => []ShownWasStored
<1> QED
  BY PickInvariant, PickInvMeans, PTL

-----------------------------------------------------------------------------

(* Only a post and a worker's mark write the table. *)
LEMMA WhoWrites ==
    ASSUME [Next]_vars
    PROVE  \/ UNCHANGED stored
           \/ \E q : RowsOf(q.fixture) = {} /\ stored' = Append(stored, NewRow(q))
           \/ \E w \in WorkerRun : \E i \in DOMAIN run[w].rows : MarkRow(run[w].rows[i].fixture)
<1>1. ASSUME NEW q, NEW ok \in BOOLEAN, Post(q, ok)
      PROVE  \/ UNCHANGED stored
             \/ RowsOf(q.fixture) = {} /\ stored' = Append(stored, NewRow(q))
  BY <1>1 DEF Post, StorePick
<1>2. ASSUME NEW p \in Page, Client(p)
      PROVE  UNCHANGED stored \/ \E q : \E ok \in BOOLEAN : Post(q, ok)
  <2>1. ASSUME NEW f \in FixtureId, PostPick(p, f) PROVE \E q : \E ok \in BOOLEAN : Post(q, ok)
    <3>1. \E ok \in BOOLEAN : Post([fixture |-> f, score |-> flow[p][f].score], ok)
      BY <2>1 DEF PostPick
    <3> QED
      BY <3>1
  <2>2. CASE RetryPost(p)
    <3>1. \E ok \in BOOLEAN : Post(Head(pass[p].todo), ok)
      BY <2>2 DEF RetryPost
    <3> QED
      BY <3>1
  <2>3. \/ \E f \in FixtureId : PostPick(p, f)
        \/ RetryPost(p)
        \/ UNCHANGED stored
    BY <1>2 DEF Client, SubmitCommit, ConfirmThrows, FinishCommit, RefreshEntries, ClosePage,
                LoadPending, SavePending, backendVars
  <2> QED
    BY <2>1, <2>2, <2>3
<1>3. ASSUME NEW w \in WorkerRun, Worker(w)
      PROVE  \/ UNCHANGED stored
             \/ \E i \in DOMAIN run[w].rows : MarkRow(run[w].rows[i].fixture)
  BY <1>3 DEF Worker, StartRun, SendAnswered, SendUnanswered, FinishRow
<1>4. Network \/ RestartBackend \/ TimePasses \/ UNCHANGED vars => UNCHANGED stored
  BY DEF Network, CommitLands, CommitExpires, RevealLands, RestartBackend, TimePasses, vars,
         backendVars
<1>5. (\E f \in Deletable : DeleteFixture(f) \/ UpsertFixture(f)) => UNCHANGED stored
  BY DEF DeleteFixture, UpsertFixture
<1> QED
  BY <1>1, <1>2, <1>3, <1>4, <1>5 DEF Next

LEMMA RowsStay ==
    ASSUME PickInv, [Next]_vars, NEW i \in DOMAIN stored
    PROVE  /\ i \in DOMAIN stored'
           /\ PayloadOf(stored'[i]) = PayloadOf(stored[i])
           /\ stored[i].revealed => stored'[i].revealed
<1>1. CASE UNCHANGED stored
  BY <1>1
<1>2. ASSUME NEW q, stored' = Append(stored, NewRow(q))
      PROVE  i \in DOMAIN stored' /\ stored'[i] = stored[i]
  <2>1. stored \in Seq(StoredPick) /\ Len(stored) \in Nat /\ DOMAIN stored = 1..Len(stored)
    BY LenProperties DEF PickInv, TableOK
  <2> QED
    BY <1>2, <2>1
<1>3. ASSUME NEW w \in WorkerRun, NEW j \in DOMAIN run[w].rows,
             MarkRow(run[w].rows[j].fixture)
      PROVE  /\ i \in DOMAIN stored'
             /\ PayloadOf(stored'[i]) = PayloadOf(stored[i])
             /\ stored[i].revealed => stored'[i].revealed
  <2>1. PICK g \in FixtureId : g = run[w].rows[j].fixture
    BY DEF PickInv, SourcesOK, StoredPick
  <2>2. MarkRow(g)
    BY <1>3, <2>1
  <2> QED
    BY <2>2, MarkRowStep DEF PickInv, PayloadOf
<1> QED
  BY <1>1, <1>2, <1>3, WhoWrites DEF PayloadOf

LEMMA OneRow ==
    ASSUME NEW table, \A i, j \in DOMAIN table : table[i].fixture = table[j].fixture => i = j,
           NEW f
    PROVE  Cardinality({i \in DOMAIN table : table[i].fixture = f}) <= 1
<1> DEFINE rows == {i \in DOMAIN table : table[i].fixture = f}
<1>1. CASE rows = {}
  BY <1>1, FS_EmptySet
<1>2. CASE rows # {}
  <2>1. PICK i : rows = {i}
    BY <1>2
  <2> QED
    BY <2>1, FS_Singleton
<1> QED
  BY <1>1, <1>2

(***************************************************************************)
(* No page, retry, late post or worker run replaces, drops or unmarks a    *)
(* stored payload, and a pick has one row (server.ts, POST /picks; the     *)
(* UPDATE of revealWorker.ts:28-71).                                       *)
(***************************************************************************)
THEOREM StoredPicksAreFinal == Spec => StoredIsFinal
<1>1. ASSUME PickInv, [Next]_vars
      PROVE  [/\ \A i \in DOMAIN stored :
                   /\ i \in DOMAIN stored'
                   /\ PayloadOf(stored'[i]) = PayloadOf(stored[i])
                   /\ stored[i].revealed => stored'[i].revealed
              /\ \A f \in FixtureId : Cardinality(RowsOf(f)') <= 1]_vars
  <2>1. \A i \in DOMAIN stored :
            /\ i \in DOMAIN stored'
            /\ PayloadOf(stored'[i]) = PayloadOf(stored[i])
            /\ stored[i].revealed => stored'[i].revealed
    BY <1>1, RowsStay
  <2>2. TableOK'
    BY <1>1, NextPickInv DEF PickInv
  <2>3. PICK table : table = stored'
    OBVIOUS
  <2>4. \A f \in FixtureId : Cardinality({i \in DOMAIN table : table[i].fixture = f}) <= 1
    BY <2>2, <2>3, OneRow DEF TableOK
  <2>5. \A f \in FixtureId : RowsOf(f)' = {i \in DOMAIN table : table[i].fixture = f}
    BY <2>3 DEF RowsOf
  <2> QED
    BY <2>1, <2>4, <2>5
<1> QED
  BY <1>1, PickInvariant, PTL DEF StoredIsFinal, Spec

-----------------------------------------------------------------------------
(* The life of a pick and the program. *)

(* Whatever page, worker or network does to the chain is an instruction.     *)
LEMMA StepOfTheProgram ==
    ASSUME PickInv, [Next]_vars
    PROVE  [ChainNext]_chainVars
<1>1. ASSUME NEW p \in Page, NEW q \in Payload, CommitLands(p, q)
      PROVE  [ChainNext]_chainVars
  <2>1. q.fixture \in FixtureId /\ q.score \in Goals \X Goals
    BY PickConstants DEF Payload
  <2>2. Own(q.fixture) \in EntryKey /\ DigestOf(q) \in Digest
    BY <2>1, OwnIsKey, DigestType DEF DigestOf
  <2> QED
    BY <1>1, <2>2 DEF CommitLands, ChainNext
<1>2. ASSUME NEW q \in [fixture : FixtureId, score : Goals \X Goals],
             RevealExecutes(q) \/ UNCHANGED chainVars
      PROVE  [ChainNext]_chainVars
  <2>1. /\ Own(q.fixture) \in EntryKey /\ SaltOf[q.fixture] \in Salt
        /\ q.score[1] \in Goals /\ q.score[2] \in Goals
    BY OwnIsKey, PickConstants
  <2> QED
    BY <1>2, <2>1 DEF RevealExecutes, ChainNext
<1>3. ASSUME NEW w \in WorkerRun, NEW f \in FixtureId, SendAnswered(w, f)
      PROVE  [ChainNext]_chainVars
  <2>1. PICK i \in DOMAIN run[w].rows : RevealExecutes(PayloadOf(run[w].rows[i]))
    BY <1>3 DEF SendAnswered
  <2>2. PayloadOf(run[w].rows[i]) \in [fixture : FixtureId, score : Goals \X Goals]
    BY <2>1 DEF PickInv, SourcesOK, StoredPick, PayloadOf
  <2> QED
    BY <1>2, <2>1, <2>2
<1>4. ASSUME NEW q \in Payload, RevealLands(q) PROVE [ChainNext]_chainVars
  <2>1. q \in [fixture : FixtureId, score : Goals \X Goals]
    BY PickConstants DEF Payload
  <2> QED
    BY <1>2, <1>4, <2>1 DEF RevealLands
<1>5. ASSUME NEW p \in Page, Client(p) PROVE UNCHANGED chainVars
  BY <1>5 DEF Client, SubmitCommit, ConfirmThrows, PostPick, FinishCommit, RefreshEntries,
              ClosePage, LoadPending, RetryPost, SavePending
<1>6. ASSUME NEW w \in WorkerRun, Worker(w), ~ \E f \in FixtureId : SendAnswered(w, f)
      PROVE  UNCHANGED chainVars
  BY <1>6 DEF Worker, StartRun, SendUnanswered, FinishRow
<1>7. ASSUME NEW p \in Page, NEW q \in Payload, CommitExpires(p, q) PROVE UNCHANGED chainVars
  BY <1>7 DEF CommitExpires
<1>8. CASE TimePasses
  BY <1>8 DEF TimePasses, ChainNext
<1>9. CASE RestartBackend \/ (\E f \in Deletable : DeleteFixture(f) \/ UpsertFixture(f))
  BY <1>9 DEF RestartBackend, DeleteFixture, UpsertFixture
<1>10. CASE UNCHANGED vars
  BY <1>10 DEF vars
<1> QED
  BY <1>1, <1>3, <1>4, <1>5, <1>6, <1>7, <1>8, <1>9, <1>10 DEF Next, Network

(***************************************************************************)
(* So the promises of the program hold in the whole life of a pick, from   *)
(* the deployment on that Init describes: nobody commits to a fixture of   *)
(* which a pick was revealed by the worker, in time or late (lib.rs:1-4).  *)
(***************************************************************************)
THEOREM PicksAreNotCopied == Spec => NoCommitAfterFirstReveal
<1>1. PickInv /\ [Next]_vars =>
          [\A f \in FixtureId :
              (\E k \in Entrants(f) : Revealed(k)) => Entrants(f)' = Entrants(f)]_chainVars
  BY StepOfTheProgram, EntrantsStay DEF PickInv
<1> QED
  BY <1>1, PickInvariant, PTL DEF Spec, NoCommitAfterFirstReveal

(* What the worker shows for a participant opens what the page committed.    *)
THEOREM PicksOpenTheirCommitment == Spec => []ShownOpensCommitment
<1>1. PickInv => ShownOpensCommitment
  BY DEF PickInv, ChainInv
<1> QED
  BY <1>1, PickInvariant, PTL

(***************************************************************************)
(* Pages, backend and chain together only seal picks before kickoff and    *)
(* show them after it: each of their steps is one of SealedPicks, or shows *)
(* nothing.                                                                *)
(***************************************************************************)
THEOREM PicksStaySealed == Spec => [][Sealed!Next]_<<Picks, Closed>>
<1>1. PickInv /\ [Next]_vars => [Sealed!Next]_<<Picks, Closed>>
  BY StepOfTheProgram, StepRefines DEF PickInv
<1> QED
  BY <1>1, PickInvariant, PTL DEF Spec

-----------------------------------------------------------------------------
(* The types, and with them the queues (pendingPicks.ts). *)

(* Every non-empty set of numbers has a least one: what induction rests on.  *)
LEMMA SmallestNumber ==
    ASSUME NEW T, T \subseteq Nat, T # {}
    PROVE  \E n \in T : \A m \in T : n <= m
<1> DEFINE Less == {ss \in Nat \X Nat : ss[1] < ss[2]}
<1>1. IsWellFoundedOn(Less, Nat)
  BY NatLessThanWellFounded, Zenon DEF OpToRel
<1>2. PICK n \in T : \A m \in T : <<m, n>> \notin Less
  <2> HIDE DEF Less
  <2> QED
    BY <1>1, WFMin, Zenon
<1>3. ASSUME NEW m \in T PROVE n <= m
  <2>1. n \in Nat /\ m \in Nat
    BY <1>3
  <2>2. ~(m < n)
    BY <1>2, <2>1
  <2> QED
    BY <2>1, <2>2
<1> QED
  BY <1>3

OnePerPick(queue) == \A i, j \in DOMAIN queue : queue[i].fixture = queue[j].fixture => i = j
Queues == {queue \in Seq(Payload) : OnePerPick(queue)}

(* What enqueuePendingPick keeps of a queue, payload by payload. *)
Keeps(kept, queue, f, k) ==
    kept = [n \in 0..k |->
               IF n = 0 THEN << >>
               ELSE IF queue[n].fixture = f THEN kept[n - 1] ELSE Append(kept[n - 1], queue[n])]

LEMMA KeptExists ==
    ASSUME NEW queue, NEW f, NEW k \in Nat
    PROVE  \E kept : Keeps(kept, queue, f, k)
<1> DEFINE Bad == {n \in Nat : ~ \E kept : Keeps(kept, queue, f, n)}
<1>1. ASSUME Bad # {} PROVE FALSE
  <2>1. PICK n \in Bad : \A m \in Bad : n <= m
    BY <1>1, SmallestNumber
  <2>2. Keeps([m \in 0..0 |-> << >>], queue, f, 0)
    BY DEF Keeps
  <2>3. n \in Nat /\ n # 0 /\ n - 1 \in Nat /\ n - 1 \notin Bad
    BY <2>1, <2>2
  <2>4. PICK kept : Keeps(kept, queue, f, n - 1)
    BY <2>3
  <2> DEFINE last == IF queue[n].fixture = f THEN kept[n - 1] ELSE Append(kept[n - 1], queue[n])
             more == [m \in 0..n |-> IF m = n THEN last ELSE kept[m]]
  <2>5. \A m \in 0..n : m = n \/ m \in 0..(n - 1)
    BY <2>3
  <2>6. ASSUME NEW m \in 0..n
        PROVE  more[m] = IF m = 0 THEN << >>
                         ELSE IF queue[m].fixture = f THEN more[m - 1]
                         ELSE Append(more[m - 1], queue[m])
    <3>1. CASE m = n
      BY <2>3, <3>1
    <3>2. CASE m # n
      <4>1. m \in 0..(n - 1) /\ more[m] = kept[m]
        BY <2>5, <3>2
      <4>2. m # 0 => m - 1 \in 0..n /\ m - 1 # n /\ more[m - 1] = kept[m - 1]
        BY <2>3
      <4> QED
        BY <2>4, <4>1, <4>2 DEF Keeps
    <3> QED
      BY <3>1, <3>2
  <2> HIDE DEF last
  <2>7. Keeps(more, queue, f, n)
    BY <2>6 DEF Keeps
  <2> QED
    BY <2>1, <2>7
<1> QED
  BY <1>1

(* What is left has the payloads of the queue, but for the pick that goes.   *)
LEMMA WithoutIsRight ==
    ASSUME NEW queue \in Queues, NEW f
    PROVE  /\ Without(queue, f) \in Queues
           /\ \A i \in DOMAIN Without(queue, f) :
                 /\ Without(queue, f)[i].fixture # f
                 /\ \E j \in DOMAIN queue : Without(queue, f)[i] = queue[j]
<1> DEFINE k == Len(queue)
           kept == CHOOSE g : Keeps(g, queue, f, k)
           From(s, n) ==
               /\ s \in Seq(Payload)
               /\ OnePerPick(s)
               /\ \A i \in DOMAIN s :
                     s[i].fixture # f /\ \E j \in 1..n : s[i] = queue[j]
           Bad == {n \in 0..k : ~From(kept[n], n)}
<1>1. queue \in Seq(Payload) /\ OnePerPick(queue) /\ k \in Nat /\ DOMAIN queue = 1..k
  BY LenProperties DEF Queues
<1>2. Without(queue, f) = kept[k]
  BY DEF Without, Keeps
<1>3. Keeps(kept, queue, f, k)
  BY <1>1, KeptExists
<1> HIDE DEF kept
<1>4. ASSUME Bad # {} PROVE FALSE
  <2>1. PICK n \in Bad : \A m \in Bad : n <= m
    <3>1. Bad \subseteq Nat
      OBVIOUS
    <3> QED
      BY <1>4, <3>1, SmallestNumber
  <2>2. n \in 0..k /\ ~From(kept[n], n)
    BY <2>1
  <2>3. kept[0] = << >>
    BY <1>1, <1>3 DEF Keeps
  <2>4. From(<< >>, 0)
    BY EmptySeq DEF OnePerPick
  <2>a. n # 0
    BY <2>2, <2>3, <2>4
  <2>5. n \in 1..k /\ n - 1 \in 0..k /\ n - 1 \notin Bad
    <3>1. n \in 1..k /\ n - 1 \in 0..k /\ ~(n <= n - 1)
      BY <1>1, <2>2, <2>a
    <3> HIDE DEF Bad
    <3> QED
      BY <2>1, <3>1
  <2>6. From(kept[n - 1], n - 1)
    BY <2>5
  <2>7. PICK s : s = kept[n - 1]
    OBVIOUS
  <2>8. kept[n] = IF queue[n].fixture = f THEN s ELSE Append(s, queue[n])
    <3>1. n \in 0..k
      BY <2>2
    <3> HIDE DEF Bad, k
    <3>2. kept[n] = IF n = 0 THEN << >>
                    ELSE IF queue[n].fixture = f THEN kept[n - 1]
                    ELSE Append(kept[n - 1], queue[n])
      BY <1>3, <3>1 DEF Keeps
    <3> QED
      BY <2>a, <2>7, <3>2
  <2>9. CASE queue[n].fixture = f
    BY <1>1, <2>2, <2>5, <2>6, <2>7, <2>8, <2>9
  <2>10. CASE queue[n].fixture # f
    <3>1. s \in Seq(Payload) /\ OnePerPick(s) /\ queue[n] \in Payload
      BY <1>1, <2>5, <2>6, <2>7, ElementOfSeq
    <3>2. kept[n] = Append(s, queue[n])
      BY <2>8, <2>10
    <3>3. /\ kept[n] \in Seq(Payload)
          /\ Len(s) \in Nat /\ DOMAIN s = 1..Len(s)
          /\ DOMAIN kept[n] = 1..(Len(s) + 1)
          /\ \A i \in 1..Len(s) : kept[n][i] = s[i]
          /\ kept[n][Len(s) + 1] = queue[n]
      BY <3>1, <3>2, AppendProperties, LenProperties
    <3>4. ASSUME NEW i \in DOMAIN s
          PROVE  s[i].fixture # f /\ \E j \in 1..(n - 1) : s[i] = queue[j]
      BY <2>6, <2>7
    <3>5. \A i \in DOMAIN s : s[i].fixture # queue[n].fixture
      <4>1. ASSUME NEW i \in DOMAIN s PROVE s[i].fixture # queue[n].fixture
        <5>1. PICK j \in 1..(n - 1) : s[i] = queue[j]
          BY <3>4
        <5>2. j \in DOMAIN queue /\ n \in DOMAIN queue /\ j # n
          BY <1>1, <2>5
        <5> QED
          BY <1>1, <5>1, <5>2 DEF OnePerPick
      <4> QED
        BY <4>1
    <3>6. \A i \in DOMAIN kept[n] : i \in DOMAIN s \/ i = Len(s) + 1
      BY <3>3
    <3>7. OnePerPick(kept[n])
      BY <3>1, <3>3, <3>5, <3>6 DEF OnePerPick
    <3>8. ASSUME NEW i \in DOMAIN kept[n]
          PROVE  kept[n][i].fixture # f /\ \E j \in 1..n : kept[n][i] = queue[j]
      <4>1. CASE i \in DOMAIN s
        <5>1. kept[n][i] = s[i]
          BY <3>3, <4>1
        <5>2. \A j \in 1..(n - 1) : j \in 1..n
          BY <2>5
        <5> QED
          BY <3>4, <4>1, <5>1, <5>2
      <4>2. CASE i = Len(s) + 1
        BY <2>5, <2>10, <3>3, <4>2
      <4> QED
        BY <3>6, <4>1, <4>2
    <3> QED
      BY <2>2, <3>3, <3>7, <3>8
  <2> QED
    BY <2>9, <2>10
<1>5. From(kept[k], k)
  BY <1>1, <1>4
<1> QED
  BY <1>1, <1>2, <1>5 DEF Queues

(* What a page, the network and the backend hold, with what TypeOK leaves   *)
(* out: a commit call that is under way has a scoreline, and a retry pass   *)
(* never has one pick twice, in what it has tried or is still to try.       *)
Flows == {IdleFlow} \cup [step : {"confirming", "executed", "posted", "failed"}, score : Score]

PassOK(r) ==
    /\ r.todo \in Queues /\ r.left \in Queues
    /\ \A i \in DOMAIN r.todo, j \in DOMAIN r.left : r.todo[i].fixture # r.left[j].fixture
Passes == {r \in [active : BOOLEAN, todo : Seq(Payload), left : Seq(Payload)] : PassOK(r)}

ClientTypes ==
    /\ flow \in [Page -> [FixtureId -> Flows]]
    /\ marked \in [Page -> SUBSET FixtureId]
    /\ pending \in Queues
    /\ pass \in [Page -> Passes]

Answers == {"Ok", "AccountNotInitialized", "FixtureNotStarted", "AlreadyRevealed",
            "CommitmentMismatch", "NoAnswer", Nothing}

RunTypes ==
    \A w \in WorkerRun :
        /\ \A i \in DOMAIN run[w].rows :
              i \in DOMAIN stored /\ PayloadOf(run[w].rows[i]) = PayloadOf(stored[i])
        /\ run[w].answer \in Answers

BackendTypes ==
    /\ stored \in Seq(Row)
    /\ RunTypes
    /\ restarts \in 0..MaxRestarts
    /\ listed \subseteq FixtureId

PickTypes == ClientTypes /\ inFlight \subseteq Tx /\ BackendTypes

LEMMA TypesMean == ChainInv /\ PickTypes => TypeOK
<1> SUFFICES ASSUME ChainInv, PickTypes PROVE TypeOK
  OBVIOUS
<1>1. ChainTypeOK
  BY DEF ChainInv
<1>2. flow \in [Page -> [FixtureId ->
           [step : {"idle", "confirming", "executed", "posted", "failed"},
            score : Score \cup {Nothing}]]]
  <2>1. \A r \in Flows : r \in [step : {"idle", "confirming", "executed", "posted", "failed"},
                                score : Score \cup {Nothing}]
    BY DEF Flows, IdleFlow
  <2> QED
    BY <2>1 DEF PickTypes, ClientTypes
<1>3. pending \in Seq(Payload)
      /\ \A i, j \in DOMAIN pending : pending[i].fixture = pending[j].fixture => i = j
  BY DEF PickTypes, ClientTypes, Queues, OnePerPick
<1>4. pass \in [Page -> [active : BOOLEAN, todo : Seq(Payload), left : Seq(Payload)]]
  BY DEF PickTypes, ClientTypes, Passes
<1> QED
  BY <1>1, <1>2, <1>3, <1>4
     DEF PickTypes, ClientTypes, BackendTypes, RunTypes, Answers, TypeOK

LEMMA IdlePassOK == IdlePass \in Passes
<1>1. << >> \in Queues
  BY EmptySeq DEF Queues, OnePerPick
<1>2. PICK none : none = << >>
  OBVIOUS
<1>3. none \in Queues /\ none \in Seq(Payload) /\ DOMAIN none = {}
  BY <1>1, <1>2 DEF Queues
<1> QED
  BY <1>2, <1>3 DEF Passes, PassOK, IdlePass

LEMMA InitTypes == Init => PickTypes
<1> SUFFICES ASSUME Init PROVE PickTypes
  OBVIOUS
<1>1. ClientTypes
  BY EmptySeq, IdlePassOK DEF Init, ClientTypes, Flows, Queues, OnePerPick
<1>2. inFlight \subseteq Tx
  BY DEF Init
<1>3. stored \in Seq(Row)
  BY EmptySeq DEF Init
<1>4. RunTypes
  BY DEF Init, RunTypes, IdleRun, Answers
<1> QED
  BY <1>1, <1>2, <1>3, <1>4, PickConstants DEF Init, PickTypes, BackendTypes

-----------------------------------------------------------------------------
(* The pages. *)

LEMMA FlowSet ==
    ASSUME ClientTypes, NEW p \in Page, NEW f \in FixtureId, NEW step, NEW score,
           [step |-> step, score |-> score] \in Flows, SetFlow(p, f, step, score)
    PROVE  flow' \in [Page -> [FixtureId -> Flows]]
<1>1. PICK r \in Flows : r = [step |-> step, score |-> score]
  OBVIOUS
<1>2. flow' = [flow EXCEPT ![p][f] = r]
  BY <1>1 DEF SetFlow
<1>3. flow' = [flow EXCEPT ![p] = [flow[p] EXCEPT ![f] = r]]
  BY <1>2 DEF ClientTypes
<1>4. flow[p] \in [FixtureId -> Flows]
  BY DEF ClientTypes
<1>5. [flow[p] EXCEPT ![f] = r] \in [FixtureId -> Flows]
  BY <1>1, <1>4
<1> QED
  BY <1>3, <1>5 DEF ClientTypes

LEMMA PayloadKnown ==
    ASSUME ClientTypes, NEW p \in Page, NEW f \in FixtureId, flow[p][f].step # "idle"
    PROVE  /\ flow[p][f].score \in Score
           /\ [fixture |-> f, score |-> flow[p][f].score] \in Payload
           /\ \A step \in {"confirming", "executed", "posted", "failed"} :
                 [step |-> step, score |-> flow[p][f].score] \in Flows
<1>1. flow[p][f] \in Flows
  BY DEF ClientTypes
<1>2. flow[p][f].score \in Score
  BY <1>1 DEF Flows, IdleFlow
<1> QED
  BY <1>2 DEF Flows, Payload

LEMMA IdleKnown == [step |-> "idle", score |-> Nothing] \in Flows
BY DEF Flows, IdleFlow

(* A payload of another pick is added to a queue. *)
LEMMA QueueGrows ==
    ASSUME NEW queue \in Queues, NEW q \in Payload,
           \A i \in DOMAIN queue : queue[i].fixture # q.fixture
    PROVE  /\ Append(queue, q) \in Queues
           /\ \A i \in DOMAIN Append(queue, q) :
                 Append(queue, q)[i] = q \/ \E j \in DOMAIN queue : Append(queue, q)[i] = queue[j]
<1>1. queue \in Seq(Payload) /\ OnePerPick(queue)
  BY DEF Queues
<1>2. PICK more : more = Append(queue, q)
  OBVIOUS
<1>3. /\ more \in Seq(Payload)
      /\ Len(queue) \in Nat /\ DOMAIN queue = 1..Len(queue)
      /\ DOMAIN more = 1..(Len(queue) + 1)
      /\ \A i \in 1..Len(queue) : more[i] = queue[i]
      /\ more[Len(queue) + 1] = q
  BY <1>1, <1>2, AppendProperties, LenProperties
<1>4. \A i \in DOMAIN more : i \in DOMAIN queue \/ i = Len(queue) + 1
  BY <1>3
<1>5. OnePerPick(more)
  BY <1>1, <1>3, <1>4 DEF OnePerPick
<1>6. \A i \in DOMAIN more : more[i] = q \/ \E j \in DOMAIN queue : more[i] = queue[j]
  BY <1>3, <1>4
<1> QED
  BY <1>2, <1>3, <1>5, <1>6 DEF Queues

LEMMA FinishTypes ==
    ASSUME ClientTypes, NEW p \in Page, NEW f \in FixtureId, FinishCommit(p, f)
    PROVE  ClientTypes'
<1>1. flow' \in [Page -> [FixtureId -> Flows]]
  BY FlowSet, IdleKnown DEF FinishCommit
<1>2. PICK q \in Payload : q = [fixture |-> f, score |-> flow[p][f].score]
  BY PayloadKnown DEF FinishCommit
<1>3. pending \in Queues
  BY DEF ClientTypes
<1>4. Append(Without(pending, f), q) \in Queues
  <2>1. PICK queue \in Queues : queue = Without(pending, f)
    BY <1>3, WithoutIsRight
  <2>2. \A i \in DOMAIN queue : queue[i].fixture # f
    BY <1>3, <2>1, WithoutIsRight
  <2>3. q.fixture = f
    BY <1>2
  <2> QED
    BY <2>1, <2>2, <2>3, QueueGrows
<1>5. pending' \in Queues
  BY <1>2, <1>3, <1>4 DEF FinishCommit
<1>6. marked' \in [Page -> SUBSET FixtureId] /\ pass' = pass
  BY DEF FinishCommit, ClientTypes
<1> QED
  BY <1>1, <1>5, <1>6 DEF ClientTypes

LEMMA RetryTypes ==
    ASSUME ClientTypes, NEW p \in Page, RetryPost(p)
    PROVE  pass' \in [Page -> Passes]
<1>1. PICK ok \in BOOLEAN :
          pass' = [pass EXCEPT ![p] =
              [active |-> TRUE, todo |-> Tail(@.todo),
               left |-> IF ok THEN @.left ELSE Append(@.left, Head(pass[p].todo))]]
  BY DEF RetryPost
<1>2. PICK r \in Passes : r = pass[p]
  BY DEF ClientTypes
<1>3. PICK q : q = Head(r.todo)
  OBVIOUS
<1>4. PICK todo : todo = Tail(r.todo)
  OBVIOUS
<1>5. PICK left : left = IF ok THEN r.left ELSE Append(r.left, q)
  OBVIOUS
<1>6. /\ r.todo \in Seq(Payload) /\ OnePerPick(r.todo) /\ r.left \in Queues
      /\ \A i \in DOMAIN r.todo, j \in DOMAIN r.left : r.todo[i].fixture # r.left[j].fixture
  BY <1>2 DEF Passes, PassOK, Queues
<1>7. pass' = [pass EXCEPT ![p] = [active |-> TRUE, todo |-> todo, left |-> left]]
  BY <1>1, <1>2, <1>3, <1>4, <1>5 DEF ClientTypes
<1>8. r.todo # << >>
  BY <1>2 DEF RetryPost
<1>9. /\ q = r.todo[1] /\ q \in Payload /\ 1 \in DOMAIN r.todo
      /\ todo \in Seq(Payload)
      /\ \A i \in DOMAIN todo :
            i + 1 \in DOMAIN r.todo /\ i + 1 # 1 /\ i \in Nat /\ todo[i] = r.todo[i + 1]
  BY <1>3, <1>4, <1>6, <1>8, HeadTailProperties, LenProperties, EmptySeq
<1>10. OnePerPick(todo)
  BY <1>6, <1>9 DEF OnePerPick
<1>11. \A i \in DOMAIN todo : todo[i].fixture # q.fixture
  BY <1>6, <1>9 DEF OnePerPick
<1>12. \A i \in DOMAIN r.left : r.left[i].fixture # q.fixture
  BY <1>6, <1>9
<1>13. /\ left \in Queues
       /\ \A j \in DOMAIN left : left[j] = q \/ \E m \in DOMAIN r.left : left[j] = r.left[m]
  BY <1>5, <1>6, <1>9, <1>12, QueueGrows
<1>14. \A i \in DOMAIN todo, j \in DOMAIN left : todo[i].fixture # left[j].fixture
  BY <1>6, <1>9, <1>11, <1>13
<1>15. PICK new : new = [active |-> TRUE, todo |-> todo, left |-> left]
  OBVIOUS
<1>16. new \in Passes
  BY <1>6, <1>9, <1>10, <1>13, <1>14, <1>15 DEF Passes, PassOK, Queues
<1> QED
  BY <1>7, <1>15, <1>16 DEF ClientTypes

LEMMA ClientTypesNext ==
    ASSUME PickTypes, NEW p \in Page, Client(p)
    PROVE  ClientTypes'
<1>1. ClientTypes
  BY DEF PickTypes
<1>2. ASSUME NEW f \in FixtureId, NEW s \in Score, SubmitCommit(p, f, s) PROVE ClientTypes'
  <2>1. [step |-> "confirming", score |-> s] \in Flows
    BY DEF Flows
  <2>2. SetFlow(p, f, "confirming", s) /\ UNCHANGED <<marked, pending, pass>>
    BY <1>2 DEF SubmitCommit
  <2>3. flow' \in [Page -> [FixtureId -> Flows]]
    BY <1>1, <2>1, <2>2, FlowSet
  <2> QED
    BY <1>1, <2>2, <2>3 DEF ClientTypes
<1>3. ASSUME NEW f \in FixtureId, ConfirmThrows(p, f) PROVE ClientTypes'
  <2>1. SetFlow(p, f, "idle", Nothing) /\ UNCHANGED <<marked, pending, pass>>
    BY <1>3 DEF ConfirmThrows
  <2>2. flow' \in [Page -> [FixtureId -> Flows]]
    BY <1>1, <2>1, IdleKnown, FlowSet
  <2> QED
    BY <1>1, <2>1, <2>2 DEF ClientTypes
<1>4. ASSUME NEW f \in FixtureId, PostPick(p, f) PROVE ClientTypes'
  <2>1. PICK step \in {"posted", "failed"} : SetFlow(p, f, step, flow[p][f].score)
    BY <1>4 DEF PostPick
  <2>2. UNCHANGED <<marked, pending, pass>> /\ flow[p][f].step # "idle"
    BY <1>4 DEF PostPick
  <2>3. PICK score : score = flow[p][f].score
    OBVIOUS
  <2>4. [step |-> step, score |-> score] \in Flows
    BY <1>1, <2>2, <2>3, PayloadKnown
  <2>5. flow' \in [Page -> [FixtureId -> Flows]]
    BY <1>1, <2>1, <2>3, <2>4, FlowSet
  <2> QED
    BY <1>1, <2>2, <2>5 DEF ClientTypes
<1>5. ASSUME NEW f \in FixtureId, FinishCommit(p, f) PROVE ClientTypes'
  BY <1>1, <1>5, FinishTypes
<1>6. CASE RefreshEntries(p)
  BY <1>1, <1>6 DEF RefreshEntries, ClientTypes
<1>7. CASE ClosePage(p)
  <2>1. [f \in FixtureId |-> IdleFlow] \in [FixtureId -> Flows]
    BY DEF Flows
  <2> QED
    BY <1>1, <1>7, <2>1, IdlePassOK DEF ClosePage, ClientTypes
<1>8. CASE LoadPending(p)
  <2>1. PICK r : r = [active |-> TRUE, todo |-> pending, left |-> << >>]
    OBVIOUS
  <2>2. r \in Passes
    <3>1. PICK none : none = << >>
      OBVIOUS
    <3>2. none \in Seq(Payload) /\ DOMAIN none = {} /\ none \in Queues
      BY <3>1, EmptySeq DEF Queues, OnePerPick
    <3>3. pending \in Seq(Payload) /\ pending \in Queues
      BY <1>1 DEF ClientTypes, Queues
    <3> QED
      BY <2>1, <3>1, <3>2, <3>3 DEF Passes, PassOK
  <2>3. pass' = [pass EXCEPT ![p] = r] /\ UNCHANGED <<flow, marked, pending>>
    BY <1>8, <2>1 DEF LoadPending
  <2> QED
    BY <1>1, <2>2, <2>3 DEF ClientTypes
<1>9. CASE RetryPost(p)
  BY <1>1, <1>9, RetryTypes DEF RetryPost, ClientTypes
<1>10. CASE SavePending(p)
  <2>1. pass[p].left \in Queues
    BY <1>1 DEF ClientTypes, Passes, PassOK
  <2> QED
    BY <1>1, <1>10, <2>1, IdlePassOK DEF SavePending, ClientTypes
<1> QED
  BY <1>2, <1>3, <1>4, <1>5, <1>6, <1>7, <1>8, <1>9, <1>10 DEF Client

-----------------------------------------------------------------------------
(* The network and the backend. *)

(* Transactions end: the page that waits for one hears of it or not. *)
LEMMA NetworkTypes ==
    ASSUME PickTypes, Network
    PROVE  PickTypes'
<1>1. ClientTypes /\ inFlight \subseteq Tx /\ BackendTypes
  BY DEF PickTypes
<1>2. ASSUME NEW p \in Page, NEW q \in Payload, CommitLands(p, q) \/ CommitExpires(p, q)
      PROVE  ClientTypes'
  <2>1. q.fixture \in FixtureId /\ q.score \in Score /\ UNCHANGED <<marked, pending, pass>>
    BY <1>2 DEF CommitLands, CommitExpires, Payload
  <2>2. PICK f \in FixtureId : f = q.fixture
    BY <2>1
  <2>3. PICK score \in Score : score = q.score
    BY <2>1
  <2>4. \/ SetFlow(p, f, "executed", score) \/ SetFlow(p, f, "idle", Nothing)
        \/ UNCHANGED flow
    BY <1>2, <2>2, <2>3 DEF CommitLands, CommitExpires, CommitExecuted
  <2>5. [step |-> "executed", score |-> score] \in Flows
    BY DEF Flows
  <2>6. flow' \in [Page -> [FixtureId -> Flows]]
    BY <1>1, <2>4, <2>5, IdleKnown, FlowSet DEF ClientTypes
  <2> QED
    BY <1>1, <2>1, <2>6 DEF ClientTypes
<1>3. ASSUME NEW q \in Payload, RevealLands(q) PROVE ClientTypes'
  BY <1>1, <1>3 DEF RevealLands, clientVars, ClientTypes
<1>4. ClientTypes'
  BY <1>2, <1>3 DEF Network
<1>5. inFlight' \subseteq inFlight /\ UNCHANGED backendVars
  BY DEF Network, CommitLands, CommitExpires, RevealLands
<1>6. BackendTypes'
  BY <1>1, <1>5 DEF BackendTypes, RunTypes, backendVars
<1> QED
  BY <1>1, <1>4, <1>5, <1>6 DEF PickTypes

LEMMA RowPayload ==
    ASSUME NEW row \in Row
    PROVE  PayloadOf(row) \in Payload
BY DEF Row, PayloadOf, Payload

(* The page's requests reach the table, or not. *)
LEMMA PostTypes ==
    ASSUME BackendTypes, NEW q \in Payload, NEW ok, Post(q, ok),
           UNCHANGED <<run, restarts, listed>>
    PROVE  BackendTypes'
<1>1. CASE UNCHANGED stored
  BY <1>1 DEF BackendTypes, RunTypes
<1>2. CASE stored' = Append(stored, NewRow(q))
  <2>1. stored \in Seq(Row) /\ NewRow(q) \in Row
    BY DEF BackendTypes, NewRow, Row, Payload
  <2>2. /\ stored' \in Seq(Row)
        /\ Len(stored) \in Nat
        /\ DOMAIN stored = 1..Len(stored) /\ DOMAIN stored' = 1..(Len(stored) + 1)
        /\ \A i \in 1..Len(stored) : stored'[i] = stored[i]
    BY <1>2, <2>1, AppendProperties, LenProperties
  <2>3. \A i \in DOMAIN stored : i \in DOMAIN stored' /\ stored'[i] = stored[i]
    BY <2>2
  <2>4. RunTypes'
    BY <2>3 DEF BackendTypes, RunTypes
  <2> QED
    BY <2>2, <2>4 DEF BackendTypes
<1> QED
  BY <1>1, <1>2 DEF Post, StorePick

LEMMA ClientStepTypes ==
    ASSUME PickTypes, NEW p \in Page, Client(p)
    PROVE  PickTypes'
<1>1. ClientTypes /\ inFlight \subseteq Tx /\ BackendTypes
  BY DEF PickTypes
<1>2. ClientTypes'
  BY ClientTypesNext
<1>3. CASE UNCHANGED <<inFlight, stored, run, restarts, listed>>
  BY <1>1, <1>2, <1>3 DEF PickTypes, BackendTypes, RunTypes
<1>4. ASSUME NEW f \in FixtureId, NEW s \in Score, SubmitCommit(p, f, s) PROVE PickTypes'
  <2>1. [kind |-> "commit", page |-> p, payload |-> [fixture |-> f, score |-> s]] \in Tx
    BY DEF Tx, Payload
  <2>2. inFlight' \subseteq Tx /\ UNCHANGED <<stored, run, restarts, listed>>
    BY <1>1, <1>4, <2>1 DEF SubmitCommit, backendVars
  <2> QED
    BY <1>1, <1>2, <2>2 DEF PickTypes, BackendTypes, RunTypes
<1>5. ASSUME NEW f \in FixtureId, PostPick(p, f) PROVE PickTypes'
  <2>1. PICK q \in Payload : q = [fixture |-> f, score |-> flow[p][f].score]
    BY <1>1, <1>5, PayloadKnown DEF PostPick
  <2>2. PICK ok \in BOOLEAN : Post(q, ok)
    BY <1>5, <2>1 DEF PostPick
  <2>3. UNCHANGED <<inFlight, run, restarts, listed>>
    BY <1>5 DEF PostPick
  <2> QED
    BY <1>1, <1>2, <2>2, <2>3, PostTypes DEF PickTypes
<1>6. CASE RetryPost(p)
  <2>1. pass[p].todo \in Seq(Payload) /\ pass[p].todo # << >>
    BY <1>1, <1>6 DEF RetryPost, ClientTypes, Passes
  <2>2. PICK q \in Payload : q = Head(pass[p].todo)
    BY <2>1, HeadTailProperties
  <2>3. PICK ok \in BOOLEAN : Post(q, ok)
    BY <1>6, <2>2 DEF RetryPost
  <2>4. UNCHANGED <<inFlight, run, restarts, listed>>
    BY <1>6 DEF RetryPost
  <2> QED
    BY <1>1, <1>2, <2>3, <2>4, PostTypes DEF PickTypes
<1>7. ASSUME NEW f \in FixtureId, ConfirmThrows(p, f) \/ FinishCommit(p, f)
      PROVE  UNCHANGED <<inFlight, stored, run, restarts, listed>>
  BY <1>7 DEF ConfirmThrows, FinishCommit, backendVars
<1>8. CASE RefreshEntries(p) \/ ClosePage(p) \/ LoadPending(p) \/ SavePending(p)
  BY <1>3, <1>8 DEF RefreshEntries, ClosePage, LoadPending, SavePending, backendVars
<1> QED
  BY <1>3, <1>4, <1>5, <1>6, <1>7, <1>8 DEF Client

(* What a run holds after a step of its own. *)
LEMMA RunSet ==
    ASSUME SourcesOK, RunTypes, NEW w \in WorkerRun, NEW r,
           run' = [run EXCEPT ![w] = r], UNCHANGED stored,
           \A i \in DOMAIN r.rows :
               i \in DOMAIN stored /\ PayloadOf(r.rows[i]) = PayloadOf(stored[i]),
           r.answer \in Answers
    PROVE  RunTypes'
<1>1. \A v \in WorkerRun : run'[v] = IF v = w THEN r ELSE run[v]
  BY DEF SourcesOK
<1> QED
  BY <1>1 DEF RunTypes

LEMMA WorkerTypes ==
    ASSUME PickInv, PickTypes, NEW w \in WorkerRun, Worker(w)
    PROVE  BackendTypes' /\ inFlight' \subseteq Tx
<1>1. SourcesOK /\ BackendTypes /\ RunTypes /\ inFlight \subseteq Tx
  BY DEF PickInv, PickTypes, BackendTypes
<1>2. DOMAIN run[w] = {"active", "rows", "answer"}
  BY <1>1 DEF SourcesOK
<1>3. \A i \in DOMAIN run[w].rows :
          i \in DOMAIN stored /\ PayloadOf(run[w].rows[i]) = PayloadOf(stored[i])
  BY <1>1 DEF RunTypes
<1>4. UNCHANGED <<restarts, listed>>
  BY DEF Worker, StartRun, SendAnswered, SendUnanswered, FinishRow
<1>5. CASE StartRun(w)
  <2>1. PICK due \in SUBSET DOMAIN stored :
            run' = [run EXCEPT ![w] =
                [active |-> TRUE, rows |-> Ahead([i \in due |-> stored[i]]), answer |-> Nothing]]
    BY <1>5 DEF StartRun
  <2>2. PICK rows : rows = Ahead([i \in due |-> stored[i]])
    OBVIOUS
  <2>3. PICK r : r = [active |-> TRUE, rows |-> rows, answer |-> Nothing]
    OBVIOUS
  <2>4. \A i \in DOMAIN rows : i \in DOMAIN stored /\ rows[i] = stored[i]
    BY <2>2, AheadIsPart
  <2>5. \A i \in DOMAIN r.rows :
            i \in DOMAIN stored /\ PayloadOf(r.rows[i]) = PayloadOf(stored[i])
    BY <2>3, <2>4
  <2>6. run' = [run EXCEPT ![w] = r] /\ r.answer \in Answers /\ UNCHANGED <<stored, inFlight>>
    BY <1>5, <2>1, <2>2, <2>3 DEF StartRun, Answers
  <2>7. RunTypes'
    BY <1>1, <2>5, <2>6, RunSet
  <2> QED
    BY <1>1, <1>4, <2>6, <2>7 DEF BackendTypes
<1>6. ASSUME NEW f \in FixtureId, SendAnswered(w, f) PROVE BackendTypes' /\ inFlight' \subseteq Tx
  <2>1. PICK answer \in Answers : run' = [run EXCEPT ![w] = [@ EXCEPT !.answer = answer]]
    BY <1>6 DEF SendAnswered, RevealOutcome, Answers
  <2>2. PICK r : r = [run[w] EXCEPT !.answer = answer]
    OBVIOUS
  <2>3. r.rows = run[w].rows /\ r.answer = answer /\ run' = [run EXCEPT ![w] = r]
    BY <1>1, <1>2, <2>1, <2>2 DEF SourcesOK
  <2>4. UNCHANGED <<stored, inFlight>>
    BY <1>6 DEF SendAnswered
  <2>5. RunTypes'
    BY <1>1, <1>3, <2>3, <2>4, RunSet
  <2> QED
    BY <1>1, <1>4, <2>4, <2>5 DEF BackendTypes
<1>7. ASSUME NEW f \in FixtureId, SendUnanswered(w, f) PROVE BackendTypes' /\ inFlight' \subseteq Tx
  <2>1. PICK r : r = [run[w] EXCEPT !.answer = "NoAnswer"]
    OBVIOUS
  <2>2. r.rows = run[w].rows /\ r.answer = "NoAnswer" /\ run' = [run EXCEPT ![w] = r]
    BY <1>1, <1>2, <1>7, <2>1 DEF SourcesOK, SendUnanswered
  <2>3. UNCHANGED stored
    BY <1>7 DEF SendUnanswered
  <2>4. RunTypes'
    BY <1>1, <1>3, <2>2, <2>3, RunSet DEF Answers
  <2>5. \A i \in DOMAIN run[w].rows :
            [kind |-> "reveal", payload |-> PayloadOf(run[w].rows[i])] \in Tx
    <3>1. ASSUME NEW i \in DOMAIN run[w].rows PROVE PayloadOf(run[w].rows[i]) \in Payload
      <4>1. i \in DOMAIN stored /\ PayloadOf(run[w].rows[i]) = PayloadOf(stored[i])
        BY <1>3
      <4>2. stored[i] \in Row
        BY <1>1, <4>1, ElementOfSeq, LenProperties DEF BackendTypes
      <4> QED
        BY <4>1, <4>2, RowPayload
    <3> QED
      BY <3>1 DEF Tx
  <2>6. inFlight' \subseteq Tx
    BY <1>1, <1>7, <2>5 DEF SendUnanswered
  <2> QED
    BY <1>1, <1>4, <2>3, <2>4, <2>6 DEF BackendTypes
<1>8. CASE FinishRow(w)
  <2>1. PICK i \in DOMAIN run[w].rows :
            /\ IF Marks(run[w].answer) THEN MarkRow(run[w].rows[i].fixture) ELSE UNCHANGED stored
            /\ run' = [run EXCEPT ![w] = [active |-> RowsAfter(w, i) # << >>,
                                          rows |-> RowsAfter(w, i), answer |-> Nothing]]
    BY <1>8 DEF FinishRow
  <2>2. PICK rows : rows = RowsAfter(w, i)
    OBVIOUS
  <2>3. PICK r : r = [active |-> rows # << >>, rows |-> rows, answer |-> Nothing]
    OBVIOUS
  <2>4. \A j \in DOMAIN rows : j \in DOMAIN run[w].rows /\ rows[j] = run[w].rows[j]
    BY <2>2, AheadIsPart DEF RowsAfter
  <2>5. /\ stored \in Seq(Row)
        /\ stored' \in Seq(Row) /\ DOMAIN stored' = DOMAIN stored
        /\ \A j \in DOMAIN stored : PayloadOf(stored'[j]) = PayloadOf(stored[j])
    <3>1. stored \in Seq(Row)
      BY <1>1 DEF BackendTypes
    <3>2. CASE UNCHANGED stored
      BY <3>1, <3>2
    <3>3. ASSUME NEW f, MarkRow(f)
          PROVE  /\ stored' \in Seq(Row) /\ DOMAIN stored' = DOMAIN stored
                 /\ \A j \in DOMAIN stored : PayloadOf(stored'[j]) = PayloadOf(stored[j])
      <4>1. Len(stored) \in Nat /\ DOMAIN stored = 1..Len(stored)
        BY <3>1, LenProperties
      <4>2. /\ DOMAIN stored' = 1..Len(stored)
            /\ \A j \in 1..Len(stored) :
                  stored'[j] = IF stored[j].fixture = f THEN [stored[j] EXCEPT !.revealed = TRUE]
                               ELSE stored[j]
        BY <3>3, <4>1 DEF MarkRow
      <4>3. ASSUME NEW j \in 1..Len(stored)
            PROVE  stored'[j] \in Row /\ PayloadOf(stored'[j]) = PayloadOf(stored[j])
        <5>1. stored[j] \in Row
          BY <3>1, <4>1, ElementOfSeq
        <5> QED
          BY <4>2, <5>1 DEF Row, PayloadOf
      <4>4. stored' = [j \in 1..Len(stored) |-> stored'[j]]
        BY <3>3, <4>1, <4>2 DEF MarkRow
      <4>5. stored' \in Seq(Row)
        BY <4>1, <4>3, <4>4, IsASeq
      <4> QED
        BY <4>1, <4>2, <4>3, <4>5
    <3> QED
      BY <2>1, <3>1, <3>2, <3>3
  <2>6. \A v \in WorkerRun : run'[v] = IF v = w THEN r ELSE run[v]
    BY <1>1, <2>1, <2>2, <2>3 DEF SourcesOK
  <2>7. r.rows = rows /\ r.answer = Nothing
    BY <2>3
  <2>8. RunTypes'
    BY <1>1, <1>3, <2>4, <2>5, <2>6, <2>7 DEF RunTypes, Answers
  <2>9. UNCHANGED inFlight
    BY <1>8 DEF FinishRow
  <2> QED
    BY <1>1, <1>4, <2>5, <2>8, <2>9 DEF BackendTypes
<1> QED
  BY <1>5, <1>6, <1>7, <1>8 DEF Worker

LEMMA NextTypes ==
    ASSUME PickInv, PickTypes, [Next]_vars
    PROVE  PickTypes'
<1>1. ClientTypes /\ inFlight \subseteq Tx /\ BackendTypes
  BY DEF PickTypes
<1>2. ASSUME NEW w \in WorkerRun, Worker(w) PROVE PickTypes'
  <2>1. UNCHANGED clientVars
    BY <1>2 DEF Worker, StartRun, SendAnswered, SendUnanswered, FinishRow
  <2>2. ClientTypes'
    BY <1>1, <2>1 DEF ClientTypes, clientVars
  <2> QED
    BY <1>2, <2>2, WorkerTypes DEF PickTypes
<1>3. CASE RestartBackend
  <2>1. UNCHANGED clientVars /\ UNCHANGED <<inFlight, stored, listed>>
    BY <1>3 DEF RestartBackend
  <2>2. run' = [w \in WorkerRun |-> IdleRun] /\ restarts' \in 0..MaxRestarts
    BY <1>1, <1>3, PickConstants DEF RestartBackend, BackendTypes
  <2>3. RunTypes'
    BY <2>2 DEF RunTypes, IdleRun, Answers
  <2> QED
    BY <1>1, <2>1, <2>2, <2>3 DEF PickTypes, ClientTypes, clientVars, BackendTypes
<1>4. ASSUME NEW f \in Deletable, DeleteFixture(f) \/ UpsertFixture(f) PROVE PickTypes'
  <2>1. UNCHANGED clientVars /\ UNCHANGED <<inFlight, stored, run, restarts>>
    BY <1>4 DEF DeleteFixture, UpsertFixture
  <2>2. listed' \subseteq FixtureId
    BY <1>1, <1>4, PickConstants DEF DeleteFixture, UpsertFixture, BackendTypes
  <2> QED
    BY <1>1, <2>1, <2>2 DEF PickTypes, ClientTypes, clientVars, BackendTypes, RunTypes
<1>5. CASE TimePasses \/ UNCHANGED vars
  <2>1. UNCHANGED <<clientVars, inFlight, backendVars>>
    BY <1>5 DEF TimePasses, vars
  <2> QED
    BY <1>1, <2>1
       DEF PickTypes, ClientTypes, clientVars, BackendTypes, backendVars, RunTypes
<1> QED
  BY <1>2, <1>3, <1>4, <1>5, ClientStepTypes, NetworkTypes DEF Next

(***************************************************************************)
(* Every variable holds what the code keeps in it, on each page, in flight *)
(* and in the backend (TypeOK): above all, no queue in localStorage and no *)
(* retry pass ever has one pick twice (pendingPicks.ts:21-32, 35-48).      *)
(***************************************************************************)
THEOREM PickTypesCorrect == Spec => []TypeOK
<1>1. Init => PickTypes
  BY InitTypes
<1>2. PickInv /\ PickTypes /\ [Next]_vars => PickTypes'
  BY NextTypes
<1>3. PickInv /\ PickTypes => TypeOK
  BY TypesMean DEF PickInv
<1> QED
  BY <1>1, <1>2, <1>3, PickInvariant, PTL DEF Spec
=============================================================================

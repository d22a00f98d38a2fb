----------------------- MODULE AcertanaProgramProofs -----------------------
(***************************************************************************)
(* What AcertanaProgram guarantees for every set of wallets, fixtures,     *)
(* goals and salts, and every bound on the clock.                          *)
(***************************************************************************)
EXTENDS AcertanaProgram, TLAPS

(* The inductive invariant: no conjunct survives a step without the others.*)
ChainInv ==
    /\ ChainTypeOK
    /\ ShownOpensCommitment
    /\ EntriesAnchored

-----------------------------------------------------------------------------

(* The entry commit_pick writes is an Entry, so it is never NoAccount. *)
LEMMA FreshEntryType ==
    ASSUME NEW d \in Digest
    PROVE  [commitment |-> d, revealed |-> FALSE, home_goals |-> 0, away_goals |-> 0] \in Entry
BY ChainConstants DEF Entry

(* A registered kickoff and the clock are integers. *)
LEMMA TimesAreIntegers ==
    ASSUME ChainTypeOK, NEW f \in FixtureId
    PROVE  clock \in Int /\ (Registered(f) => fixtures[f] \in Int)
<1>1. clock \in Int
  BY ChainConstants DEF ChainTypeOK
<1>2. fixtures[f] \in {t \in KickoffTs : t > 0} \cup {NoAccount}
  BY DEF ChainTypeOK
<1>3. KickoffTs \subseteq Int
  BY ChainConstants
<1> QED
  BY <1>1, <1>2, <1>3 DEF Registered

(* What RevealOutcome = "Ok" says, free of the order of its checks. *)
LEMMA RevealOk ==
    ASSUME NEW k \in EntryKey, NEW h \in Goals, NEW a \in Goals, NEW s \in Salt,
           RevealOutcome(k, h, a, s) = "Ok"
    PROVE  /\ Committed(k)
           /\ Started(k.fixture_id)
           /\ ~Revealed(k)
           /\ Keccak[<<h, a, s>>] = entries[k].commitment
BY DEF RevealOutcome, Proves, Revealed

(* A successful reveal rewrites one entry and keeps its commitment. *)
LEMMA RevealEffect ==
    ASSUME ChainTypeOK,
           NEW k \in EntryKey, NEW h \in Goals, NEW a \in Goals, NEW s \in Salt,
           RevealPick(k, h, a, s)
    PROVE  /\ entries' = [entries EXCEPT ![k] =
                  [commitment |-> entries[k].commitment, revealed |-> TRUE,
                   home_goals |-> h, away_goals |-> a]]
           /\ entries'[k] \in Entry
           /\ \A j \in EntryKey \ {k} : entries'[j] = entries[j]
<1>1. Committed(k)
  BY RevealOk DEF RevealPick
<1>2. entries[k] \in Entry
  BY <1>1 DEF Committed, ChainTypeOK
<1> DEFINE e == [commitment |-> entries[k].commitment, revealed |-> TRUE,
                 home_goals |-> h, away_goals |-> a]
<1>4. e \in Entry
  BY <1>2 DEF Entry
<1>5. entries' = [entries EXCEPT ![k] = e]
  BY DEF RevealPick
<1> HIDE DEF e
<1>6. entries'[k] \in Entry /\ \A j \in EntryKey \ {k} : entries'[j] = entries[j]
  BY <1>4, <1>5 DEF ChainTypeOK
<1> QED
  BY <1>5, <1>6 DEF e

-----------------------------------------------------------------------------

LEMMA InitInv == ChainInit => ChainInv
BY ChainConstants
   DEF ChainInit, ChainInv, ChainTypeOK, ShownOpensCommitment, EntriesAnchored, Committed

(* Time only starts fixtures, and registering one unregisters none. *)
LEMMA TickStarts ==
    ASSUME ChainInv, Tick, NEW f \in FixtureId, Started(f)
    PROVE  Started(f)'
<1>1. fixtures[f] \in Int
  BY TimesAreIntegers DEF ChainInv, Started
<1>2. clock \in Int /\ clock' \in Int /\ clock < clock'
  BY ChainConstants DEF ChainInv, ChainTypeOK, Tick
<1> QED
  BY <1>1, <1>2 DEF Tick, Started, Registered

LEMMA RegisterKeeps ==
    ASSUME ChainInv, NEW w, NEW g \in FixtureId, NEW t \in KickoffTs, RegisterFixture(w, g, t),
           NEW f \in FixtureId, Registered(f)
    PROVE  Registered(f)' /\ fixtures'[f] = fixtures[f]
BY DEF ChainInv, ChainTypeOK, RegisterFixture, Registrable, Registered

LEMMA RegisterStarts ==
    ASSUME ChainInv, NEW w, NEW g \in FixtureId, NEW t \in KickoffTs, RegisterFixture(w, g, t),
           NEW f \in FixtureId, Started(f)
    PROVE  Started(f)'
<1>1. Registered(f)' /\ fixtures'[f] = fixtures[f]
  BY RegisterKeeps DEF Started
<1> QED
  BY <1>1 DEF Started, RegisterFixture

LEMMA TickInv == ChainInv /\ Tick => ChainInv'
<1> SUFFICES ASSUME ChainInv, Tick PROVE ChainInv'
  OBVIOUS
<1>1. ChainTypeOK'
  BY ChainConstants DEF ChainInv, ChainTypeOK, Tick
<1>2. ShownOpensCommitment'
  BY DEF ChainInv, ShownOpensCommitment, Tick, Committed, Revealed
<1>3. ASSUME NEW f \in FixtureId, Started(f) PROVE Started(f)'
  BY <1>3, TickStarts
<1>4. EntriesAnchored'
  BY <1>3 DEF ChainInv, EntriesAnchored, Tick, Committed, Revealed, Registered, EntryKey
<1> QED
  BY <1>1, <1>2, <1>4 DEF ChainInv

LEMMA RegisterInv ==
    ASSUME ChainInv, NEW w, NEW f \in FixtureId, NEW t \in KickoffTs, RegisterFixture(w, f, t)
    PROVE  ChainInv'
<1>1. ChainTypeOK'
  BY DEF ChainInv, ChainTypeOK, RegisterFixture, ValidKickoff
<1>2. ShownOpensCommitment'
  BY DEF ChainInv, ShownOpensCommitment, RegisterFixture, Committed, Revealed
<1>3. ASSUME NEW g \in FixtureId, Registered(g)
      PROVE  Registered(g)' /\ fixtures'[g] = fixtures[g]
  BY <1>3, RegisterKeeps
<1>4. EntriesAnchored'
  <2> SUFFICES ASSUME NEW k \in EntryKey, Committed(k)'
               PROVE  (k.pool \in pools /\ Registered(k.fixture_id)
                        /\ (Revealed(k) => Started(k.fixture_id)))'
    BY DEF EntriesAnchored
  <2>1. k.fixture_id \in FixtureId
    BY DEF EntryKey
  <2>2. k.pool \in pools /\ Registered(k.fixture_id)
        /\ (Revealed(k) => Started(k.fixture_id))
    BY DEF ChainInv, EntriesAnchored, RegisterFixture, Committed
  <2> QED
    BY <2>1, <2>2, <1>3 DEF RegisterFixture, Committed, Revealed, Started
<1> QED
  BY <1>1, <1>2, <1>4 DEF ChainInv

LEMMA CreatePoolInv ==
    ASSUME ChainInv, NEW p \in PoolKey, NEW n \in NameLen, CreatePool(p, n)
    PROVE  ChainInv'
BY DEF ChainInv, ChainTypeOK, ShownOpensCommitment, EntriesAnchored, CreatePool,
       Committed, Revealed, Registered, Started

LEMMA CommitInv ==
    ASSUME ChainInv, NEW k \in EntryKey, NEW d \in Digest, CommitPick(k, d)
    PROVE  ChainInv'
<1>1. ChainTypeOK'
  BY FreshEntryType DEF ChainInv, ChainTypeOK, CommitPick
<1>2. entries'[k] = [commitment |-> d, revealed |-> FALSE, home_goals |-> 0, away_goals |-> 0]
      /\ \A j \in EntryKey \ {k} : entries'[j] = entries[j]
  BY DEF ChainInv, ChainTypeOK, CommitPick
<1>3. ShownOpensCommitment'
  BY <1>2 DEF ChainInv, ShownOpensCommitment, Committed, Revealed
<1>4. EntriesAnchored'
  BY <1>2 DEF ChainInv, EntriesAnchored, CommitPick, CommitAccounts, Committed, Revealed,
              Registered, Started
<1> QED
  BY <1>1, <1>3, <1>4 DEF ChainInv

LEMMA RevealInv ==
    ASSUME ChainInv, NEW k \in EntryKey, NEW h \in Goals, NEW a \in Goals, NEW s \in Salt,
           RevealPick(k, h, a, s)
    PROVE  ChainInv'
<1>1. ChainTypeOK
  BY DEF ChainInv
<1>2. Committed(k) /\ Started(k.fixture_id) /\ Keccak[<<h, a, s>>] = entries[k].commitment
  BY RevealOk DEF RevealPick
<1> DEFINE e == [commitment |-> entries[k].commitment, revealed |-> TRUE,
                 home_goals |-> h, away_goals |-> a]
<1>a. entries' = [entries EXCEPT ![k] = e]
  BY <1>1, RevealEffect
<1>b. entries'[k] \in Entry /\ \A j \in EntryKey \ {k} : entries'[j] = entries[j]
  BY <1>1, RevealEffect
<1>c. entries'[k] = e
  BY <1>1, <1>a DEF ChainTypeOK
<1>3. /\ entries'[k] = e
      /\ entries'[k] \in Entry
      /\ \A j \in EntryKey \ {k} : entries'[j] = entries[j]
  BY <1>b, <1>c
<1>4. ChainTypeOK'
  BY <1>1, <1>3, <1>a DEF ChainTypeOK, RevealPick
<1>5. ShownOpensCommitment'
  <2>1. <<Keccak[<<h, a, s>>], h, a>> \in Openings
    BY DEF Openings
  <2> QED
    BY <1>2, <1>3, <2>1 DEF ChainInv, ShownOpensCommitment, Committed, Revealed
<1>6. EntriesAnchored'
  BY <1>2, <1>3 DEF ChainInv, EntriesAnchored, RevealPick, Committed, Revealed,
                    Registered, Started
<1> QED
  BY <1>4, <1>5, <1>6 DEF ChainInv

LEMMA StutterInv == ChainInv /\ UNCHANGED chainVars => ChainInv'
BY DEF ChainInv, chainVars, ChainTypeOK, ShownOpensCommitment, EntriesAnchored,
       Committed, Revealed, Registered, Started

(***************************************************************************)
(* Every step of the program, and every stuttering step, keeps ChainInv.   *)
(***************************************************************************)
LEMMA StepInv == ChainInv /\ [ChainNext]_chainVars => ChainInv'
<1> SUFFICES ASSUME ChainInv, [ChainNext]_chainVars PROVE ChainInv'
  OBVIOUS
<1>1. CASE Tick
  BY <1>1, TickInv
<1>2. CASE \E w \in Wallet, f \in FixtureId, t \in KickoffTs : RegisterFixture(w, f, t)
  BY <1>2, RegisterInv
<1>3. CASE \E p \in PoolKey, n \in NameLen : CreatePool(p, n)
  BY <1>3, CreatePoolInv
<1>4. CASE \E k \in EntryKey, d \in Digest : CommitPick(k, d)
  BY <1>4, CommitInv
<1>5. CASE \E k \in EntryKey, h, a \in Goals, s \in Salt : RevealPick(k, h, a, s)
  BY <1>5, RevealInv
<1>6. CASE UNCHANGED chainVars
  BY <1>6, StutterInv
<1> QED
  BY <1>1, <1>2, <1>3, <1>4, <1>5, <1>6 DEF ChainNext

THEOREM ChainInvariant == ChainSpec => []ChainInv
<1> QED
  BY InitInv, StepInv, PTL DEF ChainSpec

(***************************************************************************)
(* The accounts always hold what their structs can hold (lib.rs:202-244).  *)
(***************************************************************************)
THEOREM ChainTypeCorrect == ChainSpec => []ChainTypeOK
<1>1. ChainInv => ChainTypeOK
  BY DEF ChainInv
<1> QED
  BY <1>1, ChainInvariant, PTL

(***************************************************************************)
(* A revealed scoreline is always one the stored commitment opens as       *)
(* (reveal_pick, lib.rs:98-108).                                           *)
(***************************************************************************)
THEOREM ShownIsCommitted == ChainSpec => []ShownOpensCommitment
<1>1. ChainInv => ShownOpensCommitment
  BY DEF ChainInv
<1> QED
  BY <1>1, ChainInvariant, PTL

(***************************************************************************)
(* Entries stand on existing pools and registered fixtures, and a revealed *)
(* one on a fixture that has kicked off (lib.rs:66-70, 91-95, 149-199).    *)
(***************************************************************************)
THEOREM EntriesStayAnchored == ChainSpec => []EntriesAnchored
<1>1. ChainInv => EntriesAnchored
  BY DEF ChainInv
<1> QED
  BY <1>1, ChainInvariant, PTL

-----------------------------------------------------------------------------

(***************************************************************************)
(* Only commit_pick adds an entrant, and it cannot add one to a fixture    *)
(* that has started; nothing removes one.                                  *)
(***************************************************************************)
LEMMA EntrantsFrozen ==
    ASSUME ChainInv, [ChainNext]_chainVars, NEW f \in FixtureId, Started(f)
    PROVE  Entrants(f)' = Entrants(f)
<1>1. CASE UNCHANGED entries
  BY <1>1 DEF Entrants, Committed
<1>2. ASSUME NEW k \in EntryKey, NEW d \in Digest, CommitPick(k, d)
      PROVE  Entrants(f)' = Entrants(f)
  <2>1. k.fixture_id # f
    <3>1. fixtures[f] \in Int /\ clock \in Int
      BY TimesAreIntegers DEF ChainInv, Started
    <3>2. clock < fixtures[k.fixture_id]
      BY <1>2 DEF CommitPick, OpenForPicks
    <3> QED
      BY <3>1, <3>2 DEF Started
  <2>2. \A j \in EntryKey \ {k} : entries'[j] = entries[j]
    BY <1>2 DEF ChainInv, ChainTypeOK, CommitPick
  <2> QED
    BY <2>1, <2>2 DEF Entrants, Committed
<1>3. ASSUME NEW k \in EntryKey, NEW h \in Goals, NEW a \in Goals, NEW s \in Salt,
             RevealPick(k, h, a, s)
      PROVE  Entrants(f)' = Entrants(f)
  <2>1. ChainTypeOK /\ Committed(k)
    BY <1>3, RevealOk DEF RevealPick, ChainInv
  <2>2. entries'[k] \in Entry /\ \A j \in EntryKey \ {k} : entries'[j] = entries[j]
    BY <1>3, <2>1, RevealEffect
  <2> QED
    BY <2>1, <2>2, ChainConstants DEF Entrants, Committed
<1>4. CASE ChainNext
  BY <1>1, <1>2, <1>3, <1>4 DEF ChainNext, Tick, RegisterFixture, CreatePool
<1> QED
  BY <1>1, <1>4 DEF chainVars

(* Once a pick of it is public, a fixture is past its kickoff for good. *)
LEMMA EntrantsStay ==
    ASSUME ChainInv, [ChainNext]_chainVars
    PROVE  \A f \in FixtureId : (\E k \in Entrants(f) : Revealed(k)) => Entrants(f)' = Entrants(f)
<1>1. ASSUME NEW f \in FixtureId, NEW k \in Entrants(f), Revealed(k)
      PROVE  Entrants(f)' = Entrants(f)
  <2>1. k \in EntryKey /\ k.fixture_id = f /\ Committed(k)
    BY <1>1 DEF Entrants
  <2>2. Started(k.fixture_id)
    BY <1>1, <2>1 DEF ChainInv, EntriesAnchored
  <2>3. Started(f)
    BY <2>1, <2>2
  <2> QED
    BY <2>3, EntrantsFrozen
<1> QED
  BY <1>1

(***************************************************************************)
(* Nobody joins a fixture after a pick of it became public: the copy-proof *)
(* promise of lib.rs:1-4, which spans two instructions, the fixture        *)
(* registry and the clock.                                                 *)
(***************************************************************************)
THEOREM KickoffSeparates == ChainSpec => NoCommitAfterFirstReveal
<1>1. ChainInv /\ [ChainNext]_chainVars =>
          [\A f \in FixtureId :
              (\E k \in Entrants(f) : Revealed(k)) => Entrants(f)' = Entrants(f)]_chainVars
  BY EntrantsStay
<1> QED
  BY <1>1, ChainInvariant, PTL DEF ChainSpec, NoCommitAfterFirstReveal

-----------------------------------------------------------------------------

(* The abstract state AcertanaProgram's accounts stand for. *)
Picks == [k \in EntryKey |-> PickOf(k)]
Closed == {f \in FixtureId : Started(f)}

(* An abstract pick is missing exactly when the entry is. *)
LEMMA PickOfMissing ==
    ASSUME ChainTypeOK, NEW k \in EntryKey
    PROVE  (PickOf(k) = NoAccount) <=> ~Committed(k)
<1>1. ASSUME Committed(k) PROVE PickOf(k) \in Pick
  <2>1. entries[k] \in Entry
    BY <1>1 DEF Committed, ChainTypeOK
  <2>2. CASE entries[k].revealed
    BY <1>1, <2>1, <2>2 DEF PickOf, Pick, Entry
  <2>3. CASE ~entries[k].revealed
    BY <1>1, <2>1, <2>3 DEF PickOf, Pick, Entry
  <2> QED
    BY <2>2, <2>3
<1>2. ASSUME ~Committed(k) PROVE PickOf(k) = NoAccount
  BY <1>2 DEF PickOf
<1> QED
  BY <1>1, <1>2, ChainConstants

LEMMA InitRefines == ChainInit => Sealed!Init
<1> SUFFICES ASSUME ChainInit PROVE Sealed!Init
  OBVIOUS
<1>1. ChainTypeOK
  BY InitInv DEF ChainInv
<1>2. \A k \in EntryKey : ~Committed(k)
  BY DEF ChainInit, Committed
<1>3. Picks = [k \in EntryKey |-> NoAccount]
  BY <1>1, <1>2, PickOfMissing DEF Picks
<1>4. Closed = {}
  BY DEF Closed, ChainInit, Started, Registered
<1> QED
  BY <1>3, <1>4 DEF Sealed!Init, Picks, Closed

(* A step that touches no entry closes the fixtures it starts. *)
LEMMA ClosingStep ==
    ASSUME UNCHANGED entries, \A f \in FixtureId : Started(f) => Started(f)'
    PROVE  \E F \in SUBSET FixtureId : Sealed!Close(F)
<1>1. Picks' = Picks
  BY DEF Picks, PickOf, Committed
<1>2. Closed' = Closed \cup Closed' /\ Closed' \in SUBSET FixtureId
  BY DEF Closed
<1>3. Sealed!Close(Closed')
  BY <1>1, <1>2 DEF Sealed!Close, Picks, Closed
<1> QED
  BY <1>2, <1>3

(* A step that neither touches an entry nor starts a fixture shows nothing. *)
LEMMA SilentStep ==
    ASSUME UNCHANGED <<clock, fixtures, entries>>
    PROVE  Picks' = Picks /\ Closed' = Closed
BY DEF Picks, Closed, PickOf, Committed, Started, Registered

LEMMA TickRefines ==
    ASSUME ChainInv, Tick
    PROVE  \E F \in SUBSET FixtureId : Sealed!Close(F)
<1>1. UNCHANGED entries
  BY DEF Tick
<1>2. ASSUME NEW f \in FixtureId, Started(f) PROVE Started(f)'
  BY <1>2, TickStarts
<1> QED
  BY <1>1, <1>2, ClosingStep

LEMMA RegisterRefines ==
    ASSUME ChainInv, NEW w, NEW g \in FixtureId, NEW t \in KickoffTs, RegisterFixture(w, g, t)
    PROVE  \E F \in SUBSET FixtureId : Sealed!Close(F)
<1>1. UNCHANGED entries
  BY DEF RegisterFixture
<1>2. ASSUME NEW f \in FixtureId, Started(f) PROVE Started(f)'
  BY <1>2, RegisterStarts
<1> QED
  BY <1>1, <1>2, ClosingStep

LEMMA CommitRefines ==
    ASSUME ChainInv, NEW k \in EntryKey, NEW d \in Digest, CommitPick(k, d)
    PROVE  Sealed!SealPick(k, d)
<1> DEFINE e == [commitment |-> d, revealed |-> FALSE, home_goals |-> 0, away_goals |-> 0]
           q == [seal |-> d, shown |-> << >>]
<1>1. entries'[k] = e /\ \A j \in EntryKey \ {k} : entries'[j] = entries[j]
  BY DEF ChainInv, ChainTypeOK, CommitPick
<1>2. e # NoAccount
  BY FreshEntryType, ChainConstants
<1>3. PickOf(k)' = q
  BY <1>1, <1>2 DEF PickOf, Committed
<1>4. \A j \in EntryKey \ {k} : PickOf(j)' = PickOf(j)
  BY <1>1 DEF PickOf, Committed
<1>5. Picks' = [Picks EXCEPT ![k] = q]
  BY <1>3, <1>4 DEF Picks
<1>6. Closed' = Closed
  BY DEF Closed, CommitPick, Started, Registered
<1>7. Picks[k] = NoAccount
  BY PickOfMissing DEF ChainInv, Picks, CommitPick, CommitAccounts
<1>8. k.fixture_id \notin Closed
  <2>1. k.fixture_id \in FixtureId
    BY DEF EntryKey
  <2>2. Registered(k.fixture_id) /\ clock < fixtures[k.fixture_id]
    BY DEF CommitPick, CommitAccounts, OpenForPicks
  <2>3. ~Started(k.fixture_id)
    BY <2>1, <2>2, TimesAreIntegers DEF ChainInv, Started
  <2> QED
    BY <2>3 DEF Closed
<1> QED
  BY <1>5, <1>6, <1>7, <1>8 DEF Sealed!SealPick, Sealed!Hidden, Picks, Closed

LEMMA RevealRefines ==
    ASSUME ChainInv, NEW k \in EntryKey, NEW h \in Goals, NEW a \in Goals, NEW s \in Salt,
           RevealPick(k, h, a, s)
    PROVE  Sealed!Show(k, h, a)
<1> DEFINE e == [commitment |-> entries[k].commitment, revealed |-> TRUE,
                 home_goals |-> h, away_goals |-> a]
           q == [seal |-> entries[k].commitment, shown |-> <<h, a>>]
<1>1. /\ Committed(k)
      /\ Started(k.fixture_id)
      /\ ~entries[k].revealed
      /\ Keccak[<<h, a, s>>] = entries[k].commitment
  BY RevealOk DEF RevealPick, Revealed
<1>2. /\ entries' = [entries EXCEPT ![k] = e]
      /\ entries'[k] \in Entry
      /\ \A j \in EntryKey \ {k} : entries'[j] = entries[j]
  BY RevealEffect DEF ChainInv
<1>3. entries'[k] = e
  BY <1>2 DEF ChainInv, ChainTypeOK
<1>4. PickOf(k)' = q
  <2>1. entries'[k] # NoAccount
    BY <1>2, ChainConstants
  <2> QED
    BY <1>3, <2>1 DEF PickOf, Committed
<1>5. \A j \in EntryKey \ {k} : PickOf(j)' = PickOf(j)
  BY <1>2 DEF PickOf, Committed
<1>6. Picks' = [Picks EXCEPT ![k] = q]
  BY <1>4, <1>5 DEF Picks
<1>7. Closed' = Closed
  BY DEF Closed, RevealPick, Started, Registered
<1>8. Picks[k] = [seal |-> entries[k].commitment, shown |-> << >>]
  BY <1>1 DEF Picks, PickOf
<1>9. k.fixture_id \in Closed /\ Picks[k] # NoAccount
  BY <1>1, PickOfMissing DEF ChainInv, Closed, Picks, EntryKey
<1>10. <<Picks[k].seal, h, a>> \in Openings
  BY <1>1, <1>8 DEF Openings
<1>11. q = [seal |-> Picks[k].seal, shown |-> <<h, a>>] /\ Picks[k].shown = << >>
  BY <1>8
<1> HIDE DEF q
<1> QED
  BY <1>6, <1>7, <1>9, <1>10, <1>11 DEF Sealed!Show, Sealed!Hidden, Picks, Closed

(* Every step of the program is a step of SealedPicks, or shows nothing. *)
LEMMA StepRefines ==
    ASSUME ChainInv, [ChainNext]_chainVars
    PROVE  [Sealed!Next]_<<Picks, Closed>>
<1>1. CASE Tick
  BY <1>1, TickRefines DEF Sealed!Next
<1>2. ASSUME NEW w \in Wallet, NEW f \in FixtureId, NEW t \in KickoffTs, RegisterFixture(w, f, t)
      PROVE  Sealed!Next
  BY <1>2, RegisterRefines DEF Sealed!Next
<1>3. ASSUME NEW p \in PoolKey, NEW n \in NameLen, CreatePool(p, n)
      PROVE  Picks' = Picks /\ Closed' = Closed
  BY <1>3, SilentStep DEF CreatePool
<1>4. ASSUME NEW k \in EntryKey, NEW d \in Digest, CommitPick(k, d)
      PROVE  Sealed!Next
  BY <1>4, CommitRefines DEF Sealed!Next
<1>5. ASSUME NEW k \in EntryKey, NEW h \in Goals, NEW a \in Goals, NEW s \in Salt,
             RevealPick(k, h, a, s)
      PROVE  Sealed!Next
  <2>1. Sealed!Show(k, h, a)
    BY <1>5, RevealRefines
  <2> DEFINE t == <<Keccak[<<h, a, s>>], h, a>>
  <2>2. t \in Openings /\ t[2] = h /\ t[3] = a
    BY DEF Openings
  <2> HIDE DEF t
  <2> QED
    BY <2>1, <2>2 DEF Sealed!Next
<1>6. CASE UNCHANGED chainVars
  BY <1>6, SilentStep DEF chainVars
<1> QED
  BY <1>1, <1>2, <1>3, <1>4, <1>5, <1>6 DEF ChainNext

(***************************************************************************)
(* The program implements SealedPicks: whatever the clock, the fixtures    *)
(* and the participants do, a pick stays as it was sealed before kickoff   *)
(* and is only ever shown, once, as a scoreline that opens its seal        *)
(* (commit_pick and reveal_pick, lib.rs:61-110).                           *)
(***************************************************************************)
THEOREM ProgramImplementsSealedPicks == ChainSpec => RefinesSealedPicks
<1>1. ChainInv /\ [ChainNext]_chainVars => [Sealed!Next]_<<Picks, Closed>>
  BY StepRefines
<1> QED
  BY <1>1, InitRefines, ChainInvariant, PTL
     DEF ChainSpec, RefinesSealedPicks, Sealed!Spec, Picks, Closed
=============================================================================

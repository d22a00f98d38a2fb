-------------------------- MODULE AcertanaProgram --------------------------
(***************************************************************************)
(* The on-chain program, programs/acertana/src/lib.rs: the registry of     *)
(* kickoff times, the pool anchors and the commit-reveal entries.  Every   *)
(* instruction is one atomic action; an instruction whose checks fail      *)
(* changes nothing, so it has no action of its own, only an outcome        *)
(* (RevealOutcome) that its sender sees.                                   *)
(***************************************************************************)
EXTENDS Integers, FiniteSets

CONSTANTS
    Wallet,            \* public keys that sign transactions
    FixtureAuthority,  \* the one key allowed to register fixtures
    Organizer,         \* the wallets that create pools
    PoolId,            \* pool ids an organizer may choose
    NameLen,           \* byte lengths of the pool names that are tried
    PoolNameMaxLen,    \* POOL_NAME_MAX_LEN
    FixtureId,
    KickoffTs,         \* the i64 kickoff times the authority may submit
    Goals,             \* the u8 goal counts that are picked
    Salt,              \* 32-byte salts
    Digest,            \* 32-byte strings: what commit_pick stores
    Keccak,            \* keccak-256 of home, away, salt
    NoAccount,         \* the content of an address no account was created at
    MaxTime            \* bound on the Clock sysvar

PoolKey == [organizer : Organizer, pool_id : PoolId]
EntryKey == [pool : PoolKey, participant : Wallet, fixture_id : FixtureId]
Entry == [commitment : Digest, revealed : BOOLEAN, home_goals : Goals, away_goals : Goals]
Pick == [seal : Digest, shown : {<< >>} \cup (Goals \X Goals)]

(***************************************************************************)
(* Keccak is collision-free on the 34-byte preimages (home, away, salt).   *)
(* The zero goal count is what an unrevealed entry holds.                  *)
(***************************************************************************)
ASSUME ChainConstants ==
    /\ Organizer \subseteq Wallet
    /\ FixtureAuthority \in Wallet
    /\ PoolNameMaxLen \in Nat
    /\ NameLen \subseteq Nat
    /\ KickoffTs \subseteq Int
    /\ Goals \subseteq Nat
    /\ 0 \in Goals
    /\ MaxTime \in Nat
    /\ NoAccount \notin Int
    /\ NoAccount \notin Entry \cup Pick

ASSUME KeccakAssumption ==
    /\ Keccak \in [Goals \X Goals \X Salt -> Digest]
    /\ \A p, q \in Goals \X Goals \X Salt : Keccak[p] = Keccak[q] => p = q

VARIABLES
    clock,     \* Clock::get()?.unix_timestamp
    fixtures,  \* fixtures[f]: kickoff_ts of the Fixture account, or NoAccount
    pools,     \* the keys of the Pool accounts that exist
    entries    \* entries[k]: the Entry account, or NoAccount

chainVars == <<clock, fixtures, pools, entries>>

Registered(f) == fixtures[f] # NoAccount
Started(f) == Registered(f) /\ clock >= fixtures[f]
Committed(k) == entries[k] # NoAccount
Revealed(k) == Committed(k) /\ entries[k].revealed

-----------------------------------------------------------------------------

ChainInit ==
    /\ clock = 0
    /\ fixtures = [f \in FixtureId |-> NoAccount]
    /\ pools = {}
    /\ entries = [k \in EntryKey |-> NoAccount]

(* The cluster's clock never runs backwards and may skip seconds. *)
Tick ==
    /\ \E t \in (clock + 1)..MaxTime : clock' = t
    /\ UNCHANGED <<fixtures, pools, entries>>

(* require!(kickoff_ts > 0); the mutant also takes the epoch. *)
ValidKickoff_OrZero(kickoff) == kickoff >= 0
ValidKickoff(kickoff) == kickoff > 0

(* `init`: the Fixture account is created once; the mutant rewrites it. *)
Registrable_Always(f) == f \in FixtureId
Registrable(f) == ~Registered(f)

RegisterFixture(authority, f, kickoff) ==
    /\ authority = FixtureAuthority
    /\ Registrable(f)
    /\ ValidKickoff(kickoff)
    /\ fixtures' = [fixtures EXCEPT ![f] = kickoff]
    /\ UNCHANGED <<clock, pools, entries>>

CreatePool(p, nameLen) ==
    /\ p \notin pools
    /\ nameLen <= PoolNameMaxLen
    /\ pools' = pools \cup {p}
    /\ UNCHANGED <<clock, fixtures, entries>>

(* The accounts commit_pick loads; the mutant takes any address as a pool. *)
CommitAccounts_AnyPool(k) == Registered(k.fixture_id) /\ ~Committed(k)
CommitAccounts(k) ==
    /\ k.pool \in pools
    /\ Registered(k.fixture_id)
    /\ ~Committed(k)

(* require!(now < kickoff_ts); the mutant still commits at the kickoff second. *)
OpenForPicks_AtKickoff(f) == clock <= fixtures[f]
OpenForPicks(f) == clock < fixtures[f]

CommitPick(k, commitment) ==
    /\ CommitAccounts(k)
    /\ OpenForPicks(k.fixture_id)
    /\ entries' = [entries EXCEPT ![k] =
           [commitment |-> commitment, revealed |-> FALSE, home_goals |-> 0, away_goals |-> 0]]
    /\ UNCHANGED <<clock, fixtures, pools>>

(* The mutant believes the goals it is sent. *)
Proves_Anything(k, h, a, salt) == Committed(k)
Proves(k, h, a, salt) == Keccak[<<h, a, salt>>] = entries[k].commitment

(* The first check of reveal_pick that fails, or "Ok". *)
RevealOutcome(k, h, a, salt) ==
    CASE ~Committed(k) -> "AccountNotInitialized"
      [] Committed(k) /\ ~Started(k.fixture_id) -> "FixtureNotStarted"
      [] Started(k.fixture_id) /\ Revealed(k) -> "AlreadyRevealed"
      [] OTHER -> IF Proves(k, h, a, salt) THEN "Ok" ELSE "CommitmentMismatch"

RevealPick(k, h, a, salt) ==
    /\ RevealOutcome(k, h, a, salt) = "Ok"
    /\ entries' = [entries EXCEPT ![k] =
           [commitment |-> @.commitment, revealed |-> TRUE, home_goals |-> h, away_goals |-> a]]
    /\ UNCHANGED <<clock, fixtures, pools>>

ChainNext ==
    \/ Tick
    \/ \E w \in Wallet, f \in FixtureId, t \in KickoffTs : RegisterFixture(w, f, t)
    \/ \E p \in PoolKey, n \in NameLen : CreatePool(p, n)
    \/ \E k \in EntryKey, d \in Digest : CommitPick(k, d)
    \/ \E k \in EntryKey, h, a \in Goals, s \in Salt : RevealPick(k, h, a, s)

ChainSpec == ChainInit /\ [][ChainNext]_chainVars

-----------------------------------------------------------------------------

(* The triples <<commitment, home, away>> that some salt proves. *)
Openings ==
    {<<Keccak[<<h, a, s>>], h, a>> : h \in Goals, a \in Goals, s \in Salt}

Entrants(f) == {k \in EntryKey : k.fixture_id = f /\ Committed(k)}

(* Every account holds what its struct can hold. *)
ChainTypeOK ==
    /\ clock \in 0..MaxTime
    /\ fixtures \in [FixtureId -> {t \in KickoffTs : t > 0} \cup {NoAccount}]
    /\ pools \subseteq PoolKey
    /\ entries \in [EntryKey -> Entry \cup {NoAccount}]

(***************************************************************************)
(* The scoreline an entry shows is one its commitment, stored before       *)
(* kickoff, opens as; an entry that shows nothing holds the 0-0 commit_pick*)
(* wrote.  Nobody ever sees a pick its owner did not commit to.            *)
(***************************************************************************)
ShownOpensCommitment ==
    \A k \in EntryKey : Committed(k) =>
        IF Revealed(k)
        THEN <<entries[k].commitment, entries[k].home_goals, entries[k].away_goals>> \in Openings
        ELSE entries[k].home_goals = 0 /\ entries[k].away_goals = 0

(***************************************************************************)
(* An entry only ever stands on a pool and a fixture that exist, and no    *)
(* entry is open before its fixture's kickoff, at any later time: what     *)
(* makes the leaderboard's filter by pool meaningful, and a pick secret    *)
(* while others may still commit.                                          *)
(***************************************************************************)
EntriesAnchored ==
    \A k \in EntryKey : Committed(k) =>
        /\ k.pool \in pools
        /\ Registered(k.fixture_id)
        /\ Revealed(k) => Started(k.fixture_id)

(***************************************************************************)
(* Once one pick of a fixture is public, the set of entrants of that       *)
(* fixture is frozen: whoever sees a revealed pick can no longer commit,   *)
(* in any pool.  It rests on commit_pick and reveal_pick splitting time at *)
(* the same instant, on the kickoff of a registered fixture being final    *)
(* and on the clock.                                                       *)
(***************************************************************************)
NoCommitAfterFirstReveal ==
    [][\A f \in FixtureId :
          (\E k \in Entrants(f) : Revealed(k)) => Entrants(f)' = Entrants(f)]_chainVars

(***************************************************************************)
(* The program implements SealedPicks: a fixture is closed from its        *)
(* registered kickoff on, an entry is a seal and what it shows.            *)
(***************************************************************************)
PickOf(k) ==
    IF Committed(k)
    THEN [seal  |-> entries[k].commitment,
          shown |-> IF entries[k].revealed
                    THEN <<entries[k].home_goals, entries[k].away_goals>>
                    ELSE << >>]
    ELSE NoAccount

Sealed == INSTANCE SealedPicks WITH
    Key <- EntryKey, Fixture <- FixtureId, Seal <- Digest,
    Opens <- Openings, NoPick <- NoAccount,
    picks <- [k \in EntryKey |-> PickOf(k)],
    closed <- {f \in FixtureId : Started(f)}

RefinesSealedPicks == Sealed!Spec
=============================================================================

\* The clock is bounded by MaxTime, so a chain stops when all is revealed, and
\* time by MaxNow.
CHECK_DEADLOCK FALSE
CONSTANTS
    Wallet = {ana, bia}
    FixtureAuthority = bia
    Organizer = {ana}
    PoolId = {1}
    NameLen <- MCNameLen
    PoolNameMaxLen = 32
    FixtureId = {f1, f2}
    KickoffTs <- MCKickoffTs
    Goals = {0, 1}
    Salt = {s1}
    Digest <- MCDigest
    Keccak <- MCKeccak
    NoAccount = NoAccount
    MaxTime = 3
    Get = {g1}
    ScoreUpdate = {1, 2}
    MaxFeed = 3
    BackoffCap = 4
    MaxFaults = 2
    User = {u1}
    Address = {a1}
    Call = {k1, k2}
    NoUser = NoUser
    CacheTtl = 2
    Latency = 1
    MaxNow = 4
    MinBalance = 1
    TopUp = 2
    MaxLate = 1
    RosterPool = {p1}
    Code = {c1}
    Email = {}
    NoEmail = NoEmail
    NoRow = NoRow
    Response = {r1, r2}
SPECIFICATION MCSpec
INVARIANTS
    StandaloneTypeOK
    ShownOpensCommitment EntriesAnchored
    NoGapNoRepeat GetOutlivesItsToken
    TopUpsAreBounded
PROPERTIES
    NoCommitAfterFirstReveal RefinesSealedPicks
    StreamCatchesUp
    VerdictIsRecent
    RefinesGatedPools

\* Two picks of one page share the queue and the worker.
\* The clock is bounded by MaxTime: at the end of time the system may stop.
CHECK_DEADLOCK FALSE
CONSTANTS
    Wallet = {ana}
    FixtureAuthority = ana
    Organizer = {ana}
    PoolId = {1}
    NameLen = {1}
    PoolNameMaxLen = 32
    FixtureId = {f1, f2}
    KickoffTs <- MCKickoffTs
    Goals = {0, 1}
    Salt = {s1}
    Digest <- MCDigest
    Keccak <- MCKeccak
    NoAccount = NoAccount
    MaxTime = 1
    Self = ana
    Pool <- MCPool
    Page = {p1}
    WorkerRun = {w1}
    Score <- OneScore
    SaltOf <- MCSaltOf
    Kickoff <- MCSameKickoff
    DbKickoff <- MCEarlyDb
    Nothing = Nothing
    MaxInFlight = 1
    MaxRestarts = 1
    Deletable <- MCDeletable
SPECIFICATION BackendSpec
PROPERTIES StoredGetsShown ShownGetsMarked

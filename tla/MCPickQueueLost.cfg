\* A commit fails to post while a retry pass of the same page is in progress.
\* The clock is bounded by MaxTime: at the end of time the system may stop.
CHECK_DEADLOCK FALSE
CONSTANTS
    Wallet = {ana}
    FixtureAuthority = ana
    Organizer = {ana}
    PoolId = {1}
    NameLen = {1}
    PoolNameMaxLen = 32
    FixtureId = {f1, f2}
    KickoffTs <- MCKickoffTs
    Goals = {0, 1}
    Salt = {s1}
    Digest <- MCDigest
    Keccak <- MCKeccak
    NoAccount = NoAccount
    MaxTime = 2
    Self = ana
    Pool <- MCPool
    Page = {p1}
    WorkerRun = {w1}
    Score <- OneScore
    SaltOf <- MCSaltOf
    Kickoff <- MCKickoff
    DbKickoff <- MCDbKickoff
    Nothing = Nothing
    MaxInFlight = 1
    MaxRestarts = 0
    Deletable = {}
SPECIFICATION Spec
PROPERTY QueuedUntilStored

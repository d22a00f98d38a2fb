\* Two pages of one browser compete for one pick; worker runs overlap.
\* The clock is bounded by MaxTime: at the end of time the system may stop.
CHECK_DEADLOCK FALSE
CONSTANTS
    Wallet = {ana}
    FixtureAuthority = ana
    Organizer = {ana}
    PoolId = {1}
    NameLen = {1}
    PoolNameMaxLen = 32
    FixtureId = {f1}
    KickoffTs <- MCKickoffTs
    Goals = {0, 1}
    Salt = {s1}
    Digest <- MCDigest
    Keccak <- MCKeccak
    NoAccount = NoAccount
    MaxTime = 2
    Self = ana
    Pool <- MCPool
    Page = {p1, p2}
    WorkerRun = {w1, w2}
    Score <- TwoScores
    SaltOf <- MCSaltOf
    Kickoff <- MCKickoff
    DbKickoff <- MCDbKickoff
    Nothing = Nothing
    MaxInFlight = 2
    MaxRestarts = 1
    Deletable = {}
SPECIFICATION Spec
INVARIANTS TypeOK MarkedMeansShown ShownWasStored
PROPERTIES StoredIsFinal

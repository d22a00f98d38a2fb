CONSTANTS
    Wallet = {authority}
    FixtureAuthority = authority
    Organizer = {}
    PoolId = {}
    NameLen = {}
    PoolNameMaxLen = 32
    FixtureId = {1, 2}
    KickoffTs = {0, 1}
    Goals = {0}
    Salt = {}
    Digest = {}
    Keccak <- MCKeccak
    NoAccount = NoAccount
    MaxTime = 0
    Sync = {s1, s2}
    Cli = {s2}
    NoRow = NoRow
    MsThreshold = 100
    MaxMoves = 1
    MaxDeletes = 1
    MaxRestarts = 1
SPECIFICATION FairSpec
INVARIANTS TypeOK MarkedIsOnChain ChainKickoffWasAnnounced
PROPERTY GetsRegistered

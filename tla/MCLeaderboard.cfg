CONSTANTS
    Wallet = {ana, bia, caio}
    PoolId = {p1}
    Code = {c1}
    Email = {}
    NoEmail = NoEmail
    NoRow = NoRow
    Response = {r1}
    FixtureId = {m1}
    Scoreline <- MCScoreline
    Pick <- MCPick
    NilNil <- MCNilNil
    NoScore = NoScore
    NoResult = NoResult
    WalletOrder <- MCWalletOrder
    Request = {g1}
    Awaited = Awaited
SPECIFICATION MCSpec
INVARIANTS BoardsListMembers BoardEmailsAreForThePool RanksCountTheBetter

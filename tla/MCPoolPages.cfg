\* Safety only, so the symmetry of pools and codes is sound.  PoolId is a bound
\* on the pools ever created: with all of them used up, nothing may be left to
\* do, so deadlock is not checked.
CONSTANTS
    Wallet = {ana, bia}
    Organizer = {ana}
    Guest = {bia}
    PoolId = {p1, p2}
    Code = {c1, c2}
    Email = {e1}
    NoEmail = NoEmail
    NoRow = NoRow
    NoCode = NoCode
    NoList = NoList
    Response = {r1, r2}
    Desk = {r1}
SYMMETRY MCSymmetry
SPECIFICATION Spec
INVARIANTS RosterTypeOK GatedNeedsApproval PagesTypeOK LinksLeadToTheirPool InviteStaysInside JoinScreensHold
PROPERTIES RowsStay
CHECK_DEADLOCK FALSE

\* The final action is a bare status, as on the live feed.
CONSTANTS
    FixtureId = {m1}
    Covered = {m1}
    Scoreline = {s00, s10, s11}
    NilNil = s00
    NoScore = NoScore
    NoResult = NoResult
    Backfill = {b1}
    Corrections = FALSE
    MaxActions = 4
    MaxRestarts = 1
SPECIFICATION Spec
INVARIANT FinalIsTrue

\* A match of the feed and one that only the admin settles.
CONSTANTS
    FixtureId = {m1, m2}
    Covered = {m1}
    Scoreline = {s00, s10}
    NilNil = s00
    NoScore = NoScore
    NoResult = NoResult
    Backfill = {b1}
    Corrections = TRUE
    MaxActions = 3
    MaxRestarts = 1
SPECIFICATION FairSpec
INVARIANTS TypeOK NoInventedScore ScoredEndIsTrue
PROPERTIES FinalStaysFinal RefinesMatchBoard EndedGetsFinal

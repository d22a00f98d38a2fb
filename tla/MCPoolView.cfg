CONSTANTS
    Match = {m1}
    Try = {t1, t2}
    Nothing = Nothing
    Kickoff = {1, 2}
    MaxNow = 1
    MaxLive = 2
SPECIFICATION MCSpec
INVARIANT ViewTypeOK
PROPERTIES RowNeverReopens PageCatchesUp

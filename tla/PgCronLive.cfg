CONSTANTS
    frequent = frequent
    daily = daily
    r1 = r1
    r2 = r2
    p1 = p1
    p2 = p2
    k1 = k1
    k2 = k2
    k3 = k3
    k4 = k4
    Never = Never
    NoToken = NoToken
    MinuteTicks = 1
    HourMinutes = 2
    DayHours = 2
    Schedule = {frequent, daily}
    OffsetsOf <- MCOffsetsOf
    Boundaries = {0, 1}
    Run = {r1}
    Process = {p1}
    ProcessOf <- MCOneProcess
    Token = {k1, k2, k3}
    Lease = 1
    MaxConcurrent = 1
    MaxAttempts = 2
    HistoryLimit = 1
    Horizon = 3
SPECIFICATION FairSpec
PROPERTIES
    EveryOccurrenceSettled

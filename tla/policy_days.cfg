\* The default settings, on a host whose clock shows KST.
SPECIFICATION ScheduleSpec
CONSTANTS
    Never = Never
    complaint = complaint
    policy = policy
    contest = contest
    Others = {complaint, contest}
    Policy = policy
    Hour <- MCHour
    IntervalDays = 3
    LookbackDays = 3
    Behind = 0
    FirstDay = 5
    LastDay = 13
    MaxTroubles = 2
INVARIANTS SteadySyncsMissNoDay
CHECK_DEADLOCK FALSE

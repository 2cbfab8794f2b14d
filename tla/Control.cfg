CONSTANTS
    strict = strict
    loose = loose
    dry = dry
    doctor = doctor
    Handlers = {1, 2}
    Orders = {strict, loose, dry, doctor}
    Confirmed = {strict, loose}
    Harmless = {doctor}
    Spawned = {dry}
    Groups = {"pairs", "replay", "doctor"}
    GroupOf <- MCGroupOf
    Ttl = 2
    MaxPending = 2
    History = 1
    MaxRequests = 4
    MaxTime = 2
SPECIFICATION ControlSpec
CHECK_DEADLOCK FALSE
INVARIANTS EachRunWasArmed NoneSpentTwice JobsHoldTheirGroups
PROPERTY CancelledJobsEnd

SPECIFICATION Spec
CONSTANTS
    Walkers = {"driver"}
    Addresses = {"eip"}
    Groups = {"eip"}
    GroupOf <- MCGroupOf
    MaxWarm = 1
    MaxFinal = 1
    MaxBusy = 2
    MaxBox = 1
    MaxEvents = 0
INVARIANT OneMoverAtATime
CHECK_DEADLOCK FALSE

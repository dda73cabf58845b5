SPECIFICATION FairSpec
CONSTANTS
    Walkers = {"driver", "pass"}
    Addresses = {"eip"}
    Groups = {"eip"}
    GroupOf <- MCGroupOf
    MaxWarm = 1
    MaxFinal = 2
    MaxBusy = 2
    MaxBox = 2
    MaxEvents = 1
INVARIANTS TypeOK CutOverIsAsked OneBoxPerImage
PROPERTY StagesSettle
CHECK_DEADLOCK FALSE

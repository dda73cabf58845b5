SPECIFICATION FairSpec
CONSTANTS
  Instances = {"i1", "i2", "n1"}
  Accounts = {"a", "b"}
  AccountOf <- AccountByName
  PoolOf <- PoolByName
  NoPool = "no pool"
  Gateways = {"nat1"}
  States = {"running"}
  Callers = {"cron", "page"}
  MaxEvents = 2
INVARIANTS TypeOK 
PROPERTIES SeenAgainCloses DepartureIsTold
CHECK_DEADLOCK FALSE

SPECIFICATION SpecAnswering
CONSTANTS
  Networks = {"", "home", "wps"}
  WpsNetwork = "wps"
  ApConfigs = {"ap1", "ap2"}
  Requests <- MCRequests
  CfgTimeout = 1
  Faults = {"timer", "alloc", "scan"}
  MaxRequests = 2
  MaxEvents = 2
  Conns = {"c1", "c2"}
  Data = {1, 2, 3}
  MaxRecords = 2
INVARIANTS
  TypeOK
  ScanDataAlive
PROPERTIES
  FallbackRestores
  AttemptEnds
  ScanEnds
CHECK_DEADLOCK FALSE

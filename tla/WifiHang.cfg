SPECIFICATION Spec
CONSTANTS
  Networks = {"", "home", "wps"}
  WpsNetwork = "wps"
  ApConfigs = {"ap1", "ap2"}
  Requests <- MCRequests
  CfgTimeout = 1
  Faults = {"alloc"}
  MaxRequests = 2
  MaxEvents = 2
  Conns = {"c1", "c2"}
  Data = {1, 2, 3}
  MaxRecords = 2
PROPERTIES
  ScanEnds
CHECK_DEADLOCK FALSE

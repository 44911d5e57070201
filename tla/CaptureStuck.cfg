SPECIFICATION CamFairSpec
CONSTANTS
  Conns = {c1, c2}
  NoConn = NoConn
  PictureSizes <- SomeSizes
CHECK_DEADLOCK FALSE
PROPERTY
  TransferEnds

SPECIFICATION CamFairSpec
CONSTANTS
  Conns = {c1, c2, c3}
  NoConn = NoConn
  PictureSizes <- SomeSizes
CHECK_DEADLOCK FALSE
INVARIANTS
  FrameIsThere
  SenderOwnsFrame
PROPERTY
  MqttReleases

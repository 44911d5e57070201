SPECIFICATION FairSpec
CONSTANTS
  N_RELAYS = 2
  RelayType <- LatchingAndNormal
  HighEffective = FALSE
  StepMs = 100
  PulseTicks = 2
  Requests <- TwoRelayRequests
  StackValues <- Garbage
  Missing = Missing
  MaxLag = 1
INVARIANTS
  TypeOK
  CoilsOpposedOnlyByUntimed
  NoCoilLeftOn
  ReportIsTrue
PROPERTY
  CountdownEnds

SPECIFICATION FairSpec
CHECK_DEADLOCK FALSE
INVARIANTS
  ReleasedExactlyOnce
  OpenStreamReserved
  NoStreamLeftOpen
  CancellationSurfaces
PROPERTIES
  TornDown
  ImplementsStay

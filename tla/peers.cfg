SPECIFICATION FairSpec
CONSTANTS
  a1 = a1 b1 = b1 b2 = b2
  A = A B = B
  Nodes <- PairNodes
  Segments = {A, B}
  Segment <- PairSegment
  Seeds <- PairSeeds
  NoRoute <- PairNoRoute
  Mortal <- PairMortal
  LocalTimeout = 1
  ToldTimeout = 1
  ForgetAfter = 4
  MaxStops = 1
  MaxLosses = 2
  None = None
PROPERTIES
  CrashedIsForgotten
  RunningIsKnown

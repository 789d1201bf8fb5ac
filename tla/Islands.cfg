SPECIFICATION Spec

CONSTANTS
  ntree = 4
  nv = 5
  TreeOf <- MCTreeOf
  Systems <- MCSystems
  Old = Old
  Smooth = Smooth

INVARIANTS
  TypeOK
  PartitionExact
  StackFits
  MapsExact
  ResultsExact

PROPERTIES
  FillEnds

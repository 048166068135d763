SPECIFICATION FairSpec
CONSTANTS
  Namespaces <- TwoNamespaces
  WellKnown <- ClusterOwn
  Shared <- OnlyProd
  PartChoices <- SomeParts
  Others <- TwoOthers
  MaxEdits = 1
  MaxFaults = 1
INVARIANT
  TypeOK
PROPERTIES
  DeployedIsThere
  LeavesOnlyDroppedParts
  NamespaceGoesAsListed
  RemoveEnds
\* A remove whose Deployment could not be deleted waits for its claim for ever.
CHECK_DEADLOCK FALSE

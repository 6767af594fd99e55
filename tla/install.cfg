SPECIFICATION FairSpec
CONSTANTS
  DualVisibility = TRUE
  MaxInstalls = 2
  MaxTeardowns = 2
  MaxFaults = 3
INVARIANTS
  TypeOK
  SchemaFirst
  HookHasDatabase
  HelmHoldsRelease
  TornIsGone
  InstalledIsWhole
  ArchivalHasBuckets
PROPERTIES
  
  CleanInstallCompletes
CHECK_DEADLOCK FALSE

CONSTANTS
  Names = {"a", "ab", "x"}
  NamePrefix <- MCNamePrefix
  MaxDrivers = 2
  MountTableSize = 2
  MountPoints <- MCMountPoints
  Threads = {t1, t2}
  OpenArgs <- MCOpenArgs
  ChdirArgs <- MCChdirArgs
  Directories <- MCDirectories
  MaxCalls = 4
  FdTableSize = 3
  AssetTableSize = 1
  SystemFds = 3
SYMMETRY ThreadSymmetry
SPECIFICATION Spec
INVARIANTS
  UnderlyingLive
  OwnedOnce
  HeldNamesOwnFile
  OpensWhatIsNamed
  DriversLive
CHECK_DEADLOCK FALSE

CONSTANTS
  u1 = u1
  u2 = u2
  bin = bin
  lib = lib
  none = none
  Updater = {u1, u2}
  File = {bin, lib}
  Binary = bin
  Absent = none
  MaxUpdates = 2
  MaxCrashes = 1
  Version <- MCVersion
  Carries <- MCCarries
  Genuine <- MCVersion
  Oldest <- Recommended
  Newest <- Recommended
  Original <- Installed
SPECIFICATION FairSpec
INVARIANTS
  TypeOK
  OneUpdateUnlessCleared
  ApplyingHasOwner
  UndoneLeavesOldEngine
  OldEngineOnDisk
PROPERTY
  UpdatesEnd

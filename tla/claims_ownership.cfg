SPECIFICATION FairSpec
CONSTANTS
  Targets = {t1, t2}
  Commands <- ClaimAndUnclaim
  InitialStrings = {"none"}
  OtherStrings = {"theirs"}
  GarbageBytes = {"first", "junk"}
  MaxAnswers = 1
  MaxFailures = 1
INVARIANTS
  TypeOK
PROPERTIES
  RegisteredAsStored
  BusyDiskStays
  LostIsReleased

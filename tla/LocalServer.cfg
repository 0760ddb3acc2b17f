SPECIFICATION FairSpec
CONSTANTS
  Platforms = 2
  Ids = {id1, id2}
  NoContact = nobody
  MaxInt = 1
  Memory = {1}
  FitsBelow = 1
  FitsAbove = 0
  MaxEvents = 2
  MaxCommands = 3
INVARIANTS
  TypeOK
  CrashCause
  CommandNumbersDiffer
  RegistrationIsReal
  FarewellsAreDue
PROPERTY
  StopEndsOnlySipThread

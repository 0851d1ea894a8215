CONSTANTS
  IdBits <- MCIdBits
  BUCKET_SIZE = 2
  Uninit = Uninit
  reference_id <- MCReferenceId
  Addresses <- MCAddresses
  Contacts <- MCAllContacts
  SeenIn <- MCReferrals
  MinuteSecs = 1
  GoodMinutes = 0
  Never = Never
  NoSplit = NoSplit
  NoPanic = NoPanic
  a1 = a1
SPECIFICATION Spec
\* A panic ends the program.
CHECK_DEADLOCK FALSE
INVARIANTS
  BoundsTile
  SlotsBelowLengthHoldEntries
  VectorAssertionsHold
  OnlyOwnIdPanics
  EntriesAreFound
  ClosestIsFilled
PROPERTIES
  SplitEnds

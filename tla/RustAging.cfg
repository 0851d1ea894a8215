CONSTANTS
  IdBits <- MCIdBits
  BUCKET_SIZE = 2
  Uninit = Uninit
  reference_id <- MCReferenceId
  Addresses <- MCAddresses
  Contacts <- MCAgingContacts
  SeenIn <- MCAllSeenIn
  MinuteSecs = 1
  GoodMinutes = 0
  Never = Never
  NoSplit = NoSplit
  NoPanic = NoPanic
  a1 = a1
SPECIFICATION Spec
PROPERTIES
  KeepsRatedContacts

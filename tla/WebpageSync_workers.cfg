CONSTANTS
  d1 = d1  d2 = d2  o1 = o1  o2 = o2
  Docs = {d1}
  Owners = {o1}
  OwnerOf <- MCOneOwner
  Workers = {w1, w2}
  Tokens = {t1, t2, t3}
  NoDoc = NoDoc
  NoToken = NoToken
  UrlCount = 2
  BatchCount = 1
  ScanLimit = 1
  Lease = 2
  JobTimeout = 1
  ClaimTime = 1
  SyncInterval = 1
  MaxVersion = 1
  Punctual = FALSE
SPECIFICATION Spec
SYMMETRY Symmetry
INVARIANTS
  TypeOK RowChecks OneStoredVersion ProcessingHasWork AutomaticIsScheduled
  NeverShortOfChunks WipedStaysEmpty DrainedStaysIdle
PROPERTIES
  PublicationMovesForward NothingPublishedAfterFence RequestedWorkIsKept
  ErasureImplemented DocumentsImplemented

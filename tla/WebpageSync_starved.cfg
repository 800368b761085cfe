CONSTANTS
  d1 = d1  d2 = d2  o1 = o1  o2 = o2
  Docs = {d1, d2}
  Owners = {o1, o2}
  OwnerOf <- MCTwoOwners
  Workers = {w1}
  Tokens = {1, 2, 3}
  NoDoc = NoDoc
  NoToken = 0
  UrlCount = 1
  BatchCount = 1
  ScanLimit = 1
  Lease = 2
  JobTimeout = 1
  ClaimTime = 1
  SyncInterval = 1
  MaxVersion = 0
  Punctual = TRUE
  MaxDisturbances = 5
SPECIFICATION BoundedLiveSpec
PROPERTY AbandonedClaimsRecover

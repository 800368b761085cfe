CONSTANTS
  u1 = u1  u2 = u2  o1 = o1  o2 = o2
  Uploads = {u1, u2}
  Owners = {o1, o2}
  OwnerOf <- MCTwoOwners
  Processes = {p1}
  NoProcess = NoProcess
  Faults = {"cipher", "process"}
SPECIFICATION Spec
INVARIANTS
  ProcessingHasJob RetainedIsRetried
PROPERTIES
  OriginalGoesWithItsJob

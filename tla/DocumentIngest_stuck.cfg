CONSTANTS
  u1 = u1  u2 = u2  o1 = o1  o2 = o2
  Uploads = {u1}
  Owners = {o1}
  OwnerOf <- MCOneOwner
  Processes = {p1}
  NoProcess = NoProcess
  Faults = {"database"}
SPECIFICATION Spec
INVARIANT ProcessingHasJob
CHECK_DEADLOCK FALSE

CONSTANTS
  file = file  web = web  o1 = o1  o2 = o2  MaxVersion = 1
  Docs = {file, web}
  Webpages = {web}
  Owners = {o1, o2}
  OwnerOf <- MCOneOwner
  TextsOf <- MCTexts
  NoText = NoText
  NotOlder <- MCNotOlder
  Revisions = {r1}
  NoOwner = NoOwner
  NoRevision = NoRevision
  Callers = {c1, c2}
SPECIFICATION Spec
SYMMETRY MCSymmetry
INVARIANTS
  TypeOK SearchIsCurrent RepliesAgree
PROPERTIES
  RevisionIsImmutable ErasureImplemented

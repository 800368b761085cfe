CONSTANTS
  file = file  web = web  r1 = r1
  Files = {file}
  Webpages = {web}
  Revisions = {r1}
  Seqs = {0, 1}
  Names = {"name"}
  Errors = {"error"}
  Pages = {"text"}
  Empty = "empty"
  Code = "code"
  VaultLike = {}
  None = None
  Rows <- MCRows
  Id <- MCId
SPECIFICATION Spec
INVARIANT UnchangedIsPublishable

CONSTANTS
  file = file  web = web  r1 = r1
  Files = {file}
  Webpages = {web}
  Revisions = {r1}
  Seqs = {0, 1}
  Names = {"name"}
  Errors = {"error"}
  Pages = {"text", "vault"}
  Empty = "empty"
  Code = "code"
  VaultLike = {"vault"}
  None = None
  Rows <- MCRows
  Id <- MCId
SPECIFICATION Spec
INVARIANTS
  TypeOK ReadsAsWritten HashDescribesText StraddlingSyncIsPublishable MigratedLeavesNoPlaintext
PROPERTIES
  FrozenTextIsKept

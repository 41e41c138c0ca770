INIT RenameInit
NEXT RenameNext
CONSTANTS
  Files <- MCFiles
  LibFiles = {"l.clj"}
  EdnFiles = {"c.edn"}
  Dialect <- MCDialect
  Workspaces <- TwoDefinitions
  NewNames = {"z"}
  MaxRenames = 1
  Core = {"let", "fn", "defn"}
  LintAs <- NoLintAs
  LintForms <- NoLintAs
  Extract <- Analysis  NsMetaAt <- NsMetaOfTree  AliasNamedAt <- AliasAt
  AliasSitesAt <- AliasSites  LocalReferencesAt <- LocalReferences  CapturedAt <- Captured  AgreeAt <- Agree
PROPERTIES RenamesAreWhole
CHECK_DEADLOCK FALSE

SPECIFICATION MCSpec
CONSTANTS
  d1 = d1  w1 = w1  w2 = w2  a1 = a1  a2 = a2  a3 = a3
  defn_a = defn_a  defn_b = defn_b  plain = plain  lint_as = lint_as
  letter = letter  wide = wide  newline = newline  colon = colon
  None = None
  Docs = {d1}
  Texts = {defn_a, defn_b}
  Configs = {plain, lint_as}
  Addrs = {a1, a2, a3}
  Workers = {w1, w2}
  MaxRev = 3
  Chars = {letter, wide, newline, colon}
  Units <- MCUnits
  Bytes <- MCBytes
  Newline = newline
  Colon = colon
  Ident = {letter, wide}
  MaxLen = 3
  MaxInsert = 2
  Files <- MCFiles
  LibFiles = {"l.clj"}
  EdnFiles = {"c.edn"}
  Dialect <- MCDialect
  Workspaces <- MCWorkspaces
  NewNames = {"x", "z"}
  MaxRenames = 1
  Core = {"let", "fn", "defn"}
  LintAs <- NoLintAs
  LintForms <- NoLintAs
  Sources <- MCSources
  SourceDialect = "clj"
  Namespaces <- MCNamespaces
  LastSegment <- MCLastSegment
  Curated <- MCCurated
  ProjectNss = {"a", "b", "x.h", "y.h", "y.e"}
  KeywordCounts <- MCKeywordCounts
  PrivateVars <- MCPrivateVars
  MaxAccepts = 1
  Interop = {"J"}
  EditCore = {"let", "fn", "defn"}
  ReadFile <- Analysis
  Extract <- Analysis  NsMetaAt <- NsMetaOfTree  AliasNamedAt <- AliasAt
  AliasSitesAt <- AliasSites  LocalReferencesAt <- LocalReferences  CapturedAt <- Captured  AgreeAt <- Agree
SYMMETRY WorkerSymmetry
INVARIANTS TypeOK TreeMatchesText AnswerIsOfThisSnapshot PositionsAgree PrepareIsRename ReferencesAreUses
PROPERTIES TreeEditIsExact RenameKeepsMeaning CleanKeepsMeaning FixesClear
CHECK_DEADLOCK FALSE

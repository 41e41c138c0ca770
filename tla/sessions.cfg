SPECIFICATION MCSpec
CONSTANTS
  d1 = d1  p1 = p1  p2 = p2  r1 = r1
  native_only = native_only  kondo_a = kondo_a  crash = crash  None = None
  Docs = {d1}
  Passes = {p1, p2}
  Reloads = {r1}
  Engines = {native_only, kondo_a}
  KondoEngines = {}
  LargeDocs = {d1}
  Reasons = {crash}
  Limit = 1
  FirstVersion = 1
  MaxRev = 2
  MaxEpoch = 1
  MaxReloads = 0
  Batches <- MCBatches
  Path <- MCPath
  Clojure = {"nested", "plain", "odd"}
  NsSegment <- MCNsSegment
  Literals <- MCLiterals
  ProjectLists <- MCProjectLists
  NoSegment = "none"
  Servers = {"old", "new"}
  FormatVersion <- MCFormatVersion
  NamespaceOf <- MCNamespaceOf
  Jars <- MCJars
  FileRank <- MCFileRank
  MaxSeconds = 1
  MaxRewrites = 1
INVARIANTS OneLivePass QuietIsUpToDate NewFilesGetTheirNs
PROPERTIES ImplementsDiagnostics HitIsMiss
CHECK_DEADLOCK FALSE

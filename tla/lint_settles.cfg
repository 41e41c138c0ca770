SPECIFICATION MCFairSpec
CONSTANTS
  d1 = d1  p1 = p1  p2 = p2  r1 = r1
  native_only = native_only  kondo_a = kondo_a  crash = crash  None = None
  Docs = {d1}
  Passes = {p1, p2}
  Reloads = {r1}
  Engines = {native_only, kondo_a}
  KondoEngines = {kondo_a}
  LargeDocs = {d1}
  Reasons = {crash}
  Limit = 1
  FirstVersion = 1
  MaxRev = 1
  MaxEpoch = 0
  MaxReloads = 1
  Ids = {"i", "j"}
  Concurrency = 2
  MaxCalls = 5
INVARIANTS TypeOK PermitsConserved PanicsStayAlone
PROPERTIES Settles
CHECK_DEADLOCK FALSE

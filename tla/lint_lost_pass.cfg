SPECIFICATION Spec
CONSTANTS
  d1 = d1  d2 = d2  p1 = p1  p2 = p2  r1 = r1  r2 = r2
  native_only = native_only  kondo_a = kondo_a  crash = crash  None = None
  Docs = {d1}
  Passes = {p1, p2}
  Reloads = {r1}
  Engines = {native_only, kondo_a}
  KondoEngines = {kondo_a}
  LargeDocs = {d1}
  Reasons = {crash}
  Limit = 1
  FirstVersion = 1
  MaxRev = 1
  MaxEpoch = 0
  MaxReloads = 0
INVARIANTS OpenDocHasDiagnostics
CHECK_DEADLOCK FALSE

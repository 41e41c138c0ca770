SPECIFICATION MCSpec
CONSTANTS
  sub = sub  cp1 = cp1  cp2 = cp2
  native_only = native_only  kondo_a = kondo_a
  r1 = r1  r2 = r2  startup = startup  a1 = a1  None = None
  Projects = {sub}
  KondoDirs = {sub}
  Classpaths = {cp1, cp2}
  Engines = {native_only, kondo_a}
  KondoEngines = {kondo_a}
  Reloads = {r1, r2}
  Applies = {startup, a1}
  Startup = startup
  MaxChanges = 2
  Pipe = 1
  MaxInput = 3
  PerByte = 2
INVARIANTS TypeOK NewestSettingsWin QuietIsWarmed NoOrphans OutputIsWhole PipesNeverStall
PROPERTIES NoRepeatedScan EngineSettles
CHECK_DEADLOCK FALSE

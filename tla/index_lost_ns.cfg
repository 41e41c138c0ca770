CONSTANTS
  clj1 = clj1
  cljs1 = cljs1
  clj2 = clj2
  libclj = libclj
  libcljs = libcljs
  ns1 = ns1
  ns2 = ns2
  a = a
  b = b
  None = None
  EdnNs = EdnNs
  Files <- MCFiles
  LibFiles <- MCLibFiles
  EdnFiles = {edn}
  Dialect <- MCDialect
  Nss = {ns1, ns2}
  Names = {a, b}
  Contents <- RebuildContents
  MaxUses = 1
SPECIFICATION Spec
INVARIANTS
  ProjectOutranksLibraries

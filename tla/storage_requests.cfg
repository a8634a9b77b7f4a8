SPECIFICATION Spec
CONSTANTS
  Requests = {r1, r2, r3, r4}
  Tenants = {a, b}
  Buckets = {bk}
  Names = {n1, n2}
  NoDoc = NoDoc
  MaxFaults = 2
  MaxCrashes = 1
SYMMETRY Symmetry
CHECK_DEADLOCK FALSE
INVARIANTS
  TypeOK
  UploadedIsDurable
  DeletedIsGone
  
  
  NamesHaveFiles
PROPERTIES
  TenantsIsolated
  ImplementsFileStore

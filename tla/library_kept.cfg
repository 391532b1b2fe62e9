SPECIFICATION Spec
CONSTANTS
  Assets = {a1, a2}
  ImmichJobs = {j1, j2}
  GenJobs = {g}
  Retained = {g}
  Capped = {j1}
  Cap = 1
  Devices = {d}
  ListLimit = 2
  SkipExisting = TRUE
  MaxRows = 2
  UploadIds = {2}
  MaxFaults = 1
INVARIANTS TypeOK RowsMatchObjects CapHolds
PROPERTIES CleanupSparesShown ExpiredGoes

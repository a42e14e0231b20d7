CONSTANTS
  Jobs <- MCJobs
  Loaders = {l1, l2}
  MaxMergedRows = 3
  Copies = {first, again}
  MaxLoads = 1
SPECIFICATION Spec
INVARIANTS
  AnnouncedRowsAreThere
  WholeLoads
CHECK_DEADLOCK FALSE

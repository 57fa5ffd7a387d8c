SPECIFICATION Spec
CONSTANTS
  BufferSize = 9
  MaxHeaders = 2
  Length = 1
  Arrivals <- Reads
INVARIANTS TypeOK WholeHeadIsOwn ContentIsBody OneLineRunsOn

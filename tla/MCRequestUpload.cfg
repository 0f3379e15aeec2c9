SPECIFICATION UploadSpec
CONSTANTS
  Window = 3
  ChunkSize = 2
  Body = 4
INVARIANTS WindowAgreed EofMeansWhole AcksInTime
PROPERTIES UploadEnds
CHECK_DEADLOCK FALSE

\* A file of up to three chunks and a half.
\* The system stops when the file is written, or cannot be.
SPECIFICATION FairSpec
CONSTANTS
  TCP_BUFFER_SIZE = 2
  MaxSize = 7
  QueueCap = 2
  MayShrink = TRUE
INVARIANTS
  TypeOK
  BytesAreInPlace
  CountsAgree
  SizeIsKept
PROPERTIES
  FileArrives
CHECK_DEADLOCK FALSE

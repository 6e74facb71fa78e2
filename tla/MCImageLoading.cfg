SPECIFICATION Spec
CONSTANTS
  HEADER_CHUNK_SIZE = 4
  READ_BUFF_SIZE = 16
  HeaderNeeds = {6, 14, 30}
  Height = 3
  Bitmaps <- MCBitmaps
  WebpFiles <- MCWebpFiles
INVARIANTS LoadedExact RowsOnce
CHECK_DEADLOCK FALSE

INIT PartsInit
NEXT PartsNext
CONSTANTS
  Parts = {"functions"}
  Data <- MCData
  Sizes = {0, 1, 2, 7}
  Outside = 256
  SizeLimit = 8
  ByteBits = 2
  MaxBits = 4
  Widths = {1, 3}
  Words <- MCWords
  BufSize = 3
  MaxContents = 4
  Pids = {1, 2}
  Callers = {1, 2}
  MaxBirths = 3
  Fds = {0, 1, 2}
  Objects = {a, b}
  Events = {1}
  MaxFiles = 3
  Users = {1, 2}
  BufferSize = 3
  Requests = {0, 1, 2, 4, 7}
  MaxBytes = 9
  Levels <- MCLevels
  MaxLoggers = 3
  Lines <- MCLines
  Names <- MCNames
  LongLimit = 64
  IntLimit = 16
  FileData <- MCFileData
  LineBytes = 2
  IntBits = 16
  Precision = 4
  BlockBytes = 4
  LengthBytes = 1
  Unit = 4
  SecondDigits = 2
  MinuteDigits = 1
  WordBits = 8
  ReadSize = 2
  LineBlock = 4
  Nan <- MCNan
CHECK_DEADLOCK FALSE
INVARIANT WritesStandardJSON

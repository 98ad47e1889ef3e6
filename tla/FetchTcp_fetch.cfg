CONSTANTS
  WORD = 16
  CHUNK = 2
  TRIES = 2
  RETRY = 1
  BUFFER = 2
  TIMEOUT = 4
  StartTicks = {14}
  SERVER_ISS = 13
  MSS = 2
  REQUEST_LEN = 3
  RESPONSE_LEN = 3
SPECIFICATION FairFetchSpec
INVARIANTS
  AckedIsHeld
PROPERTY
  ByteStreamSpec
  FetchEnds

SPECIFICATION LockFairSpec
CONSTANTS
  download = download
  upload = upload
  watcher = watcher
  book = book
  comic = comic
  Callers <- MCCallers
  Filenames <- MCFilenames
INVARIANTS
  LockTypeOK
  LateRemovalIsHarmless
  ReservationsAccounted
PROPERTIES
  NeverStranded
  ImplementsKeyedMutex

CONSTANTS
  Queries = {q1}
  Viewers = {}
  Setters = {s1, s2}
  Closers = {}
  Others = {}
  NoDB = NoDB
  NoProc = NoProc
  MaxSecret = 0
  SpuriousTryLock = FALSE
SPECIFICATION Spec
INVARIANT LatestWins

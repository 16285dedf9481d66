CONSTANTS
  Queries = {q1}
  Viewers = {}
  Setters = {s1}
  Closers = {c1}
  Others = {}
  NoDB = NoDB
  NoProc = NoProc
  MaxSecret = 0
  SpuriousTryLock = FALSE
SPECIFICATION FairSpec
PROPERTY CloseClosesAll

\* Calls return: a query, a SetSource call, a request for another source, a
\* viewer, a rotating secret and Close, each of which may or may not happen; a
\* query may never end.
CONSTANTS
  Queries = {q1}
  Viewers = {v1}
  Setters = {s1}
  Closers = {c1}
  Others = {o1}
  NoDB = NoDB
  NoProc = NoProc
  MaxSecret = 1
  SpuriousTryLock = FALSE
SPECIFICATION HungSpec
PROPERTIES
  Termination
  NotHeldUp

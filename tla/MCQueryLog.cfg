\* Two LogQuery calls over two texts and two readers of the log, whose rows
\* may stay open; the process ends once and is started again.
CONSTANTS
  Loggers = {l1, l2}
  Readers = {r1, r2}
  Texts = {t1, t2}
  Ids = {i1, i2}
  NoId = NoId
  NoProc = NoProc
  MaxCrashes = 1
SPECIFICATION FairSpec
INVARIANTS
  TypeOK
  TextsLogged
  LoggedOnce
  NoConflict
PROPERTIES NotHeldUp ImplementsBook

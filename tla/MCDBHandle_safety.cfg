\* A source whose secret rotates, SetSource calls and queries, on a server
\* that is closed.
CONSTANTS
  Queries = {q1, q2}
  Viewers = {v1}
  Setters = {s1, s2}
  Closers = {c1}
  Others = {}
  NoDB = NoDB
  NoProc = NoProc
  MaxSecret = 1
  SpuriousTryLock = TRUE
SYMMETRY Symmetry
SPECIFICATION Spec
INVARIANTS
  TypeOK
  InFlightOpen
  NamedMatchesDB
  NoLeak
  NeverStuck
  HolderGoesOn
PROPERTY ImplementsSource

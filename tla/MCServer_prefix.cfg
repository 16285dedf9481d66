\* A browser, whatever it asks first, on a server with a route prefix.
CONSTANTS
  s1 = s1
  s2 = s2
  log = log
  Clients = {c1}
  Sources = {s1, s2, log}
  NoSource = NoSource
  Opened <- MCOpened
  LocalSource = log
  Rights <- MCAll
  RoutePrefix = TRUE
  RowLimit = 2
  UILimit = 1
  MaxRows = 3
SPECIFICATION Spec
INVARIANT StaysRouted

\* One request of any kind, from a browser or an API client, while sources
\* are added and the server is closed.
CONSTANTS
  s1 = s1
  s2 = s2
  log = log
  Clients = {c1}
  Sources = {s1, s2, log}
  NoSource = NoSource
  Opened <- MCOpened
  LocalSource = log
  Rights <- MCRights
  RoutePrefix = FALSE
  RowLimit = 2
  UILimit = 1
  MaxRows = 3
SPECIFICATION FairSpec
INVARIANTS
  TypeOK
  AuthorizedRuns
  SiteAccess
  DefaultIsFirst
  RowsExact
  LogIsExact
  Counted
PROPERTIES Answered RedirectsOnce

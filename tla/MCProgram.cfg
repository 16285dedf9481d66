\* The program from its arguments to its exit, with two requests, whatever
\* fails and whenever the signal comes.
CONSTANTS
  Names <- MCNames
  NoName <- MCNoName
  Configs <- MCConfigs
  Requests = {r1, r2}
  Asks <- MCAsks
CHECK_DEADLOCK FALSE
SPECIFICATION FairSpec
INVARIANTS
  TypeOK
  AllOrNothing
  TailnetAuth
  GrantedOnly
  HTTPSOnly
  NeverClosedUnder
PROPERTY StopsOnSignal

\* Any result of up to three values, in each form, over a connection that may
\* break.
CONSTANTS
  Layouts <- MCLayouts
  Values = {"null", "empty", "word", "sql", "json", "url", "badurl", "stripe",
            "time", "blob", "nan"}
  Rules <- MCRules
  MaxCells = 3
CHECK_DEADLOCK FALSE
SPECIFICATION Spec
INVARIANTS
  TypeOK
  NoSilentLoss
  CSVComplete
  RedactedStays
  RulesPass

\* A result with a row that is one empty value.
CONSTANTS
  Layouts <- MCColumn
  Values = {"null", "empty", "word", "sql", "json", "url", "badurl", "stripe",
            "time", "blob", "nan"}
  Rules <- MCRules
  MaxCells = 3
CHECK_DEADLOCK FALSE
SPECIFICATION Spec
INVARIANT RowsArrive

\* Two tabs, three queries on two sources and a history of two.
CONSTANTS
  Tabs = {t1, t2}
  Queries = {q1, q2, q3}
  Sources = {s1, s2}
  MaxEntries = 2
  MaxLoads = 4
  MaxSaves = 3
SYMMETRY Symmetry
SPECIFICATION Spec
INVARIANTS
  TypeOK
  HistoryIsRecent
  SavesKept

CONSTANTS
  Tabs = {t1, t2}
  Queries = {q1}
  Sources = {s1}
  MaxEntries = 1
  MaxLoads = 0
  MaxSaves = 2
SPECIFICATION Spec
INVARIANT DeletesShown

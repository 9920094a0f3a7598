\* rename fails after the real file was removed.
SPECIFICATION Spec
CONSTANTS
  Values = {v1, v2, v3}
  Nothing = Nothing
  Torn = Torn
  Short = Short
  Absent = Absent
  Faults <- OnlyRename
INVARIANTS SkipIsSafe

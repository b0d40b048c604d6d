CONSTANTS
  Entry <- MCEntry
  Kind <- MCKind
  Leftover = {"openclaw.json.bak", "a.sqlite-wal", "old.bak"}
  AgentAllowed = {"b.sqlite", "models.json"}
  Sqlite = {"a.sqlite", "b.sqlite", "l.sqlite"}
  MaxBytes = 3
  MaxSize = 2
  MaxWrites = 0
  Absent = Absent
  Still <- MCStill
SPECIFICATION Spec
INVARIANTS TreeGoesWithRequest
CHECK_DEADLOCK FALSE

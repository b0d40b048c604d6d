CONSTANTS
  Entry <- MCEntry
  Kind <- MCKind
  Leftover = {"openclaw.json.bak", "a.sqlite-wal", "old.bak"}
  AgentAllowed = {"b.sqlite", "models.json"}
  Sqlite = {"a.sqlite", "b.sqlite", "l.sqlite"}
  MaxBytes = 3
  MaxSize = 2
  MaxWrites = 2
  Absent = Absent
  Still <- MCStill
SPECIFICATION Spec
INVARIANTS BackupIsComplete RestoredStateIsCurrent OversizeIsNeverSent NoTreeLeftBehind
CHECK_DEADLOCK FALSE

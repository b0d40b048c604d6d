CONSTANTS
  Given = Given
  Absent = Absent
  None = None
  Call = {c1, c2}
SPECIFICATION Spec
INVARIANTS LostKeysAreExplained DeletionsAreReal
PROPERTIES QuietMintNeedsAbsence QuietApplyMatchesVariable
CHECK_DEADLOCK FALSE

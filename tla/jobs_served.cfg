SPECIFICATION Spec
CONSTANTS
  Immich = {a}
  Gemini = {}
  Calibre = {c}
  Edited = {a}
  MaxRows = 1
INVARIANTS TypeOK DueIsAskedFor
PROPERTIES ClickOutlivesEarlierRun ServedByPoll ServedByWake OldRowsClose

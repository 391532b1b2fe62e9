SPECIFICATION Spec
CONSTANTS
  MaxCrashes = 1
  From = {0, 1, 3, 5, 7, 14, 15, 19, 21, 22, 24, 26, 27, 30}
INVARIANTS ServedSchemaIsTheModels StopsAreForeseen RowsAreCarriedOver OperatorTextStays
PROPERTIES StartsEventually

SPECIFICATION MetaSpec
CONSTANTS
  P = 3
  EditionLimit = 7
  Torn = FALSE
  Body <- RootBody
  Body0 <- FormatBody
  MaxVersion = 2
  TornTables = {}
CHECK_DEADLOCK FALSE
INVARIANTS RootDurable ProgramsErasedPage MetaConsistent RamConsistent TablesProgramErased
PROPERTIES NoRollback ImplementsCell

SPECIFICATION Spec
CONSTANTS
  dlq = dlq
  a = a
  b = b
  None = None
  Letter = {a, b}
  Migrator = {dlq}
  Lane <- OneLane
  MaxFaults = 2
CHECK_DEADLOCK FALSE
INVARIANTS
  TypeOK
  LettersKept
  CopiesArePaid
  OneConnection
PROPERTY
  LettersMoved

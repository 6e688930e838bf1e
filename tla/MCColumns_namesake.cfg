SPECIFICATION Spec
CONSTANTS
  c1 = c1
  c2 = c2
  c3 = c3
  a = a
  b = b
  B = B
  Column = {c1, c2, c3}
  Name = {a, b, B}
  Unmade = unmade
  Dropped = dropped
  Undefined = undefined
  Null = null
  Aborted = aborted
  NeedsQuotes = {B}
  Namesakes = {{c1}}
  Tables <- MCTables
  Patches <- MCPatches
  Bodies <- MCBodies
  MaxOthers = 1
PROPERTY CheckOwned
CHECK_DEADLOCK FALSE

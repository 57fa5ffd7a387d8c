SPECIFICATION Spec
CONSTANTS
  db_path = db_path
  pid_file = pid_file
  port = port
  Strings = {db_path, pid_file}
  Integers = {port}
  MaxInits = 3
SYMMETRY Interchangeable
INVARIANTS TypeOK OwnedStrings OnlyOverriddenLost Precedence
CHECK_DEADLOCK FALSE

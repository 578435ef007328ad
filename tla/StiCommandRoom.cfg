\* Calls with and without room for a result.
CONSTANTS
  MAX_RESULT_LEN = 2
  Commands = {c1, c2}
  NoCommand = NoCommand
SPECIFICATION Spec
INVARIANTS
  ResultFits

\* One command channel, results one byte longer than the driver can hold.
CONSTANTS
  MAX_RESULT_LEN = 2
  Commands = {c1, c2, c3}
  NoCommand = NoCommand
SYMMETRY CommandSymmetry
SPECIFICATION Spec
INVARIANTS
  TypeOK
  AnswerOfOwnCommand
  MailboxIntact
  ReadyNotLost

SPECIFICATION FairSpec
CONSTANTS
  a = a
  b = b
  e = e
  Absent = Absent
  Dir = Dir
  DirSize = 2
  Nul = Nul
  Nothing = Nothing
  Contents <- Targets
  Pages <- ErrPages
  BuiltIn <- Message
  Half = 4
  MaxEdits = 3
INVARIANTS
  LengthsAgree
  AnswersWhatWasThere
PROPERTY
  Answered
CHECK_DEADLOCK FALSE

SPECIFICATION Spec
CONSTANTS
  Devices = {d1, d2}
  Credential <- MCCredential
  Texts <- MCTexts
  Requests <- MCRequests
  Ids <- MCIds
  MaxTasks = 4
  MaxCrashes = 1
  MaxCounter = 2
  MinDigits = 6
  MaxDigits = 8
  MaxUriDigits = 10
  DefaultDigits = 6
  DefaultPeriod = 30
SYMMETRY MCSymmetry
INVARIANTS
  TypeOK
  ToldIsSaved
  SignInAccepted
PROPERTIES
  CodesShownOnce
CHECK_DEADLOCK FALSE

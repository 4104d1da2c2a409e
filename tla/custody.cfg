SPECIFICATION FairSpec
CONSTANTS
  d1 = d1
  d2 = d2
  Devices = {d1, d2}
  Names = {"n1"}
  First <- MCFirst
  Spare <- MCSpare
  Canon <- MCCanon
  Valid <- MCValid
  AgeRecipients <- MCAgeRecipients
  Owner = d1
  Lists <- MCLists
  Random <- MCRandom
  Typed <- MCTyped
  CodeValues = 4
  CodeChars = 3
  MaxWork = 20
  DefaultWork = 18
  MaxTexts = 1
  MaxRemovals = 1
  MaxLosses = 1
INVARIANTS
  TypeOK
PROPERTIES
  RestoreBringsBack
  ListDecides
  EveryoneReads

SPECIFICATION FairSpec
CONSTANTS
  Hashed <- MCHashed
  Urls <- MCUrls
  Types <- MCTypes
  Methods <- MCMethods
  Passwords <- MCPasswords
  MaxUpsets = 1
INVARIANTS TypeOK OfferedToAgreedHost
PROPERTIES CauseIsReported Connects

SPECIFICATION Spec
CONSTANTS
  Credential <- MCCredential
  Canon <- MCCanon
  Valid <- MCValid
  Hashed <- MCHashed
  InitialTexts <- MCInitialTexts
  FieldKeys <- MCFieldKeys
  FieldValues <- MCFieldValues
  Passwords <- MCPasswords
  Uris <- MCUris
  PasskeyValues <- MCPasskeyValues
  RecipientKeys <- MCRecipientKeys
  ImportedTexts <- MCImportedTexts
  Hosts <- MCHosts
  HostKeys <- MCHostKeys
  MaxEdits = 2
  MaxCounter = 7
  MinDigits = 6
  MaxDigits = 8
  MaxUriDigits = 10
  DefaultDigits = 6
  DefaultPeriod = 30
  VarintBytes = 10
  CodeValues = 32
  CodeChars = 4
  Classes <- MCClasses
  MinLength = 4
  MaxLength = 5
  MaxDraw = 255
  Now = 2
PROPERTY LineEndsKept

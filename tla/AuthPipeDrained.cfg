SPECIFICATION FairAuthSpec
CONSTANTS
  MaxMessages = 2
PROPERTIES GetPwdDataReturns

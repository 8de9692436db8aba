SPECIFICATION Spec
CONSTANTS
  NumDigits = 2
  NumLetters = 1
  MinLen = 2
  WordBits = 8
  Urls <- MCUrls
  BadUrl = "bad"
  UrlKey <- MCUrlKey
  ReqHashes <- MCHashes
  ExpDays = 2
  CacheTTL = 1
  VTCacheTTL = 1
  ScanOutcomes <- MCClean
  LongUrls = {}
  Faults = {}
  SeedRows <- MCSeedExpiring
  MaxId = 3
  MaxTime = 0
  Shorteners = {s1}
  RawUrls <- MCRawUrls
  Normalize <- MCNormalize
  Redirectors = {}
  Reporters = {}
  IPs <- MCOneIP
  AnonymizeIP <- MCAnonymizeIP
  Threshold = 2
  RescanLimit = 2
INVARIANT EncodedHashIsFree

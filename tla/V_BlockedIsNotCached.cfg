SPECIFICATION Spec
CONSTANTS
  NumDigits = 4
  NumLetters = 1
  MinLen = 2
  WordBits = 8
  Urls <- MCUrls
  BadUrl = "bad"
  UrlKey <- MCUrlKey
  ReqHashes <- MCHashes
  ExpDays = 2
  CacheTTL = 1
  VTCacheTTL = 1
  ScanOutcomes <- MCAnyOutcome
  LongUrls = {}
  Faults = {}
  SeedRows <- MCSeedUnverified
  MaxId = 2
  MaxTime = 0
  Shorteners = {}
  RawUrls <- MCRawUrls
  Normalize <- MCNormalize
  Redirectors = {r1}
  Reporters = {}
  IPs <- MCOneIP
  AnonymizeIP <- MCAnonymizeIP
  Threshold = 2
  RescanLimit = 2
INVARIANT BlockedIsNotCached

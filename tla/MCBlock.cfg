SPECIFICATION Spec
CONSTANTS
  NumDigits = 4
  NumLetters = 1
  MinLen = 2
  WordBits = 8
  Urls <- MCUrls
  BadUrl = "bad"
  UrlKey <- MCUrlKey
  ReqHashes <- MCHash1or0
  ExpDays = 2
  CacheTTL = 1
  VTCacheTTL = 1
  ScanOutcomes <- MCAnyOutcome
  LongUrls = {}
  Faults = {"redis", "mysql"}
  SeedRows <- MCSeedUnverified
  MaxId = 2
  MaxTime = 0
  Shorteners = {}
  RawUrls <- MCRawUrls
  Normalize <- MCNormalize
  Redirectors = {r1, r2}
  Reporters = {p1, p2}
  IPs <- MCOneIP
  AnonymizeIP <- MCAnonymizeIP
  Threshold = 1
  RescanLimit = 2
INVARIANT ReportInv
PROPERTY SealedForever

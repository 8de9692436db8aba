SPECIFICATION Spec
CONSTANTS
  NumDigits = 2
  NumLetters = 1
  MinLen = 2
  WordBits = 8
  Urls <- MCCaseUrls
  BadUrl = "bad"
  UrlKey <- MCUrlKey
  ReqHashes <- MCHashes23
  ExpDays = 1
  CacheTTL = 1
  VTCacheTTL = 1
  ScanOutcomes <- MCOneOutcome
  LongUrls = {}
  Faults = {"mysql", "redis", "corrupt", "crash"}
  SeedRows <- MCSeedOneExpiring
  MaxId = 3
  MaxTime = 1
  Shorteners = {s1, s2}
  RawUrls <- MCRawUrls
  Normalize <- MCNormalize
  Redirectors = {r1}
  Reporters = {}
  IPs <- MCOneIP
  AnonymizeIP <- MCAnonymizeIP
  Threshold = 2
  RescanLimit = 0
INVARIANT TypeOK
INVARIANT AnsweredHashIsStored
INVARIANT CacheAgreesWithTable
INVARIANT RedirectsGoHome
INVARIANT ServiceInv
PROPERTY KeepsBook
SYMMETRY RequestSymmetry

SPECIFICATION FairSpec
CONSTANTS
  NumDigits = 8
  NumLetters = 1
  MinLen = 2
  WordBits = 8
  Urls <- MCLiveUrls
  BadUrl = "bad"
  UrlKey <- MCUrlKey
  ReqHashes <- MCHash1
  ExpDays = 2
  CacheTTL = 1
  VTCacheTTL = 1
  ScanOutcomes <- MCLiveOutcomes
  LongUrls = {"c", "e"}
  Faults = {}
  SeedRows <- MCSeedLive
  MaxId = 7
  MaxTime = 0
  Shorteners = {s1}
  RawUrls <- MCRawC
  Normalize <- MCNormalize
  Redirectors = {r1}
  Reporters = {p1, p2}
  IPs <- MCIPs
  AnonymizeIP <- MCAnonymizeIP
  Threshold = 2
  RescanLimit = 2
INVARIANT ThresholdBlocks
INVARIANT OneReportPerNetwork
PROPERTY ReportsLeadToBlock
PROPERTY UnverifiedGetsVerdict
PROPERTY RequestsAnswered

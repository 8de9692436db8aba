SPECIFICATION Spec
CONSTANTS
  NumDigits = 2
  NumLetters = 1
  MinLen = 3
  WordBits = 8
  Lower <- MCLower
  ToASCII <- MCToASCII
  StripWWW <- MCStripWWW
  Decimals <- MCDecimals
  PrivateIPs <- MCPrivateIPs
  Blocked = {"bit.ly"}
  BaseHost = "snip.io"
  RawUrls <- MCRawUrls
INVARIANT RoundTrip
INVARIANT OneHashPerId
INVARIANT StoredLeadsHome
INVARIANT OneSpellingPerTarget
INVARIANT RefusedAlike

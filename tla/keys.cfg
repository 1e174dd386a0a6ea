SPECIFICATION FairSpec
CONSTANTS
  k1 = k1  k2 = k2  other = other
  good = good  ageless = ageless
  foreign = foreign  elsewhere = elsewhere  misdirected = misdirected
  mislabelled = mislabelled
  Token = {good, ageless, foreign, elsewhere, misdirected, mislabelled}
  Claims <- MCClaims
  Junk = {"junk"}
  Bearer = {"Bearer"}
  Kid = {k1, k2, other}
  Key = {k1, k2}
  Issuer = "auth0"
  Audience = "service"
  MaxNow = 1
INVARIANTS TypeOK FreshAsOfBasis OnlyIssued KnownIsAccepted OnlyExpiryDiffers
PROPERTIES RetiredIsDropped NewIsLearned
CHECK_DEADLOCK FALSE

SPECIFICATION FairSpec
CONSTANTS
  r1 = r1  r2 = r2  r3 = r3
  p1 = p1  p2 = p2
  absent = absent
  Request = {r1, r2, r3}
  Replica = {p1, p2}
  User = {"u"}
  NoUser = "nobody"
  Unsent = unsent
  Absent = absent
  Empty = ""
  Name <- MCSmallName
  Trim <- MCSmallTrim
  Lower <- MCSmallLower
  Domains <- MCSmallDomains
  Malformed <- MCNone
  ReservedLocalParts <- MCNone
  ExtraReserved <- MCNone
  Addresses <- MCAddresses
  Profile <- MCHasOrNot
  Payload <- MCOneSet
  InitialStore <- MCEmptyStore
  Removable <- MCNone
PROPERTIES Answered KeepsPromise

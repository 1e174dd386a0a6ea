SPECIFICATION HSpec
CONSTANTS
  r1 = r1  r2 = r2  r3 = r3
  p1 = p1  p2 = p2
  absent = absent
  Request = {r1, r2}
  Replica = {p1, p2}
  User = {"ann"}
  NoUser = "nobody"
  Unsent = unsent
  Absent = absent
  Empty = ""
  Name <- MCName
  Trim <- MCTrim
  Lower <- MCLower
  Domains <- MCDomains
  Malformed <- MCMalformed
  ReservedLocalParts <- MCReserved
  ExtraReserved <- MCExtraReserved
  Addresses <- MCAddresses
  Profile <- MCHasOrNot
  Payload <- MCMixedMessages
  InitialStore <- MCTwoStores
  Removable <- MCJohnRemovable
SYMMETRY Symmetry
PROPERTY Indivisible

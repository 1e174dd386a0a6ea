SPECIFICATION SSpec
CONSTANTS
  Char = {"k", "KK", "KI", "s", ".", ",", "@", " ", "nbsp", "tab"}
  Lower <- MCLower
  Fold <- MCFold
  Width <- MCWidth
  Blank = {" ", "nbsp", "tab"}
  Comma = ","
  Dot = "."
  At = "@"
  Banned = {",", "@", " "}
  Atext = {"k", "KK", "KI", "s", "nbsp"}
  Reserved <- MCReserved
  MaxBytes = 3
  ManagedDomain <- MCDomain
  MaxLength = 5
  ListLength = 1
INVARIANTS EveryEntryIsServed OneVerdictPerAlias ListedNamesAreRefused HostDecides UsableOrExplained UnusableIsUnset
CHECK_DEADLOCK FALSE

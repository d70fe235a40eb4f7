SPECIFICATION Spec
CONSTANTS
  Objects = {a}
  Literals <- SomeLiterals
  OtherTexts <- OneName
  Addresses <- OneAddress
  Ports = {23}
  Junk <- OldAddress
  NULL = NULL
INVARIANTS TextGivesItsAddress CachedTextIsCurrent LookupReachesTheStack

\* One reader, one generation, and the version expires before the entry.
CONSTANTS
  Reader = {r1}
  Generation = {g1}
  Miss = Miss
  MaxTags = 1
  MaxVersion = 1
SPECIFICATION RecoSpec
INVARIANTS
  FreshAfterInvalidation
CHECK_DEADLOCK FALSE

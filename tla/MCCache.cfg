\* Three sets of three ways, three-byte blocks: no power of two.  Two sets and
\* two bytes of each block are in use, and eight blocks overflow the sets.
SPECIFICATION Spec
CONSTANTS
  cacheSize = 27
  blockSize = 3
  ways = 3
  Addresses <- MCAddresses
  MaxAccesses = 7
INVARIANTS TypeOK RanksDistinct InvalidWaysUntouched NoDuplicateTags
PROPERTIES NewestSurvives ImplementsRecency
CHECK_DEADLOCK FALSE

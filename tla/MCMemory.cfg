\* Nine two-bit bytes, six images, three programs, two calls.
SPECIFICATION Spec
CONSTANTS
  ByteBits = 2
  startAddr = 0
  numEntries = 9
  AddrMod = 16
  Images <- MCImages
  Files <- MCFiles
  Addresses <- MCAddresses
  StoreValues <- MCStoreValues
  DumpRanges <- MCDumpRanges
  PerRow = 2
  MaxCalls = 2
INVARIANTS TypeOK LoadedAsGiven
PROPERTIES ImplementsFlat DumpShowsRange

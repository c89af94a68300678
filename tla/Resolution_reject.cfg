SPECIFICATION MCSpec
CONSTANTS
  Member <- MCMember
  Key <- MCKey
  Chunk <- MCChunk
  FactValue <- MCFactValue
  InitFacts <- MCInitFacts
  CanonicalOf <- MCCanonicalOf
  NamespaceOf <- MCNamespaceOf
  ParentOf <- MCParentOf
  Catalogue <- MCCatalogue
  ConfigRows <- MCConfigRows
  Crosswalk <- MCCrosswalk
  MaxRows = 4
  MaxRuns = 2
  MaxEdits = 3
CHECK_DEADLOCK FALSE
INVARIANT RejectSplits

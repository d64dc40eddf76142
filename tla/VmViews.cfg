SPECIFICATION VSpec
CONSTANTS
  Granule = 2
  SpaceStart = 2
  UserLimit = 12
  SpaceLimit = 14
  Win64 = FALSE
  Preloaded <- MCPreloaded
  Preload <- MCPreload
  Requests <- MCRequests
  Places <- MCPlaces
  Pieces <- MCPieces
  Natives <- MCNatives
  LowAreas <- MCLowAreas
INVARIANTS NoAssertFails FreeRangesExact MappingsExact SearchComplete

SPECIFICATION Spec
CONSTANTS
  Requests    <- MCRequests
  Schemas     <- MCSchemas
  MaxMessages = 4
  MaxTools    = 3
  MaxImages   = 2
INVARIANTS
  HistoryAlternates
  ResultsAnswerUses
  NothingLost
  PicturesCounted
  ToolsRoundTrip
  SchemaIsFit
  RouteIsStable

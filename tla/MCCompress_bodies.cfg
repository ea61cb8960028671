\* The default features, encoding picked by the client.
SPECIFICATION FairSpec
CONSTANTS
  Configured = "auto"
  Compiled = {"br", "gzip", "deflate"}
  Accepts <- MCAccepts
  MaxChunks = 3
INVARIANTS
  TypeOK
  HeadFitsBody
  DoneIsWhole
  ExtraPollIsLast
  SleeperIsWoken
PROPERTIES
  BodiesEnd

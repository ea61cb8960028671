\* One call after the other on three trees, with a change of the tree during it.
SPECIFICATION Spec
CONSTANTS
  Places  <- MCPlaces
  Targets <- MCTargets
  Renamed <- MCRenamed
  Trees   <- MCTrees
  Paths   <- MCPaths
  MaxLinks  = 2
  MaxTarget = 3
  Dotted   = {".h"}
  Odd      = {"x:"}
  Roots   <- MCRoots
  Indexes  = {"i"}
  MaxEdits = 2
INVARIANTS
  TypeOK
  AnswerIsExpected
  ListingIsFaithful
  InsideDirectory
  ListedIsServed

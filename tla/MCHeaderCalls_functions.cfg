\* All calls of the MC module.
SPECIFICATION Spec
CONSTANTS
  HeaderNames  = {"content-type", "x"}
  HeaderValues = {"v1", "v2"}
  Headers  <- MCHeaders
  Sizes    <- MCSizes
  Builders <- MCBuilders
  Maps     <- MCMaps
INVARIANTS
  TypeOK
  RangesAreAsked
  AcceptedHasRange
  SatisfiableIsAccepted
  DefaultsFillGaps

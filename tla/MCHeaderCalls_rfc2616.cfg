\* The claim of HttpRange::parse's documentation.
SPECIFICATION Spec
CONSTANTS
  HeaderNames  = {"content-type", "x"}
  HeaderValues = {"v1", "v2"}
  Headers  <- MCHeaders
  Sizes    <- MCSizes
  Builders <- Nothings
  Maps     <- Nothings
INVARIANTS
  UnsatisfiableIsRefused

\* A build with the rust backend of flate2 and without brotli.
SPECIFICATION Spec
CONSTANTS
  Configured = "auto"
  Compiled = {"gzip", "deflate"}
  Accepts <- MCAccepts
  MaxChunks = 3
INVARIANTS
  EncoderExists

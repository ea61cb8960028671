\* default_resource is documented to cover every resource.
SPECIFICATION Spec
CONSTANTS
  p1 = p1
  p2 = p2
  get = get
  post = post
  k1 = k1
  i1 = i1
  i2 = i2
  r1 = r1
  Closure = Closure
  Paths     <- MCPaths
  Methods   <- MCMethods
  Headers   <- MCNoHeaders
  Resources <- MCNarrow
  Services  <- MCCustom
  Keys      <- MCNoKeys
  Instances <- MCOneInstance
  Slots     <- MCSlots
  MaxCalls  = 3
INVARIANTS
  DefaultCoversResources

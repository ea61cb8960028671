\* Two instances of one application started, failed, dropped and used side by side.
SPECIFICATION FairSpec
CONSTANTS
  p1 = p1
  p2 = p2
  get = get
  post = post
  k1 = k1
  i1 = i1
  i2 = i2
  r1 = r1
  Closure = Closure
  Paths     <- MCOnePath
  Methods   <- MCOneMethod
  Headers   <- MCNoHeaders
  Resources <- MCNarrow
  Services  <- MCCustom
  Keys      <- MCOneKey
  Instances <- MCInstances
  Slots     <- MCSlots
  MaxCalls  = 3
INVARIANTS
  StateIsVisible
  NeverPolledAgain
  SleepingStartsAreWoken
PROPERTIES
  EveryStartEnds

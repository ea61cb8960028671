\* One request at a time, all handlers of the MC module.
SPECIFICATION FairSpec
CONSTANTS
  r1 = r1
  Slots      <- MCSlots
  Signatures <- MCSignatures
  Values     <- MCValues
  Limit   = 1
  MaxBody = 2
INVARIANTS
  TypeOK
  BodyGoesToOne
  AnsweredByRightOne
  NoUnwrapOfNone
  SleepersAreWoken
PROPERTIES
  RequestsAreAnswered

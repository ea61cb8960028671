\* A prompt client and one that may stop reading share one worker; one change of the file.
SPECIFICATION FairSpec
CONSTANTS
  s1 = s1
  s2 = s2
  w1 = w1
  Streams <- MCStreams
  Prompt  <- MCPrompt
  Workers <- MCWorkers
  Chunk    = 2
  MaxLen   = 3
  MaxEdits = 1
INVARIANTS
  TypeOK
  BodyIsWindowPrefix
  OneOwner
  NeverUsedAfterCompletion
  SleepersAreWoken
PROPERTIES
  KeepsFileBody
  PromptStreamsEnd
  HandlesAreReleased

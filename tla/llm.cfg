CONSTANTS
  flash = flash
  lite = lite
  meta = meta
  a = a
  b = b
  c = c
  Requests = {a, b, c}
  Asked <- AskedOf
  Thinking <- ThinkingOf
  Streams = {b}
  Deadline <- DeadlineOf
  Providers = {"nvidia", "openrouter", "groq"}
  Models = {flash, lite, meta}
  Configs <- SomeConfigs
  Registered = {"nvidia"}
  DefaultModel <- DefaultModelOf
  FallbackModel = lite
  Rpm <- RpmOf
  NoThinking = {}
  RefusesBudget = {flash}
  RefusedLevels <- RefusedBy
  TripAfter = 2
  Cooldown = 2
  MinAttempt = 1
  CallTimeout = 1
  StreamTimeout = 1
  SdkRetries = 1
  SdkPause = 1
  Window = 2
  MaxWait = 1
  LastStart = 0
  MaxTime = 16
  NoModel = NoModel
  NoProvider = NoProvider
SPECIFICATION FairSpec
INVARIANTS OneVoice EndsInTime WindowRespected
PROPERTIES OpensOnConsecutiveFailures EveryRequestEnds
CHECK_DEADLOCK FALSE

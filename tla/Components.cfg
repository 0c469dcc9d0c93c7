\* Twelve components, each with the bounds MCComponents names.  Behaviours stop
\* at those bounds, or when a stream, a recording or a command is over.
SPECIFICATION Spec
CONSTANTS
  None = None
  Parts <- AllParts
  Bound <- Bounds
  Loops = {l1, l2}
  Currencies = {usd, eur}
  Calls <- OneCall
  PromptPrefix <- Prefix
  Setups <- SomeSetups
  Modes <- BothModes
  Sessions <- SomeSessions
  Assembled <- SomeRequests
  Requests = {r}
  Chunks = {c}
  Callers = {c1, c2}
  Contents <- SomeContents
  Edits <- SomeEdits
  Blank = ""
  Ids = {p, q}
  Texts = {a, b}
  Keys = {"k"}
  Header <- Lower
  Headers <- SomeHeaders
  Bodies <- SomeBodies
  ToolUses = {"native", "prompted"}
  Failures = {"service", "protocol"}
  CR = CR
  LF = LF
  Commands <- SomeCommands
  ExitCodes = {0, 1, None}
INVARIANTS
  InputsAreKept
  InjectedOnce
  TurnUsageIsSum
  LogIsOutput
  NativeAnswersAccepted
  ContentOnce
  AnswersFollowCalls
  SpansNest
  EndedAreKept
  EveryWordExplained
  CountsWhatItHad
  ReplayIsFaithful
  RewritesWhatWasRead
  PatchesUndo
  PartsExplainContent
  HighestLayerWins
  CutsDoNotMatter
  CallsAreWhole
  OutputIsAllOrCut
PROPERTIES
  KeepsSources
CHECK_DEADLOCK FALSE

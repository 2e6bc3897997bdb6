CONSTANTS
  Job = {"j1", "j2"}
  Instance = {1, 2}
  Capacity = 1
  RobinPeriod = 2
  MaxSends <- MCMaxSends
  Appender = {"main", "overlap"}
  Rewriter = {"tokens", "title"}
  MaxAppends = 3
  MaxCrashes = 1
  Turn = {t1, t2}
  Model = {m1, m2}
  BusCapacity = 2
  MaxPicks = 1
  Spawner = {s1, s2}
  Task = {1, 2, 3}
  MaxConcurrent = 1
  Tool = {"edit", "mcp"}
  Builtin = {"edit"}
  Level = {0, 1}
  MaxCalls = 2
  Caller = {c1, c2}
  MaxIds = 3
  MaxStray = 1
  Session = {h1, h2}
  Api = {"chat", "responses", "anthropic"}
  Call = {1, 2}
  MaxEvents = 4
  MaxChunk = 3
  CallId = {1, 2}
  MaxUses = 2
  MaxMessages = 5
  SlashCommand <- MCSlashCommand
  NoArgument <- MCNoArgument
  Explicit <- MCExplicit
  Known <- MCKnown
  File <- MCFile
  MaxLength = 4
  PlanTask = {x1, x2}
  Prompt = {p1, p2}
  OmtCapacity = 2
  MaxRuns = 2
  Fact = {1, 2}
  Texts <- MCTexts
  Recaller = {"turn"}
  Consolidation = {"consolidate"}
  MaxEntries = 3
  MaxDeaths = 1
  Letters = {"wide", "accent", "mark", "newline"}
  Widths = {3, 4}
  Height = 1
  Columns = {2, 3}
  MaxText = 2
SPECIFICATION ComponentsSpec
INVARIANTS
  ComponentsTypeOK
  TeamKeepsSlots
  SessionFileLoads
  TuiComesBack
  BackgroundLimit
  BackgroundStatus
  GateHolds
  McpOwnResponse
  StreamAssembled
  RequestsValid
  LineSubmitted
  DashboardTrue
  MemoryKept
  MemoryRecalled
  TranscriptCopies
PROPERTIES
  VerdictsNotCancelled
  PromptSeenBeforeAnswer
CHECK_DEADLOCK FALSE

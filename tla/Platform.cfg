SPECIFICATION Spec
CONSTANTS
  app = app
  client1 = client1
  client2 = client2
  lamp = lamp
  heater = heater
  noWord = noWord
  Idle = Idle
  NoThread = NoThread
  Absent = Absent
  NoTool = NoTool
  NoWord = noWord
  Threads <- MCThreads
  Clients <- MCClients
  Entities <- MCEntities
  InitialEntity <- MCInitial
  ServiceCalls <- MCServiceCalls
  Tokens <- MCTokens
  WordOf <- MCWordOf
  Texts <- MCTexts
  Queries <- MCQueries
  TopKs = {1}
  MaxCrashes = 1
  Lower <- MCLower
  Within <- MCWithin
  Rules <- MCRules
  ToolRules <- MCToolRules
  Conversations <- MCConversations
  Prompts <- MCPrompts
  default_response <- MCDefault
  MaxCalls = 5
  HACalls = 3
  MemoryCalls = 4
  LLMCalls = 3
INVARIANTS
  LogExplains
  StoredSurvives
  DeletedOnce
  BestFactsFound
  FirstMatchAnswers
  StreamsJoin
PROPERTIES
  RepliesAreWhole
  CallsEnd

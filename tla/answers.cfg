\* The four sides of an answer: evidence, stream, routing, concurrent requests.
SPECIFICATION Spec
CHECK_DEADLOCK FALSE
CONSTANTS
  Sides = {"evidence", "stream", "routing", "requests"}
  Chunk <- MCChunk
  Legs <- MCLegs
  Questions <- MCQuestions
  Drafts <- MCDrafts
  Answers <- MCAnswers
  SessionItems <- MCSessionItems
  LongTermItems <- MCLongTermItems
  Sources = {"wiki", "mail"}
  Tenant = "own"
  Acls = {"public"}
  InputK = 3
  OutputK = 3
  NearDuplicate = 85
  Windows = {6, 14}
  SystemTokens = 1
  ExpectedOutput = 3
  MemoryCap = 2
  MaxEvidence = 5
  Entailment = 60
  Chunks <- MCPieces
  MaxChars = 4
  MaxReceived = 6
  Asks <- MCAsks
  Offers <- MCOffers
  Burdens <- MCBurdens
  Recordings = {10}
  MaxObservations = 1
  UtilityWeights <- MCUtilityWeights
  HedgeAbove = 2
  SourceSpecs <- MCSourceSpecs
  TopK = 4
  MaxSubQueries = 2
  Requests = {1,2,3}
  Session <- MCSession
  Adapters = {1,2}
  QueryTexts <- MCQueryTexts
  AnswerTexts <- MCAnswerTexts
  Coverage <- MCCoverage
  MinCoverage = 62
  MaxCandidates = 3
  MaxConcurrent = 2
  CompositionMode = "WEIGHTED_MERGE"
  Screenings <- MCScreenings
  Shadowings <- MCShadowings
  Endings <- MCEndings
  Faults <- MCFaults
  RedactPii = TRUE
  Sampled = {1}
  MaxClaims <- MCMaxClaims
  Capacity = 3
  Window = 3
  MinSamples = 2
  Staleness = 20
  Critical = 50
INVARIANTS CitationsHold NothingForeignIsShown ContextIsAccounted AnswersAreLicensed DisagreementsAreTold StreamIsExact RoutingHonoursTheQuestion QuestionIsAlwaysAsked MonitorActsExactlyWhenCritical EventsHeardOnce MemoryHoldsWhatPassed

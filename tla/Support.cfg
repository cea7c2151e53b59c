\* The components without shared state, one in each behaviour; two callers that
\* upgrade, a document that ends and a reader that is done do stop.
SPECIFICATION MCSpec
CONSTANTS
  s1 = s1
  s2 = s2
  n1 = n1
  n2 = n2
  t1 = t1
  t2 = t2
  t3 = t3
  v1 = v1
  v2 = v2
  j1 = j1
  j2 = j2
  p1 = p1
  p2 = p2
  Schedules <- MCSchedules
  LogNames <- MCLogNames
  Loggers <- MCLoggers
  MaxEdits = 2
  Callers <- MCCallers
  Values <- MCValues
  Capacity = 3
  Bodies <- MCBodies
  Strings = {"a", "b"}
  Literals = {"null"}
  NullToken = "null"
  MaxTokens = 9
  MaxIndex = 2
  Alphabets <- MCAlphabets
  MaxText = 6
  Timers <- MCTimers
  Processors <- MCProcessors
  MaxLen = 1
  Horizon = 3
  FireTimes = {2, 3}
  Dotted <- MCDotted
  Instants <- MCInstants
  Zones <- MCZones
  RateDates <- MCRateDates
  Codes = {"USD", "EUR"}
  Rates = {1, 2}
  Responses <- MCResponses
  MaxAdds = 2
  Chars <- MCChars
  MaxChars = 2
  MaxWide = 5
  Statuses <- MCStatuses
  Offers <- MCOffers
  MaxFields = 2
  Urls <- MCUrls
  QueryDates <- MCQueryDates
CHECK_DEADLOCK FALSE
INVARIANTS
  MCTypeOK
  OptionsFromOneEdit
  LogAsApplied
  CounterExact
  SlotsHoldWindow
  ResponseAsSent
  FallbackReadsJson
  RoundTrip
  JobsAccounted
  WakesInTime
  NoSleeperJoined
  ReadAsWritten
  LookupsAreRight
  TextSurvives
  HeaderUnderstood
  RequestAsAsked
PROPERTIES
  EditTakesEffect
  PreferredFirst
  WaitersProceed
  KeepsLastValues
  RemovalIsExact
  StorageKeepsDays

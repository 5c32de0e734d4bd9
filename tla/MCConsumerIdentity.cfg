SPECIFICATION RouteSpec
CONSTANTS
  Cases <- MCCases
  HttpURLs <- MCHttpURLs
  NotLoaded = NotLoaded
  Rejected = Rejected
  NoConsumer = NoConsumer
INVARIANTS LoadedRouteIsSound NothingSetIsReplaced ConsumerIsTheTokens ReadsWhatThePathNames

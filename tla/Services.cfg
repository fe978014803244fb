SPECIFICATION MCSpec
CONSTANTS
  tu = tu
  th = th
  UDP = {tu}
  HTTP = {th}
  Order <- MCOrder
  Tier <- MCTier
  Custom = {th}
  FirstN = {0, 6}
  MaxRequests = 8
  MaxJobs = 8
  MaxCalls = 3
  Articles <- MCArticles
  Broken <- MCBroken
  Day <- MCDay
  At <- MCAt
  Episode <- MCEpisode
  Urls <- MCUrls
  Ages <- MCAges
  Patterns <- MCPatterns
  Configs <- MCConfigs
  NewConfig <- MCNewConfig
  SavedFeeds <- MCSavedFeeds
  SavedAccept <- MCSavedAccept
  SavedReject <- MCSavedReject
  FeedIds <- MCFeedIds
  Addr <- MCAddr
  MaxDownloads = 2
  MaxSub = 1
  LastDay = 2
  MaxEvents = 3
  MaxFailures = 1
INVARIANTS NeverForgotten EpisodeOnce MatchIsPursued DefaultDeviceServes
PROPERTIES OneAnswerEach UnloadUndoes
CHECK_DEADLOCK FALSE

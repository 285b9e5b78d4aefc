SPECIFICATION FairSpec
CONSTANTS
  Configs <- MCConfigs
  Segments <- MCSegments
  NoWebhook = NoWebhook
  MaxStarts = 3
INVARIANTS
  PostsReachHandler
  
PROPERTIES
  CheckOnlyMakesDirs
  StartsEnd

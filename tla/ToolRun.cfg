SPECIFICATION FairSpec
CONSTANTS
  Requests = {r1, r2}
  Spellings <- MCSpellings
  Normal <- MCNormal
  Blank = ""
  Configs <- MCConfigs
  Bodies <- MCBodies
  Invalid = Invalid
  Approval = Approval
  Torn = Torn
  MaxFaults = 1
  MaxCrashes = 1
INVARIANTS
  OrphansHaveCause
  AnswerIsTrue
  RunsAreAudited
  FileFollowsOutput
  PolicyHolds
PROPERTIES
  RequestsEnd
  UsesLog

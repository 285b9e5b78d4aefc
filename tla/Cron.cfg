SPECIFICATION FairSpec
CONSTANTS
  daily = daily
  orphan = orphan
  star = star
  bad = bad
  Jobs = {daily, orphan, star, bad}
  Configs = {{daily, star}, {orphan}, {bad}}
  Minute <- MCMinute
  Hour <- MCHour
  Star = Star
  Blank = {star}
  Sessionless = {orphan}
  Hours = 2
  Minutes = 2
  NoJob = NoJob
  MaxTime = 5
  MaxCrashes = 1
INVARIANTS
  OncePerOccurrence
  RunsWhenDue
  NoneLostWhileUp
  RepliesFollowPrompts
  UpMeansLoaded
PROPERTIES
  DueJobsRun
  UsesLog

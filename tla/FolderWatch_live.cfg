SPECIFICATION FairSpec
CONSTANTS
  f1 = f1
  f2 = f2
  q1 = q1
  q2 = q2
  p1 = p1
  p2 = p2
  File = {f1}
  Declined = {}
  Policy = {p1}
  Request = {q1}
  MaxFeeds = 2
  MaxRuns = 2
  MaxTime = 2
  Faults = {"crash", "fail", "panic"}
  
PROPERTIES  DownFilesFound
ACTION_CONSTRAINT RemovalLast

SPECIFICATION StoresSpec
CONSTANTS
  p1 = p1
  p2 = p2
  w1 = w1
  w2 = w2
  e1 = e1
  e2 = e2
  a1 = a1
  a2 = a2
  c1 = c1
  s1 = s1
  k1 = k1
  k2 = k2
  Principal = {p1, p2}
  Leaver = {p2}
  Audience = {{p1}, {p1, p2}}
  Writer = {w1, w2}
  MaxTime = 2
  MaxSize = 2
  MaxEpisodes = 2
  Batch = 1
  Episode = {e1, e2}
  EntityOf <- EntityOfEpisode
  WriterOf <- WriterOfEpisode
  CanonOf <- CanonOfStatement
  Tier1 = {}
  Statement = {s1}
  Naming = {}
  Worker = {k1, k2}
  KMin = 2
  Established = 3
  MaxItems = 2
  MaxFaults = 1
INVARIANTS  AudienceHolds 
INVARIANTS ServedSupported WrittenOnce
 
SYMMETRY StoresSymmetry
CHECK_DEADLOCK FALSE

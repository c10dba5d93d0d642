CONSTANTS
  p1 = p1
  p2 = p2
  k1 = k1
  k2 = k2
  c1 = c1
  c2 = c2
  c3 = c3
  Absent = Absent
  Empty = Empty
  Torn = Torn
  NoLoad = NoLoad
  Proc = {p1}
  Key = {k1}
  Content = {c1}
  Long = {}
  Writer = {p1}
  Position = {1}
  Changed = {k1}
SPECIFICATION FairSpec
PROPERTY AtIndexEnds

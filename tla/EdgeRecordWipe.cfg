SPECIFICATION Spec
CONSTANTS
  v1 = v1
  v2 = v2
  v3 = v3
  Values <- MCValues
  Empty = Empty
  Unreadable = Unreadable
  MaxGen = 6
PROPERTIES
  NeverAnOlderRecord

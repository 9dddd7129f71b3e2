\* An instance and its successor, two connections, room for one.
SPECIFICATION FairSpec
CONSTANTS
  Instances = {p1, p2}
  Connections = {c1, c2}
  MaxConnections = 1
  Nobody = Nobody
INVARIANTS ConnectionsBounded ServedIsNeverCut NoTokenLeft
PROPERTIES SignalEnds HalfOpenEnds

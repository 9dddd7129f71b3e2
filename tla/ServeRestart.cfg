\* A restart: the second instance starts while the first one drains.
SPECIFICATION FairSpec
CONSTANTS
  Instances = {p1, p2}
  Connections = {c1}
  MaxConnections = 1
  Nobody = Nobody
PROPERTIES SecondRemovalHarmless

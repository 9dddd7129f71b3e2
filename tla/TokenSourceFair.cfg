\* Every token lives for the same two ticks, whoever obtained it, as Identity
\* Center issues them; tasks run and the gate is fair.
SPECIFICATION FairSpec
CONSTANTS
  Requests = {r1, r2}
  Buffer = 0
  InitialExpiries = {0, 3}
  CliLifetimes = {2}
  Lifetimes = {2}
  MaxTime = 3
  MaxToken = 3
PROPERTIES NeverHandedBack WaitingEnds

\* Two requests racing for the gate; the CLI may write two rows; expiries may
\* collide, be unparsable (0) or be shorter than what the row still had.
SPECIFICATION Spec
CONSTANTS
  Requests = {r1, r2}
  Buffer = 0
  InitialExpiries = {0, 2}
  CliLifetimes = {1}
  Lifetimes = {1, 2}
  MaxTime = 3
  MaxToken = 3
SYMMETRY Symmetry
INVARIANTS NoReplay BooksBalance
PROPERTIES ExchangeOnlyWhenNeeded ExchangesOnce

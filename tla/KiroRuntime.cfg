\* Two requests with two attempts each; the CLI may write one row; a token lives
\* for two ticks, whoever obtained it.
SPECIFICATION Spec
CONSTANTS
  Requests        = {r1, r2}
  MaxAttempts     = 2
  Buffer          = 0
  InitialExpiries = {2}
  CliLifetimes    = {2}
  Lifetimes       = {2}
  MaxTime         = 2
  MaxToken        = 2
  MaxPause        = 60
  MaxSeconds      = 100
  Answers         <- MCAnswers
SYMMETRY Symmetry
INVARIANTS RejectedIsReplaced PairInOrder ForcedIsOwed
PROPERTIES FinalIsFinal

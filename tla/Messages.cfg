\* Two requests compete for one permit; two attempts per call of the client.
SPECIFICATION Spec
CONSTANTS
  Requests = {r1, r2}
  Models = {m1, m2}
  MaxConcurrent = 1
  MaxAttempts = 2
SYMMETRY Symmetry
INVARIANTS SummaryConsistent PermitsConserved OutcomeIsHonest
INVARIANTS SnapshotIsCurrent PostsBounded
PROPERTIES ReplayIsUnseen LastWordIsLast

\* Two requests and one permit; every await ends, a stream that started ends,
\* and a client that stays reads.
SPECIFICATION FairSpec
CONSTANTS
  Requests = {r1, r2}
  Models = {m1}
  MaxConcurrent = 1
  MaxAttempts = 1
PROPERTY RequestsEnd

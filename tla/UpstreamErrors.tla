--------------------------- MODULE UpstreamErrors ---------------------------
(***************************************************************************)
(* What the runtime's answers mean (kiro-trust-kiro: error.rs and the      *)
(* answers' part of client.rs) and what the client is told of them         *)
(* (server/error.rs, messages.rs).  An answer is a record of what the code *)
(* looks at; "markers" are those its body contains.                        *)
(***************************************************************************)
EXTENDS Naturals, Sequences

CONSTANTS
  MaxPause,    \* the longest pause made here, 60 s
  MaxSeconds   \* u64::MAX

Answer(status, exception, markers, retryAfter) ==
  [status |-> status, exception |-> exception, markers |-> markers, retryAfter |-> retryAfter]

NoException == ""
Capacity    == "INSUFFICIENT_MODEL_CAPACITY"
Allowance   == "MONTHLY_REQUEST_COUNT"
Throttling  == {"ThrottlingException", "TooManyRequestsException"}
Retryables  == Throttling \cup {"ServiceUnavailableException", "InternalServerException",
                                "InternalFailureException", "InternalServerError"}

\* retry_after: <<seconds>>, or Absent (none, in the past or not a date); more
\* seconds than the type holds are as good as for ever.
Absent   == <<>>
Stops(a) == a.retryAfter # Absent /\ a.retryAfter[1] > MaxPause

\* The status looked at before the markers.
StatusFirst(a) ==
  IF a.status = 429 THEN "Throttled"
  ELSE IF Capacity \in a.markers THEN "ModelCapacity"
  ELSE IF Allowance \in a.markers THEN "AllowanceExhausted" ELSE "Server"

ClassifyThrottle(a) ==
  IF Capacity \in a.markers THEN "ModelCapacity"
  ELSE IF Allowance \in a.markers THEN "AllowanceExhausted"
  ELSE IF a.status = 429 THEN "Throttled" ELSE "Server"

\* A 200 that is no event stream.
ClassifyBody(a) ==
  CASE a.exception = NoException   -> "Protocol"
    [] a.exception # NoException /\ a.markers # {} -> ClassifyThrottle(a)
    [] OTHER -> IF a.exception \in Throttling THEN "Throttled"
                ELSE IF a.exception \in Retryables THEN "Server" ELSE "Client"

Busy(a) == a.status = 429 \/ a.status \in 500..599

\* UpstreamError.kind.
Kind(a) ==
  CASE a.status = 200 -> ClassifyBody(a)
    [] a.status = 403 -> "Auth"
    [] Busy(a)        -> ClassifyThrottle(a)
    [] OTHER          -> IF Allowance \in a.markers THEN "AllowanceExhausted" ELSE "Client"

\* Whether another attempt is made of it, if one is left.
Retryable(a) ==
  CASE a.status = 200 -> \/ Kind(a) = "ModelCapacity"
                         \/ Kind(a) # "AllowanceExhausted" /\ a.exception \in Retryables
    [] Busy(a)        -> Kind(a) # "AllowanceExhausted" /\ ~Stops(a)
    [] OTHER          -> FALSE

\* UpstreamError.retry_after: only a pause too long to be made here is passed on.
PassedOn(a) ==
  IF Busy(a) /\ Kind(a) # "AllowanceExhausted" /\ Stops(a) /\ a.retryAfter[1] <= MaxSeconds
  THEN a.retryAfter ELSE Absent

\* From<UpstreamError> for ApiError: the status, Retry-After and x-should-retry.
Told(kind, pause) ==
  LET status == CASE kind = "Auth" -> 401
                  [] kind \in {"Throttled", "ModelCapacity", "AllowanceExhausted"} -> 429
                  [] OTHER -> 502
  IN [status |-> status, retryAfter |-> pause, noRetry |-> kind = "AllowanceExhausted"]
=============================================================================

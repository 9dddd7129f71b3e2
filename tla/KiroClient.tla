----------------------------- MODULE KiroClient -----------------------------
(***************************************************************************)
(* The Kiro runtime client (kiro-trust-kiro, client.rs): generate() asks   *)
(* the credential cache for an identity and a bearer token, posts, and     *)
(* classifies the answer.  At most MaxAttempts posts are made; a 403       *)
(* invalidates the credential and is retried once; nothing is retried      *)
(* after an event stream has been accepted.  What the answers look like,   *)
(* how long a pause is and which error is reported are left out.           *)
(***************************************************************************)
EXTENDS Naturals

CONSTANTS
  Requests,      \* the requests that call generate()
  MaxAttempts    \* MAX_ATTEMPTS

VARIABLES
  call,        \* where generate() stands
  attempts,    \* its local "attempts"
  refreshed,   \* its local "refreshed"
  progress     \* AttemptProgress: posts completed over all of a request's calls

vars == <<call, attempts, refreshed, progress>>

Stages == {"idle", "identity", "headers", "posting", "answered", "backoff", "stream", "error"}

Init ==
  /\ call = [r \in Requests |-> "idle"]
  /\ attempts = [r \in Requests |-> 0]
  /\ refreshed = [r \in Requests |-> FALSE]
  /\ progress = [r \in Requests |-> 0]

Goto(r, stage) == call' = [call EXCEPT ![r] = stage]

Generate(r) ==
  /\ Goto(r, "identity")
  /\ attempts' = [attempts EXCEPT ![r] = 0]
  /\ refreshed' = [refreshed EXCEPT ![r] = FALSE]
  /\ UNCHANGED progress

\* identity() and then headers() answer, each from a cycle of its own.
Identified(r) ==
  /\ call[r] = "identity"
  /\ Goto(r, "headers")
  /\ UNCHANGED <<attempts, refreshed, progress>>

Authorized(r) ==
  /\ call[r] = "headers"
  /\ Goto(r, "posting")
  /\ UNCHANGED <<attempts, refreshed, progress>>

\* No credential: the error carries only the posts completed so far.
Unauthenticated(r) ==
  /\ call[r] \in {"identity", "headers"}
  /\ Goto(r, "error")
  /\ UNCHANGED <<attempts, refreshed, progress>>

\* A post has completed, whatever came of it: it counts at once.
Posted(r) ==
  /\ call[r] = "posting"
  /\ attempts' = [attempts EXCEPT ![r] = @ + 1]
  /\ progress' = [progress EXCEPT ![r] = @ + 1]

\* An attempt budget that never runs out.
NeverLast(made) == FALSE

Last(made) == made >= MaxAttempts

\* 200 with an event stream.
Accepted(r) ==
  /\ Posted(r)
  /\ Goto(r, "stream")
  /\ UNCHANGED refreshed

\* A transport error: pause and try again, unless this was the last attempt.
Unreachable(r) ==
  /\ Posted(r)
  /\ Goto(r, IF Last(attempts'[r]) THEN "error" ELSE "backoff")
  /\ UNCHANGED refreshed

\* A redirect is never followed and never retried.
Redirected(r) ==
  /\ Posted(r)
  /\ Goto(r, "error")
  /\ UNCHANGED refreshed

\* Any other answer: its body, or the invalidation it causes, is awaited.
Answered(r) ==
  /\ Posted(r)
  /\ Goto(r, "answered")
  /\ UNCHANGED refreshed

\* A retryable exception in a 200, a 429 or a 5xx.
Retried(r) ==
  /\ call[r] = "answered"
  /\ Goto(r, IF Last(attempts[r]) THEN "error" ELSE "backoff")
  /\ UNCHANGED <<attempts, refreshed, progress>>

Wake(r) ==
  /\ call[r] = "backoff"
  /\ Goto(r, "identity")
  /\ UNCHANGED <<attempts, refreshed, progress>>

\* 403: the credential is invalidated, once, if an attempt remains.
Forbidden(r) ==
  /\ call[r] = "answered"
  /\ IF ~refreshed[r] /\ ~Last(attempts[r])
     THEN Goto(r, "identity") /\ refreshed' = [refreshed EXCEPT ![r] = TRUE]
     ELSE Goto(r, "error") /\ UNCHANGED refreshed
  /\ UNCHANGED <<attempts, progress>>

\* An exhausted allowance, a Retry-After that is too long, an unusable 200
\* body or any other status.
Refused(r) ==
  /\ call[r] = "answered"
  /\ Goto(r, "error")
  /\ UNCHANGED <<attempts, refreshed, progress>>

Step(r) ==
  \/ Identified(r) \/ Authorized(r) \/ Unauthenticated(r)
  \/ Accepted(r) \/ Unreachable(r) \/ Redirected(r) \/ Answered(r)
  \/ Retried(r) \/ Wake(r) \/ Forbidden(r) \/ Refused(r)

Next == \E r \in Requests : (call[r] \in {"idle", "stream", "error"} /\ Generate(r)) \/ Step(r)

Spec == Init /\ [][Next]_vars
=============================================================================

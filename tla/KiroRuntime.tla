---------------------------- MODULE KiroRuntime ----------------------------
(***************************************************************************)
(* KiroClient at work on the credential cache: generate() takes the        *)
(* identity and the bearer token of each attempt from two cycles of one    *)
(* TokenSource, posts, and acts on what the answer means.  A 403 forces    *)
(* the next cycle; the flag is the process's, not the request's, so that   *)
(* another request's cycle may take it.  A client may go away at any       *)
(* await.  Each request is sent once here; Messages has the replays.       *)
(***************************************************************************)
EXTENDS UpstreamErrors

CONSTANTS
  Requests, MaxAttempts,                                               \* KiroClient
  Buffer, InitialExpiries, CliLifetimes, Lifetimes, MaxTime, MaxToken, \* TokenSource
  Answers                                                              \* what the runtime may answer

\* What TokenSource asks of its constants: expiries, lifetimes and VALIDITY_BUFFER
\* are in ticks, and the endpoint grants one at least.
ASSUME CacheAssumption ==
  /\ Buffer \in Nat
  /\ InitialExpiries \subseteq Nat /\ CliLifetimes \subseteq Nat
  /\ Lifetimes \subseteq Nat \ {0}
  /\ MaxTime \in Nat /\ MaxToken \in Nat

VARIABLES
  now, db, tokens, cached, forced, burned, burnedUnparsable, gate, pc, forcedCycle, seed,
  topExpiry, retried, answer, spent,         \* TokenSource
  call, attempts, refreshed, progress,       \* KiroClient
  identity,   \* the credential an attempt took its identity from
  bearer,     \* and the one it took the token from
  reply,      \* the answer the call is acting on
  rejected,   \* history: the credential the 403 was for
  overtaken   \* history: another request's cycle has taken the flag since

Tokens == INSTANCE TokenSource
Client == INSTANCE KiroClient

cacheVars  == <<now, db, tokens, cached, forced, burned, burnedUnparsable, gate, pc,
                forcedCycle, seed, topExpiry, retried, answer, spent>>
clientVars == <<call, attempts, refreshed, progress>>
vars == <<cacheVars, clientVars, identity, bearer, reply, rejected, overtaken>>

NoAnswer == Answer(0, NoException, {}, Absent)

Waiting(r)  == call[r] \in {"identity", "headers"}
Finished(r) == call[r] \in {"stream", "error"}

\* An attempt is over: nothing of it is kept but what the retry needs.
EndAttempt(r) ==
  /\ identity' = [identity EXCEPT ![r] = Tokens!NoCredential]
  /\ bearer' = [bearer EXCEPT ![r] = Tokens!NoCredential]
  /\ reply' = [reply EXCEPT ![r] = NoAnswer]

\* The call is over with it.
EndCall(r) ==
  /\ EndAttempt(r)
  /\ rejected' = [rejected EXCEPT ![r] = Tokens!NoCredential]
  /\ overtaken' = [overtaken EXCEPT ![r] = FALSE]

-----------------------------------------------------------------------------
Init ==
  /\ Tokens!Init /\ Client!Init
  /\ identity = [r \in Requests |-> Tokens!NoCredential]
  /\ bearer = identity /\ rejected = identity
  /\ reply = [r \in Requests |-> NoAnswer]
  /\ overtaken = [r \in Requests |-> FALSE]

Generate(r) ==
  /\ call[r] = "idle"
  /\ Client!Generate(r)
  /\ UNCHANGED <<cacheVars, identity, bearer, reply, rejected, overtaken>>

\* current(), called for the identity and again for the header.
Ask(r) ==
  /\ Waiting(r)
  /\ Tokens!ServeCached(r) \/ Tokens!JoinGate(r) \/ Tokens!Progress(r)
  /\ UNCHANGED <<clientVars, identity, bearer, reply, rejected, overtaken>>

\* The flag is swapped: what others have asked for is taken from them.
EnterGate(r) ==
  /\ Tokens!EnterGate(r)
  /\ overtaken' = [q \in Requests |-> overtaken[q] \/ (forced /\ q # r /\ refreshed[q])]
  /\ UNCHANGED <<clientVars, identity, bearer, reply, rejected>>

TakeIdentity(r) ==
  /\ pc[r] = "served"
  /\ Client!Identified(r)
  /\ Tokens!Return(r)
  /\ identity' = [identity EXCEPT ![r] = answer[r]]
  /\ UNCHANGED <<bearer, reply, rejected, overtaken>>

\* The header is made; the cache's answer is kept while the post is under way.
TakeToken(r) ==
  /\ pc[r] = "served"
  /\ Client!Authorized(r)
  /\ bearer' = [bearer EXCEPT ![r] = answer[r]]
  /\ UNCHANGED <<cacheVars, identity, reply, rejected, overtaken>>

NoCredential(r) ==
  /\ pc[r] = "failed"
  /\ Client!Unauthenticated(r)
  /\ Tokens!Return(r)
  /\ EndCall(r)

-----------------------------------------------------------------------------
Accept(r) ==
  /\ Client!Accepted(r)
  /\ Tokens!Return(r)
  /\ EndCall(r)

\* No answer at all, or a redirect.
FailToSend(r) ==
  /\ Client!Unreachable(r) \/ Client!Redirected(r)
  /\ Tokens!Return(r)
  /\ IF call'[r] = "error" THEN EndCall(r) ELSE EndAttempt(r) /\ UNCHANGED <<rejected, overtaken>>

ReceiveAnswer(r) ==
  /\ Client!Answered(r)
  /\ \E a \in Answers : reply' = [reply EXCEPT ![r] = a]
  /\ UNCHANGED <<cacheVars, identity, bearer, rejected, overtaken>>

\* 403: the next cycle, whoever's it is, is forced.
Invalidate(r) ==
  /\ call[r] = "answered" /\ reply[r].status = 403
  /\ ~refreshed[r] /\ ~Client!Last(attempts[r])
  /\ Client!Forbidden(r)
  /\ Tokens!Invalidate(r)
  /\ EndAttempt(r)
  /\ rejected' = [rejected EXCEPT ![r] = bearer[r]]
  /\ overtaken' = [overtaken EXCEPT ![r] = FALSE]

\* A credential invalidated with nothing left to retry it for.
InvalidateAnyway(r) ==
  /\ call[r] = "answered" /\ reply[r].status = 403
  /\ refreshed[r] \/ Client!Last(attempts[r])
  /\ Client!Forbidden(r)
  /\ Tokens!Invalidate(r)
  /\ EndCall(r)

StayForbidden(r) ==
  /\ call[r] = "answered" /\ reply[r].status = 403
  /\ refreshed[r] \/ Client!Last(attempts[r])
  /\ Client!Forbidden(r)
  /\ Tokens!Return(r)
  /\ EndCall(r)

\* Anything else is tried again if it may pass, after a pause, and if an attempt is left.
Retry(r) ==
  /\ call[r] = "answered" /\ Retryable(reply[r]) /\ ~Client!Last(attempts[r])
  /\ Client!Retried(r)
  /\ Tokens!Return(r)
  /\ EndAttempt(r)
  /\ UNCHANGED <<rejected, overtaken>>

GiveUp(r) ==
  /\ call[r] = "answered" /\ reply[r].status # 403
  /\ ~Retryable(reply[r]) \/ Client!Last(attempts[r])
  /\ Client!Refused(r)
  /\ Tokens!Return(r)
  /\ EndCall(r)

Wake(r) ==
  /\ Client!Wake(r)
  /\ UNCHANGED <<cacheVars, identity, bearer, reply, rejected, overtaken>>

\* A request between its invalidation and the cycle it is for.
OnItsWay(r) == refreshed[r] /\ call[r] = "identity" /\ pc[r] \in {"idle", "waiting"}

\* The client goes away: the future is dropped at an await, in the cycle too.
\* An invalidation not yet made good stays with the process.
Drop(r) ==
  /\ Waiting(r) \/ call[r] \in {"posting", "answered", "backoff"}
  /\ \/ Tokens!Cancel(r)
     \/ pc[r] = "served" /\ call[r] \in {"posting", "answered"} /\ Tokens!Return(r)
     \/ pc[r] = "idle" /\ call[r] = "backoff" /\ UNCHANGED cacheVars
  /\ call' = [call EXCEPT ![r] = "error"]
  /\ EndAttempt(r)
  /\ rejected' = [rejected EXCEPT ![r] = IF OnItsWay(r) THEN @ ELSE Tokens!NoCredential]
  /\ overtaken' = [overtaken EXCEPT ![r] = FALSE]
  /\ UNCHANGED <<attempts, refreshed, progress>>

\* The Kiro CLI signs in or refreshes; time passes.
Elsewhere ==
  /\ Tokens!CliWritesRow \/ Tokens!Tick
  /\ UNCHANGED <<clientVars, identity, bearer, reply, rejected, overtaken>>

Rest == (\A r \in Requests : Finished(r)) /\ UNCHANGED vars

Step(r) ==
  \/ Generate(r) \/ Ask(r) \/ EnterGate(r) \/ TakeIdentity(r) \/ TakeToken(r) \/ NoCredential(r)
  \/ Accept(r) \/ FailToSend(r) \/ ReceiveAnswer(r)
  \/ Invalidate(r) \/ StayForbidden(r) \/ Retry(r) \/ GiveUp(r) \/ Wake(r)
  \/ Drop(r)

Next == (\E r \in Requests : Step(r)) \/ Elsewhere \/ Rest

Spec == Init /\ [][Next]_vars

-----------------------------------------------------------------------------
Posting(r) == call[r] = "posting"

\* RejectedIsReplaced: a post that retries a 403 carries the credential the runtime
\* has rejected only if that one was obtained here, or if another request's cycle
\* took the process-wide flag in between (client.rs, source.rs; design 3.3 and 3.4).
RejectedIsReplaced ==
  \A r \in Requests :
    Posting(r) /\ refreshed[r] /\ bearer[r] = rejected[r] => rejected[r].minted \/ overtaken[r]

\* PairInOrder: identity and token of an attempt come from two cycles; what may
\* happen between them puts the token after the identity, never before it, and
\* neither is older than what the request was rejected with.
PairInOrder ==
  \A r \in Requests : Posting(r) =>
    /\ bearer[r].token >= identity[r].token
    /\ refreshed[r] => identity[r].token >= rejected[r].token

\* ForcedIsOwed: a forced cycle is owed only to a request that is on its way to
\* the cycle, or was when its client went away; a call that ends by itself leaves
\* none behind for the next request to pay.
ForcedIsOwed ==
  forced => \E r \in Requests :
              OnItsWay(r) \/ (Finished(r) /\ rejected[r] # Tokens!NoCredential)

\* FinalIsFinal: an exhausted allowance and a pause too long to be made here end
\* the call, whatever the status that brought them, and the client is told not to
\* try again, or when (client.rs, error.rs, server/error.rs; design 5.6).
Exhausted(a) ==
  /\ Allowance \in a.markers /\ Capacity \notin a.markers
  /\ a.status # 403 /\ (a.status = 200 => a.exception # NoException)

FinalIsFinal ==
  [][ \A r \in Requests :
        LET a    == reply[r]
            told == Told(Kind(a), PassedOn(a))
        IN call[r] = "answered" /\ call'[r] # "answered" =>
             /\ Exhausted(a) => call'[r] = "error" /\ told.status = 429 /\ told.noRetry
             /\ Busy(a) /\ Stops(a) /\ ~Exhausted(a) =>
                  call'[r] = "error" /\ (a.retryAfter[1] <= MaxSeconds => told.retryAfter = a.retryAfter)
    ]_<<call, reply>>
=============================================================================

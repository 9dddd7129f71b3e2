------------------------------ MODULE Messages ------------------------------
(***************************************************************************)
(* POST /v1/messages (server/messages.rs and server/pump.rs): every        *)
(* request takes a concurrency permit, asks for a credential, calls the    *)
(* Kiro runtime (KiroClient), primes the answer, replays it once if the    *)
(* conversation state was rejected, and then folds it into one message or  *)
(* streams it, while the usage summary (UsageSummary) follows.  The client *)
(* may go away at any await.                                               *)
(*                                                                         *)
(* What the upstream sends is abstracted to what one read tells the        *)
(* handler: nothing to show, output, the end of the message, a failure or  *)
(* a break, the last two possibly after output in the same read.  What the *)
(* client has received is "wire".                                          *)
(***************************************************************************)
EXTENDS Integers, FiniteSets

CONSTANTS
  Requests,        \* the requests that may come in
  Models,          \* the models of the catalog
  MaxConcurrent,   \* MAX_CONCURRENT, the size of the limiter
  MaxAttempts      \* MAX_ATTEMPTS of the Kiro client

ASSUME MessagesAssumption ==
  /\ IsFiniteSet(Requests) /\ IsFiniteSet(Models)
  /\ MaxConcurrent \in Nat
  /\ MaxAttempts \in Nat \ {0}

VARIABLES
  total, models, guard, model, snapshot,    \* UsageSummary
  call, attempts, refreshed, progress,      \* KiroClient
  pc,         \* where post_messages stands
  streams,    \* req.stream
  replayed,   \* replayed_invalid_state
  pump,       \* the Pump of the current attempt
  initial,    \* is the primed batch still to be yielded?
  permits,    \* the limiter's free permits
  holders,    \* the requests that own one
  wire        \* what the client has received

usageVars  == <<total, models, guard, model, snapshot>>
clientVars == <<call, attempts, refreshed, progress>>
limitVars  == <<permits, holders>>
vars == <<usageVars, clientVars, pc, streams, replayed, pump, initial, limitVars, wire>>

Usage  == INSTANCE UsageSummary WITH Retries <- 0 .. (2 * MaxAttempts)
Client == INSTANCE KiroClient

-----------------------------------------------------------------------------
(* The pump.                                                               *)

Pumps == [read : BOOLEAN, started : BOOLEAN, ended : BOOLEAN, stopped : BOOLEAN,
          failure : {"none", "retryable", "fatal"}, broken : BOOLEAN]

NewPump == [read |-> FALSE, started |-> FALSE, ended |-> FALSE, stopped |-> FALSE,
            failure |-> "none", broken |-> FALSE]

EndedOrStopped(p) == p.ended \/ p.stopped

Chunk(kind, shown, p) == [kind |-> kind, shown |-> shown, pump |-> [p EXCEPT !.read = TRUE]]

Shows(p, shown) == [p EXCEPT !.started = @ \/ shown]

\* What one read of the upstream may bring.
Reads(p) ==
  UNION {
    {Chunk("events", shown, Shows(p, shown)) : shown \in BOOLEAN},
    {Chunk("events", TRUE, [Shows(p, TRUE) EXCEPT !.stopped = TRUE]),
     Chunk("events", TRUE, [Shows(p, TRUE) EXCEPT !.ended = TRUE]),
     Chunk("broken", FALSE, [p EXCEPT !.ended = TRUE, !.broken = TRUE])},
    {Chunk("failed", shown, [Shows(p, shown) EXCEPT !.failure = f]) :
       shown \in BOOLEAN, f \in {"retryable", "fatal"}},
    {Chunk("broken", shown, [Shows(p, shown) EXCEPT !.broken = TRUE]) : shown \in BOOLEAN}}

\* A pump that reads on, whatever an earlier read recorded.
ChunksUnrecorded(p) ==
  IF EndedOrStopped(p) THEN {Chunk("events", FALSE, p)} ELSE Reads(p)

\* Pump::next: what an earlier read recorded surfaces first, then the end.
Chunks(p) ==
  IF p.failure # "none" THEN {Chunk("failed", FALSE, p)}
  ELSE IF p.broken THEN {Chunk("broken", FALSE, p)}
  ELSE IF EndedOrStopped(p) THEN {Chunk("events", FALSE, p)}
  ELSE Reads(p)

-----------------------------------------------------------------------------
(* The ends of a request.                                                  *)

RetryCount(posts) == IF posts = 0 THEN 0 ELSE posts - 1

Goto(r, label) == pc' = [pc EXCEPT ![r] = label]

Tell(r, what) == wire' = [wire EXCEPT ![r] = what]

\* A permit is returned only by a request that got an answer.
ReleaseAnswered(r) ==
  IF wire'[r] # "nothing"
  THEN permits' = permits + 1 /\ holders' = holders \ {r}
  ELSE UNCHANGED limitVars

\* The owned permit is dropped with whatever holds it.
Release(r) == permits' = permits + 1 /\ holders' = holders \ {r}

Report(r, outcome, tokens) == Usage!Transition(r, outcome, tokens, RetryCount(progress'[r]))

\* An HTTP error, before anything was sent.
Deny(r, tokens) ==
  /\ Report(r, "failed", tokens)
  /\ Tell(r, "http_error")
  /\ Release(r)
  /\ Goto(r, "over")

-----------------------------------------------------------------------------
(* post_messages.                                                          *)

\* Rejected by the parser, the router or the catalog: never counted.
Reject(r) ==
  /\ pc[r] = "idle"
  /\ Goto(r, "over")
  /\ Tell(r, "http_error")
  /\ UNCHANGED <<usageVars, clientVars, streams, replayed, pump, initial, limitVars>>

Arrive(r) ==
  /\ pc[r] = "idle"
  /\ Usage!Begin(r)
  /\ Goto(r, "arrived")
  /\ UNCHANGED <<clientVars, streams, replayed, pump, initial, limitVars, wire>>

Acquire(r) ==
  /\ pc[r] = "arrived"
  /\ permits > 0
  /\ permits' = permits - 1 /\ holders' = holders \cup {r}
  /\ Goto(r, "identity")
  /\ UNCHANGED <<usageVars, clientVars, streams, replayed, pump, initial, wire>>

\* try_acquire fails: 429, at once.
TurnAway(r) ==
  /\ pc[r] = "arrived"
  /\ permits = 0
  /\ UNCHANGED clientVars
  /\ Report(r, "failed", FALSE)
  /\ Tell(r, "http_error")
  /\ Goto(r, "over")
  /\ UNCHANGED <<streams, replayed, pump, initial, limitVars>>

\* identity() fails, or build_payload rejects the request.
Unusable(r) ==
  /\ pc[r] = "identity"
  /\ UNCHANGED clientVars
  /\ Deny(r, FALSE)
  /\ UNCHANGED <<streams, replayed, pump, initial>>

Built(r) ==
  /\ pc[r] = "identity"
  /\ Client!Generate(r)
  /\ Goto(r, "generating")
  /\ UNCHANGED <<usageVars, streams, replayed, pump, initial, limitVars, wire>>

\* One step of generate(); its result is handled without another await.
Generating(r) ==
  /\ pc[r] = "generating"
  /\ Client!Step(r)
  /\ \/ call'[r] = "stream"
        /\ Goto(r, "priming")
        /\ pump' = [pump EXCEPT ![r] = NewPump]
        /\ UNCHANGED <<usageVars, limitVars, wire>>
     \/ call'[r] = "error"
        /\ Deny(r, snapshot[r])
        /\ UNCHANGED pump
     \/ call'[r] \notin {"stream", "error"}
        /\ UNCHANGED <<usageVars, limitVars, pc, pump, wire>>
  /\ UNCHANGED <<streams, replayed, initial>>

-----------------------------------------------------------------------------
(* Priming.                                                                *)

\* Streaming never commits to an answer before the message is over.
CommitsLate(r, chunk) == chunk.kind = "events" /\ EndedOrStopped(chunk.pump)

\* prime() returns Ready or Ended: an answer is under way, or complete.
Commits(r, chunk) ==
  \/ chunk.kind = "events" /\ EndedOrStopped(chunk.pump)
  \/ streams[r] /\ chunk.shown

Respond(r) ==
  IF streams[r]
  THEN /\ Goto(r, "streaming") /\ initial' = [initial EXCEPT ![r] = TRUE]
       /\ Tell(r, "head")
       /\ Usage!Update(r, TRUE)
       /\ UNCHANGED limitVars
  ELSE /\ Goto(r, "over") /\ UNCHANGED initial
       /\ Report(r, "completed", TRUE)
       /\ Tell(r, "complete")
       /\ Release(r)

\* A read that ends priming with a complete or a started answer.
PrimeAnswer(r) ==
  /\ pc[r] = "priming"
  /\ \E chunk \in Chunks(pump[r]) :
       /\ Commits(r, chunk)
       /\ pump' = [pump EXCEPT ![r] = chunk.pump]
  /\ UNCHANGED <<clientVars, streams, replayed>>
  /\ Respond(r)

\* A read that leaves nothing to show yet.
PrimeOn(r) ==
  /\ pc[r] = "priming"
  /\ \E chunk \in Chunks(pump[r]) :
       /\ chunk.kind = "events" /\ ~Commits(r, chunk)
       /\ pump' = [pump EXCEPT ![r] = chunk.pump]
  /\ Usage!Update(r, TRUE)
  /\ UNCHANGED <<clientVars, pc, streams, replayed, initial, limitVars, wire>>

Replayable(r, chunk) == chunk.kind = "failed" /\ chunk.pump.failure = "retryable" /\ ~replayed[r]

\* The replay keeps what the discarded attempt had reported.
ReplayWithTokens(r) ==
  /\ pc[r] = "priming"
  /\ \E chunk \in Chunks(pump[r]) : ~Commits(r, chunk) /\ Replayable(r, chunk)
  /\ replayed' = [replayed EXCEPT ![r] = TRUE]
  /\ pump' = [pump EXCEPT ![r] = NewPump]
  /\ Client!Generate(r)
  /\ Usage!Update(r, TRUE)
  /\ Goto(r, "generating")
  /\ UNCHANGED <<streams, initial, limitVars, wire>>

\* The one replay, without a conversation id and with a clean snapshot.
Replay(r) ==
  /\ pc[r] = "priming"
  /\ \E chunk \in Chunks(pump[r]) : ~Commits(r, chunk) /\ Replayable(r, chunk)
  /\ replayed' = [replayed EXCEPT ![r] = TRUE]
  /\ pump' = [pump EXCEPT ![r] = NewPump]
  /\ Client!Generate(r)
  /\ Usage!Update(r, FALSE)
  /\ Goto(r, "generating")
  /\ UNCHANGED <<streams, initial, limitVars, wire>>

PrimeFails(r) ==
  /\ pc[r] = "priming"
  /\ \E chunk \in Chunks(pump[r]) :
       /\ chunk.kind # "events" /\ ~Commits(r, chunk) /\ ~Replayable(r, chunk)
       /\ pump' = [pump EXCEPT ![r] = chunk.pump]
  /\ UNCHANGED clientVars
  /\ Deny(r, TRUE)
  /\ UNCHANGED <<streams, replayed, initial>>

\* A deadline that is armed for streaming requests only.
PrimingTimeoutStreaming(r) ==
  /\ pc[r] = "priming" /\ streams[r]
  /\ ~pump[r].started
  /\ pump' = [pump EXCEPT ![r].broken = TRUE, ![r].read = TRUE]
  /\ UNCHANGED clientVars
  /\ Deny(r, TRUE)
  /\ UNCHANGED <<streams, replayed, initial>>

\* PRIMING_DEADLINE passes before any output; the handler reads the
\* translator's snapshot once more before it reports.
PrimingTimeout(r) ==
  /\ pc[r] = "priming"
  /\ ~pump[r].started
  /\ pump' = [pump EXCEPT ![r].broken = TRUE, ![r].read = TRUE]
  /\ UNCHANGED clientVars
  /\ Deny(r, TRUE)
  /\ UNCHANGED <<streams, replayed, initial>>

-----------------------------------------------------------------------------
(* The body of a streamed response.  A keep-alive changes nothing here:    *)
(* the read it gives up on is made again by the next poll.                 *)

YieldInitial(r) ==
  /\ pc[r] = "streaming" /\ initial[r]
  /\ initial' = [initial EXCEPT ![r] = FALSE]
  /\ UNCHANGED clientVars
  /\ IF EndedOrStopped(pump[r])
     THEN Report(r, "completed", snapshot[r]) /\ Tell(r, "complete") /\ Goto(r, "finished")
     ELSE Tell(r, "events") /\ UNCHANGED <<usageVars, pc>>
  /\ UNCHANGED <<streams, replayed, pump, limitVars>>

YieldEvents(r) ==
  /\ pc[r] = "streaming" /\ ~initial[r]
  /\ UNCHANGED clientVars
  /\ \E chunk \in Chunks(pump[r]) :
       /\ chunk.kind = "events"
       /\ pump' = [pump EXCEPT ![r] = chunk.pump]
       /\ IF EndedOrStopped(chunk.pump)
          THEN Report(r, "completed", TRUE) /\ Tell(r, "complete") /\ Goto(r, "finished")
          ELSE Usage!Update(r, TRUE) /\ UNCHANGED <<wire, pc>>
  /\ UNCHANGED <<streams, replayed, initial, limitVars>>

\* An error event after which the body is polled again.
YieldErrorAndGoOn(r) ==
  /\ pc[r] = "streaming" /\ ~initial[r]
  /\ UNCHANGED clientVars
  /\ \E chunk \in Chunks(pump[r]) :
       /\ chunk.kind # "events"
       /\ pump' = [pump EXCEPT ![r] = chunk.pump]
  /\ Report(r, "failed", TRUE)
  /\ Tell(r, "errored")
  /\ UNCHANGED <<pc, streams, replayed, initial, limitVars>>

\* A failure or a break: an SSE error event, and nothing after it.
YieldError(r) ==
  /\ pc[r] = "streaming" /\ ~initial[r]
  /\ UNCHANGED clientVars
  /\ \E chunk \in Chunks(pump[r]) :
       /\ chunk.kind # "events"
       /\ pump' = [pump EXCEPT ![r] = chunk.pump]
  /\ Report(r, "failed", TRUE)
  /\ Tell(r, "errored")
  /\ Goto(r, "finished")
  /\ UNCHANGED <<streams, replayed, initial, limitVars>>

\* The poll after the last one returns None; the stream's state is dropped.
BodyEnds(r) ==
  /\ pc[r] = "finished"
  /\ UNCHANGED <<usageVars, clientVars, streams, replayed, pump, initial, wire>>
  /\ Release(r)
  /\ Goto(r, "over")

\* The client goes away: the handler's future, or the body, is dropped.
Disconnect(r) ==
  /\ pc[r] \in {"identity", "generating", "priming", "streaming", "finished"}
  /\ UNCHANGED <<clientVars, wire>>
  /\ Report(r, "cancelled", snapshot[r])
  /\ Release(r)
  /\ Goto(r, "over")
  /\ UNCHANGED <<streams, replayed, pump, initial>>

-----------------------------------------------------------------------------
Init ==
  /\ Usage!Init /\ Client!Init
  /\ pc = [r \in Requests |-> "idle"]
  /\ streams \in [Requests -> BOOLEAN]
  /\ replayed = [r \in Requests |-> FALSE]
  /\ pump = [r \in Requests |-> NewPump]
  /\ initial = [r \in Requests |-> FALSE]
  /\ permits = MaxConcurrent /\ holders = {}
  /\ wire = [r \in Requests |-> "nothing"]

\* What the task that serves r does once r has come in, reads apart.
Handle(r) ==
  Acquire(r) \/ TurnAway(r) \/ Unusable(r) \/ Built(r) \/ Generating(r) \/ PrimingTimeout(r)

Prime(r) == PrimeAnswer(r) \/ PrimeOn(r) \/ Replay(r) \/ PrimeFails(r)

Body(r) == YieldInitial(r) \/ YieldEvents(r) \/ YieldError(r) \/ BodyEnds(r)

Next == \E r \in Requests :
  Reject(r) \/ Arrive(r) \/ Handle(r) \/ Prime(r) \/ Body(r) \/ Disconnect(r)

\* Every request is over.
Done == (\A r \in Requests : pc[r] = "over") /\ UNCHANGED vars

Spec == Init /\ [][Next \/ Done]_vars

\* A stream that has begun to show something ends, one way or another.
EndingRead(r) ==
  /\ pump[r].started
  /\ \/ PrimeAnswer(r) \/ PrimeFails(r) \/ YieldError(r)
     \/ YieldEvents(r) /\ pc'[r] = "finished"

\* The client reads on, or goes away.
BodyAdvances(r) ==
  YieldInitial(r) \/ BodyEnds(r) \/ (pc[r] \in {"streaming", "finished"} /\ Disconnect(r))

\* Every await of the handler has a deadline; the runtime ends a stream it
\* has started; a client that stays reads.  No client has to leave.
Fairness ==
  \A r \in Requests :
    WF_vars(Handle(r)) /\ WF_vars(EndingRead(r)) /\ WF_vars(BodyAdvances(r))

FairSpec == Spec /\ Fairness

-----------------------------------------------------------------------------
Labels == {"idle", "arrived", "identity", "generating", "priming", "streaming", "finished", "over"}

Wires == {"nothing", "head", "events", "complete", "errored", "http_error"}

TypeOK ==
  /\ Usage!TypeOK
  /\ call \in [Requests -> Client!Stages]
  /\ attempts \in [Requests -> Nat] /\ progress \in [Requests -> Nat]
  /\ refreshed \in [Requests -> BOOLEAN]
  /\ pc \in [Requests -> Labels]
  /\ streams \in [Requests -> BOOLEAN] /\ replayed \in [Requests -> BOOLEAN]
  /\ pump \in [Requests -> Pumps]
  /\ initial \in [Requests -> BOOLEAN]
  /\ permits \in 0 .. MaxConcurrent /\ holders \subseteq Requests
  /\ wire \in [Requests -> Wires]

\* The summary of GET /v1/usage is consistent whenever it is read: every
\* request is counted out once, the rows add up, in flight is what is open.
SummaryConsistent == Usage!Balanced /\ Usage!InFlightIsOpen /\ Usage!RowsAddUp

\* No path leaks or doubles a permit: a request owns one from the moment the
\* limiter gave it until its handler or its response body is gone, and a
\* streamed response holds its own for as long as the body lives.
PermitsConserved ==
  /\ permits + Cardinality(holders) = MaxConcurrent
  /\ \A r \in Requests : r \in holders <=>
       pc[r] \in {"identity", "generating", "priming", "streaming", "finished"}

\* What is counted is what the client was told, on every path: completed only
\* with a whole message from an upstream that neither failed nor broke, failed
\* only with an error, cancelled only if the client went away before either.
OutcomeIsHonest ==
  \A r \in Requests :
    /\ guard[r] = "completed" <=> wire[r] = "complete"
    /\ guard[r] = "completed" => pump[r].failure = "none" /\ ~pump[r].broken
    /\ guard[r] = "failed" <=> wire[r] \in {"http_error", "errored"} /\ guard[r] # "none"
    /\ guard[r] = "cancelled" => wire[r] \in {"nothing", "head", "events"}
    /\ pc[r] \in {"finished", "over"} => guard[r] # "open"

\* The tokens counted are those of the final attempt: a replay clears what the
\* discarded one had shown, and no later step forgets what was observed.
SnapshotIsCurrent ==
  \A r \in Requests : guard[r] # "none" => (snapshot[r] <=> pump[r].read)

\* Both loops together, the client's and the handler's, post a bounded number
\* of times.
PostsBounded == \A r \in Requests : progress[r] <= 2 * MaxAttempts

\* A request is replayed only while the client has received nothing, and a
\* streaming one only if it has shown nothing either.
ReplayIsUnseen ==
  [][ \A r \in Requests : replayed'[r] /\ ~replayed[r] =>
        wire[r] = "nothing" /\ (streams[r] => ~pump[r].started) ]_vars

\* An end is an end: after a complete message, an HTTP error or an SSE error
\* event the client is told nothing else and the body yields nothing more.
LastWordIsLast ==
  [][ \A r \in Requests :
        wire[r] \in {"complete", "errored", "http_error"} =>
          wire'[r] = wire[r] /\ pc'[r] \in {"finished", "over"} ]_vars

\* No request hangs, and none keeps its permit: an upstream that trickles
\* without ever showing anything is cut off by the priming deadline.
RequestsEnd == \A r \in Requests : pc[r] = "arrived" ~> pc[r] = "over"
=============================================================================

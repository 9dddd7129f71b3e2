--------------------------- MODULE MessagesProofs ---------------------------
(***************************************************************************)
(* What Messages guarantees for any number of requests, models, permits    *)
(* and attempts, and however the upstream's reads fall.                    *)
(*                                                                         *)
(* The argument: a step changes one request and leaves the others alone,   *)
(* so the invariant is a statement about one request (Local) with the two  *)
(* things they share beside it.  InStage ties what is counted and what was *)
(* told to where the handler stands; PumpInStep says that a pump which has *)
(* recorded a failure has not ended, which is why a failure is never       *)
(* overtaken by the end of the message; PostsInStep splits the posts       *)
(* between the two calls of the client.  The shared parts are the permits  *)
(* (PermitsKept) and the summary (CountInv): every step is one of its      *)
(* operations (ServedUsage).  InFlightIsOpen is what makes Balanced        *)
(* inductive: it says that inFlight is positive when a guard reports, so   *)
(* the saturating subtraction of Counters::terminal never saturates.  That *)
(* the rows add up (RowsInv) is an induction over the finite set of        *)
(* models: its steps compare a set with a smaller one (BySubset).          *)
(***************************************************************************)
EXTENDS Messages, FiniteSetTheorems, TLAPS

\* The stages that own a permit.
Owning == {"identity", "generating", "priming", "streaming", "finished"}

\* Everything but the summary is well typed.
RestTyped ==
  /\ call \in [Requests -> Client!Stages]
  /\ attempts \in [Requests -> Nat] /\ progress \in [Requests -> Nat]
  /\ refreshed \in [Requests -> BOOLEAN]
  /\ pc \in [Requests -> Labels]
  /\ streams \in [Requests -> BOOLEAN] /\ replayed \in [Requests -> BOOLEAN]
  /\ pump \in [Requests -> Pumps]
  /\ initial \in [Requests -> BOOLEAN]
  /\ wire \in [Requests -> Wires]

\* What is counted and what was told, by where the request stands.
InStage(r) ==
  /\ pc[r] = "idle" => guard[r] = "none" /\ wire[r] = "nothing"
  /\ pc[r] \in {"arrived", "identity", "generating", "priming"} =>
       guard[r] = "open" /\ wire[r] = "nothing"
  /\ pc[r] = "streaming" => guard[r] = "open" /\ wire[r] \in {"head", "events"}
  /\ pc[r] = "finished" =>
       \/ guard[r] = "completed" /\ wire[r] = "complete"
       \/ guard[r] = "failed" /\ wire[r] = "errored"
  /\ pc[r] = "over" =>
       \/ guard[r] = "none" /\ wire[r] = "http_error"
       \/ guard[r] = "completed" /\ wire[r] = "complete"
       \/ guard[r] = "failed" /\ wire[r] \in {"http_error", "errored"}
       \/ guard[r] = "cancelled" /\ wire[r] \in {"nothing", "head", "events"}

\* Nothing to surface.
Unharmed(p) == p.failure = "none" /\ ~p.broken

\* What the pump has recorded, by where the request stands.
PumpInStep(r) ==
  /\ snapshot[r] = pump[r].read
  /\ pc[r] \in {"idle", "arrived", "identity", "generating"} => ~pump[r].read
  /\ pc[r] = "priming" /\ streams[r] => ~pump[r].started
  /\ pc[r] = "streaming" /\ EndedOrStopped(pump[r]) => Unharmed(pump[r])
  /\ guard[r] = "completed" => Unharmed(pump[r])

\* How many posts have been made, by where the request stands.
PostsInStep(r) ==
  /\ attempts[r] <= MaxAttempts
  /\ call[r] \in {"identity", "headers", "posting", "backoff"} => attempts[r] < MaxAttempts
  /\ progress[r] <= attempts[r] + (IF replayed[r] THEN MaxAttempts ELSE 0)
  /\ pc[r] \in {"idle", "arrived", "identity"} => progress[r] = 0 /\ ~replayed[r]

\* The invariant of one request.
Local(r) == InStage(r) /\ PumpInStep(r) /\ PostsInStep(r)

\* The summary's variables, as far as the requests' stages depend on them.
GuardsTyped ==
  /\ guard \in [Requests -> {"none", "open", "completed", "failed", "cancelled"}]
  /\ snapshot \in [Requests -> BOOLEAN]

\* What the lemmas about single steps need of the types.
Typed == RestTyped /\ GuardsTyped

\* A step of one request leaves the others alone.
LeavesAlone(q) ==
  /\ call'[q] = call[q] /\ attempts'[q] = attempts[q] /\ progress'[q] = progress[q]
  /\ pc'[q] = pc[q] /\ streams'[q] = streams[q] /\ replayed'[q] = replayed[q]
  /\ pump'[q] = pump[q] /\ wire'[q] = wire[q]
  /\ guard'[q] = guard[q] /\ snapshot'[q] = snapshot[q]

\* What every step of r does.
Good(r) == RestTyped' /\ Local(r)' /\ \A q \in Requests \ {r} : LeavesAlone(q)

-----------------------------------------------------------------------------
(* The pump.                                                               *)

\* A chunk carries its pump, marked as having been read.
LEMMA Recorded ==
  ASSUME NEW kind, NEW shown, NEW q \in Pumps
  PROVE  /\ Chunk(kind, shown, q).kind = kind /\ Chunk(kind, shown, q).shown = shown
         /\ Chunk(kind, shown, q).pump \in Pumps
         /\ Chunk(kind, shown, q).pump.read
         /\ Unharmed(Chunk(kind, shown, q).pump) <=> Unharmed(q)
         /\ EndedOrStopped(Chunk(kind, shown, q).pump) <=> EndedOrStopped(q)
         /\ Chunk(kind, shown, q).pump.started <=> q.started
<1> DEFINE marked == [q EXCEPT !.read = TRUE]
<1>1. /\ marked \in Pumps /\ marked.read
      /\ marked.failure = q.failure /\ (marked.broken <=> q.broken)
      /\ (marked.ended <=> q.ended) /\ (marked.stopped <=> q.stopped)
      /\ (marked.started <=> q.started)
  BY DEF Pumps
<1>2. /\ Chunk(kind, shown, q).kind = kind /\ Chunk(kind, shown, q).shown = shown
      /\ Chunk(kind, shown, q).pump = marked
  BY DEF Chunk
<1> HIDE DEF marked
<1> QED BY <1>1, <1>2 DEF Unharmed, EndedOrStopped

\* What a read changes in a pump.
LEMMA Changed ==
  ASSUME NEW p \in Pumps, NEW shown \in BOOLEAN
  PROVE  /\ Shows(p, shown) \in Pumps
         /\ Shows(p, shown).started <=> p.started \/ shown
         /\ Unharmed(Shows(p, shown)) <=> Unharmed(p)
         /\ EndedOrStopped(Shows(p, shown)) <=> EndedOrStopped(p)
<1> DEFINE v == p.started \/ shown
           s == Shows(p, shown)
<1>1. v \in BOOLEAN
  OBVIOUS
<1>2. s = [p EXCEPT !.started = v]
  BY DEF Shows
<1> HIDE DEF v, s
<1>3. /\ s \in Pumps /\ s.started = v
      /\ s.failure = p.failure /\ s.broken = p.broken
      /\ s.ended = p.ended /\ s.stopped = p.stopped
  BY <1>1, <1>2 DEF Pumps
<1> QED BY <1>3 DEF v, s, Unharmed, EndedOrStopped

\* A pump that the priming deadline cuts off.
LEMMA CutOff ==
  ASSUME NEW p \in Pumps
  PROVE  /\ [p EXCEPT !.broken = TRUE, !.read = TRUE] \in Pumps
         /\ [p EXCEPT !.broken = TRUE, !.read = TRUE].read
BY DEF Pumps

\* What one call of Pump::next may return.
LEMMA ChunkFacts ==
  ASSUME NEW p \in Pumps, NEW c \in Chunks(p)
  PROVE  /\ c.pump \in Pumps /\ c.pump.read /\ c.shown \in BOOLEAN
         /\ c.kind \in {"events", "failed", "broken"}
         /\ c.kind = "events" => Unharmed(c.pump)
         /\ c.kind # "events" /\ c.shown => ~EndedOrStopped(c.pump)
         /\ c.pump.started => p.started \/ c.shown
<1>1. CASE p.failure # "none" \/ p.broken \/ EndedOrStopped(p)
  <2>1. PICK kind \in {"events", "failed", "broken"}, shown \in BOOLEAN :
          c = Chunk(kind, shown, p) /\ ~shown /\ (kind = "events" => Unharmed(p))
    BY <1>1 DEF Chunks, Unharmed
  <2> QED BY <2>1, Recorded
<1>2. CASE Unharmed(p) /\ ~EndedOrStopped(p)
  <2>1. c \in Reads(p)
    BY <1>2 DEF Chunks, Unharmed
  <2>2. CASE \E shown \in BOOLEAN : c = Chunk("events", shown, Shows(p, shown))
    BY <1>2, <2>2, Recorded, Changed
  <2>3. CASE \/ c = Chunk("events", TRUE, [Shows(p, TRUE) EXCEPT !.stopped = TRUE])
             \/ c = Chunk("events", TRUE, [Shows(p, TRUE) EXCEPT !.ended = TRUE])
    <3> DEFINE s == Shows(p, TRUE)
    <3>1. s \in Pumps /\ Unharmed(s)
      BY <1>2, Changed
    <3> HIDE DEF s
    <3>2. /\ [s EXCEPT !.stopped = TRUE] \in Pumps /\ Unharmed([s EXCEPT !.stopped = TRUE])
          /\ [s EXCEPT !.ended = TRUE] \in Pumps /\ Unharmed([s EXCEPT !.ended = TRUE])
      BY <3>1 DEF Pumps, Unharmed
    <3>3. PICK q \in Pumps, shown \in BOOLEAN :
            Unharmed(q) /\ (q.started => p.started \/ shown) /\ c = Chunk("events", shown, q)
      BY <2>3, <3>2 DEF s
    <3> QED BY <3>3, Recorded
  <2>4. CASE c = Chunk("broken", FALSE, [p EXCEPT !.ended = TRUE, !.broken = TRUE])
    <3> DEFINE q == [p EXCEPT !.ended = TRUE, !.broken = TRUE]
    <3>1. q \in Pumps /\ (q.started <=> p.started)
      BY DEF Pumps
    <3> HIDE DEF q
    <3>2. PICK shown \in BOOLEAN : c = Chunk("broken", shown, q) /\ ~shown
      BY <2>4 DEF q
    <3> QED BY <3>1, <3>2, Recorded
  <2>5. CASE \E shown \in BOOLEAN, f \in {"retryable", "fatal"} :
               c = Chunk("failed", shown, [Shows(p, shown) EXCEPT !.failure = f])
    <3>1. PICK shown \in BOOLEAN, f \in {"retryable", "fatal"} :
            c = Chunk("failed", shown, [Shows(p, shown) EXCEPT !.failure = f])
      BY <2>5
    <3> DEFINE s == Shows(p, shown)
               q == [s EXCEPT !.failure = f]
    <3>2. s \in Pumps /\ (s.started <=> p.started \/ shown) /\ ~EndedOrStopped(s)
      BY <1>2, Changed
    <3> HIDE DEF s
    <3>3. q \in Pumps /\ (q.started <=> s.started) /\ ~EndedOrStopped(q)
      BY <3>2 DEF Pumps, EndedOrStopped
    <3>4. c = Chunk("failed", shown, q)
      BY <3>1 DEF s
    <3> HIDE DEF q
    <3> QED BY <3>2, <3>3, <3>4, Recorded
  <2>6. CASE \E shown \in BOOLEAN :
               c = Chunk("broken", shown, [Shows(p, shown) EXCEPT !.broken = TRUE])
    <3>1. PICK shown \in BOOLEAN :
            c = Chunk("broken", shown, [Shows(p, shown) EXCEPT !.broken = TRUE])
      BY <2>6
    <3> DEFINE s == Shows(p, shown)
               q == [s EXCEPT !.broken = TRUE]
    <3>2. s \in Pumps /\ (s.started <=> p.started \/ shown) /\ ~EndedOrStopped(s)
      BY <1>2, Changed
    <3> HIDE DEF s
    <3>3. q \in Pumps /\ (q.started <=> s.started) /\ ~EndedOrStopped(q)
      BY <3>2 DEF Pumps, EndedOrStopped
    <3>4. c = Chunk("broken", shown, q)
      BY <3>1 DEF s
    <3> HIDE DEF q
    <3> QED BY <3>2, <3>3, <3>4, Recorded
  <2> DEFINE Quiet  == {Chunk("events", shown, Shows(p, shown)) : shown \in BOOLEAN}
             Ends   == {Chunk("events", TRUE, [Shows(p, TRUE) EXCEPT !.stopped = TRUE]),
                        Chunk("events", TRUE, [Shows(p, TRUE) EXCEPT !.ended = TRUE]),
                        Chunk("broken", FALSE, [p EXCEPT !.ended = TRUE, !.broken = TRUE])}
             Fails  == {Chunk("failed", shown, [Shows(p, shown) EXCEPT !.failure = f]) :
                          shown \in BOOLEAN, f \in {"retryable", "fatal"}}
             Breaks == {Chunk("broken", shown, [Shows(p, shown) EXCEPT !.broken = TRUE]) :
                          shown \in BOOLEAN}
  <2>7. Reads(p) = UNION {Quiet, Ends, Fails, Breaks}
    BY DEF Reads
  <2>8. CASE c \in Quiet
    BY <2>2, <2>8
  <2>9. CASE c \in Ends
    BY <2>3, <2>4, <2>9
  <2>10. CASE c \in Fails
    BY <2>5, <2>10
  <2>11. CASE c \in Breaks
    BY <2>6, <2>11
  <2> HIDE DEF Quiet, Ends, Fails, Breaks
  <2> QED BY <2>1, <2>7, <2>8, <2>9, <2>10, <2>11
<1> QED BY <1>1, <1>2 DEF Unharmed

-----------------------------------------------------------------------------
(* Reports.                                                                *)

\* A guard that is open takes the outcome it is given.
LEMMA Reporting ==
  ASSUME NEW r \in Requests, guard[r] = "open", NEW o, NEW t, Report(r, o, t)
  PROVE  guard' = [guard EXCEPT ![r] = o] /\ snapshot' = [snapshot EXCEPT ![r] = t]
BY DEF Report, Usage!Transition

\* A guard that has reported ignores the outcome it is given.
LEMMA Ignoring ==
  ASSUME NEW r \in Requests, guard[r] # "open", NEW o, NEW t, Report(r, o, t)
  PROVE  guard' = guard /\ snapshot' = snapshot
BY DEF Report, Usage!Transition, Usage!vars

-----------------------------------------------------------------------------
(* The steps, one by one.  Each lemma says that the request that takes the  *)
(* step stays in step and that the others do not move.                     *)
USE DEF Typed, RestTyped, GuardsTyped, Local, InStage, PumpInStep, PostsInStep, Good,
        LeavesAlone

\* A rejected request is never counted, and is told so.
LEMMA RejectGood ==
  ASSUME Typed, NEW r \in Requests, Local(r), Reject(r) PROVE Good(r)
BY DEF Reject, Goto, Tell, usageVars, clientVars, limitVars, Labels, Wires

\* From here on the request's guard is open.
LEMMA ArriveGood ==
  ASSUME Typed, NEW r \in Requests, Local(r), Arrive(r) PROVE Good(r)
BY DEF Arrive, Goto, Tell, clientVars, limitVars, Labels, Wires, Usage!Begin

\* Taking the permit shows nothing to anyone.
LEMMA AcquireGood ==
  ASSUME Typed, NEW r \in Requests, Local(r), Acquire(r) PROVE Good(r)
BY DEF Acquire, Goto, Tell, usageVars, clientVars, Labels, Wires

\* Turned away before anything was read: no tokens.
LEMMA TurnAwayGood ==
  ASSUME Typed, NEW r \in Requests, Local(r), TurnAway(r) PROVE Good(r)
<1>1. guard' = [guard EXCEPT ![r] = "failed"] /\ snapshot' = [snapshot EXCEPT ![r] = FALSE]
  BY Reporting DEF TurnAway
<1> QED BY <1>1 DEF TurnAway, Goto, Tell, clientVars, limitVars, Labels, Wires

\* No credential or no payload: no tokens either.
LEMMA UnusableGood ==
  ASSUME Typed, NEW r \in Requests, Local(r), Unusable(r) PROVE Good(r)
<1>1. guard' = [guard EXCEPT ![r] = "failed"] /\ snapshot' = [snapshot EXCEPT ![r] = FALSE]
  BY Reporting DEF Unusable, Deny
<1> QED BY <1>1 DEF Unusable, Deny, Goto, Tell, clientVars, limitVars, Labels, Wires

\* The first call of the client starts with a fresh budget.
LEMMA BuiltGood ==
  ASSUME Typed, NEW r \in Requests, Local(r), Built(r) PROVE Good(r)
BY MessagesAssumption
   DEF MessagesAssumption, Built, Goto, usageVars, limitVars, Labels, Client!Generate, Client!Goto,
       Client!Stages

\* The replay starts a second budget, and forgets the tokens of the first.
LEMMA ReplayGood ==
  ASSUME Typed, NEW r \in Requests, Local(r), Replay(r) PROVE Good(r)
<1>1. NewPump \in Pumps /\ NewPump.read = FALSE
  BY DEF NewPump, Pumps
<1>2. /\ pc[r] = "priming" /\ ~replayed[r]
      /\ replayed' = [replayed EXCEPT ![r] = TRUE] /\ pump' = [pump EXCEPT ![r] = NewPump]
      /\ Goto(r, "generating") /\ UNCHANGED <<streams, initial, wire>>
  BY DEF Replay, Replayable
<1>3. /\ call' = [call EXCEPT ![r] = "identity"] /\ attempts' = [attempts EXCEPT ![r] = 0]
      /\ refreshed' = [refreshed EXCEPT ![r] = FALSE] /\ progress' = progress
  BY DEF Replay, Client!Generate, Client!Goto
<1>4. snapshot' = [snapshot EXCEPT ![r] = FALSE] /\ guard' = guard
  BY DEF Replay, Usage!Update
<1>5. RestTyped'
  BY <1>1, <1>2, <1>3 DEF Goto, Labels, Client!Stages
<1>6. \A q \in Requests \ {r} : LeavesAlone(q)
  BY <1>2, <1>3, <1>4 DEF Goto
<1>7. InStage(r)'
  BY <1>2, <1>4 DEF Goto
<1>8. PumpInStep(r)'
  BY <1>1, <1>2, <1>4, <1>7 DEF Goto
<1>9. PostsInStep(r)'
  BY <1>2, <1>3, MessagesAssumption DEF MessagesAssumption, Goto
<1> QED BY <1>5, <1>6, <1>7, <1>8, <1>9

\* An answer is complete, or under way, only from a pump that is unharmed or
\* that still has a failure to surface.
LEMMA PrimeAnswerGood ==
  ASSUME Typed, NEW r \in Requests, Local(r), PrimeAnswer(r) PROVE Good(r)
<1>1. PICK c \in Chunks(pump[r]) : Commits(r, c) /\ pump' = [pump EXCEPT ![r] = c.pump]
  BY DEF PrimeAnswer
<1>2. pump[r] \in Pumps
  OBVIOUS
<1>3. /\ c.pump \in Pumps /\ c.pump.read /\ c.shown \in BOOLEAN
      /\ c.kind = "events" => Unharmed(c.pump)
      /\ c.kind # "events" /\ c.shown => ~EndedOrStopped(c.pump)
  BY <1>2, ChunkFacts
<1>4. pc[r] = "priming" /\ UNCHANGED <<clientVars, streams, replayed>> /\ Respond(r)
  BY DEF PrimeAnswer
<1>5. CASE streams[r]
  <2>1. snapshot' = [snapshot EXCEPT ![r] = TRUE] /\ guard' = guard
    BY <1>5, <1>4 DEF Respond, Usage!Update
  <2>2. initial' = [initial EXCEPT ![r] = TRUE] /\ Goto(r, "streaming") /\ Tell(r, "head")
    BY <1>5, <1>4 DEF Respond
  <2>3. EndedOrStopped(c.pump) => Unharmed(c.pump)
    BY <1>1, <1>3 DEF Commits
  <2> QED BY <1>1, <1>3, <1>5, <1>4, <2>1, <2>2, <2>3 DEF Goto, Tell, clientVars, Labels, Wires
<1>6. CASE ~streams[r]
  <2>1. guard' = [guard EXCEPT ![r] = "completed"] /\ snapshot' = [snapshot EXCEPT ![r] = TRUE]
    BY <1>6, <1>4, Reporting DEF Respond
  <2>2. UNCHANGED initial /\ Goto(r, "over") /\ Tell(r, "complete")
    BY <1>6, <1>4 DEF Respond
  <2>3. Unharmed(c.pump)
    BY <1>1, <1>3, <1>6 DEF Commits
  <2> QED BY <1>1, <1>3, <1>6, <1>4, <2>1, <2>2, <2>3 DEF Goto, Tell, clientVars, Labels, Wires
<1> QED BY <1>5, <1>6

\* Reading on shows nothing when the request streams.
LEMMA PrimeOnGood ==
  ASSUME Typed, NEW r \in Requests, Local(r), PrimeOn(r) PROVE Good(r)
<1>1. PICK c \in Chunks(pump[r]) :
        c.kind = "events" /\ ~Commits(r, c) /\ pump' = [pump EXCEPT ![r] = c.pump]
  BY DEF PrimeOn
<1>2. pump[r] \in Pumps
  OBVIOUS
<1>3. /\ c.pump \in Pumps /\ c.pump.read /\ c.shown \in BOOLEAN
      /\ c.pump.started => pump[r].started \/ c.shown
  BY <1>2, ChunkFacts
<1> QED BY <1>1, <1>3 DEF PrimeOn, clientVars, limitVars, Commits, Usage!Update

\* A failed priming is told as an HTTP error.
LEMMA PrimeFailsGood ==
  ASSUME Typed, NEW r \in Requests, Local(r), PrimeFails(r) PROVE Good(r)
<1>1. PICK c \in Chunks(pump[r]) : pump' = [pump EXCEPT ![r] = c.pump]
  BY DEF PrimeFails
<1>2. pump[r] \in Pumps
  OBVIOUS
<1>3. c.pump \in Pumps /\ c.pump.read
  BY <1>2, ChunkFacts
<1>4. guard' = [guard EXCEPT ![r] = "failed"] /\ snapshot' = [snapshot EXCEPT ![r] = TRUE]
  BY Reporting DEF PrimeFails, Deny
<1> QED BY <1>1, <1>3, <1>4 DEF PrimeFails, Deny, Goto, Tell, clientVars, limitVars, Labels, Wires

\* So is a deadline that passes.
LEMMA PrimingTimeoutGood ==
  ASSUME Typed, NEW r \in Requests, Local(r), PrimingTimeout(r) PROVE Good(r)
<1> DEFINE p == [pump[r] EXCEPT !.broken = TRUE, !.read = TRUE]
<1>1. p \in Pumps /\ p.read
  BY CutOff
<1>2. pump' = [pump EXCEPT ![r] = p]
  BY DEF PrimingTimeout
<1>3. guard' = [guard EXCEPT ![r] = "failed"] /\ snapshot' = [snapshot EXCEPT ![r] = TRUE]
  BY Reporting DEF PrimingTimeout, Deny
<1> HIDE DEF p
<1> QED BY <1>1, <1>2, <1>3 DEF PrimingTimeout, Deny, Goto, Tell, clientVars, limitVars, Labels, Wires

\* A primed batch ends the body only if the pump had ended unharmed.
LEMMA YieldInitialGood ==
  ASSUME Typed, NEW r \in Requests, Local(r), YieldInitial(r) PROVE Good(r)
<1>1. CASE EndedOrStopped(pump[r])
  <2>1. /\ guard' = [guard EXCEPT ![r] = "completed"]
        /\ snapshot' = [snapshot EXCEPT ![r] = snapshot[r]]
    BY <1>1, Reporting DEF YieldInitial
  <2> QED BY <1>1, <2>1 DEF YieldInitial, Goto, Tell, clientVars, limitVars, Labels, Wires
<1>2. CASE ~EndedOrStopped(pump[r])
  BY <1>2 DEF YieldInitial, Goto, Tell, usageVars, clientVars, limitVars, Labels, Wires
<1> QED BY <1>1, <1>2

\* A later batch ends the body only if its read ended unharmed.
LEMMA YieldEventsGood ==
  ASSUME Typed, NEW r \in Requests, Local(r), YieldEvents(r) PROVE Good(r)
<1>1. PICK c \in Chunks(pump[r]) :
        /\ c.kind = "events"
        /\ pump' = [pump EXCEPT ![r] = c.pump]
        /\ IF EndedOrStopped(c.pump)
           THEN Report(r, "completed", TRUE) /\ Tell(r, "complete") /\ Goto(r, "finished")
           ELSE Usage!Update(r, TRUE) /\ UNCHANGED <<wire, pc>>
  BY DEF YieldEvents
<1>2. pump[r] \in Pumps
  OBVIOUS
<1>3. c.pump \in Pumps /\ c.pump.read /\ Unharmed(c.pump)
  BY <1>1, <1>2, ChunkFacts
<1>4. pc[r] = "streaming" /\ UNCHANGED <<clientVars, streams, replayed, initial>>
  BY DEF YieldEvents
<1>5. CASE EndedOrStopped(c.pump)
  <2>1. guard' = [guard EXCEPT ![r] = "completed"] /\ snapshot' = [snapshot EXCEPT ![r] = TRUE]
    BY <1>1, <1>5, <1>4, Reporting
  <2>2. Tell(r, "complete") /\ Goto(r, "finished")
    BY <1>1, <1>5
  <2> QED BY <1>1, <1>3, <1>4, <2>1, <2>2 DEF Goto, Tell, clientVars, Labels, Wires
<1>6. CASE ~EndedOrStopped(c.pump)
  <2>1. guard' = guard /\ snapshot' = [snapshot EXCEPT ![r] = TRUE] /\ wire' = wire /\ pc' = pc
    BY <1>1, <1>6 DEF Usage!Update
  <2> QED BY <1>1, <1>3, <1>6, <1>4, <2>1 DEF clientVars
<1> QED BY <1>5, <1>6

\* A failure ends the body with an error.
LEMMA YieldErrorGood ==
  ASSUME Typed, NEW r \in Requests, Local(r), YieldError(r) PROVE Good(r)
<1>1. PICK c \in Chunks(pump[r]) : pump' = [pump EXCEPT ![r] = c.pump]
  BY DEF YieldError
<1>2. pump[r] \in Pumps
  OBVIOUS
<1>3. c.pump \in Pumps /\ c.pump.read
  BY <1>2, ChunkFacts
<1>4. guard' = [guard EXCEPT ![r] = "failed"] /\ snapshot' = [snapshot EXCEPT ![r] = TRUE]
  BY Reporting DEF YieldError
<1> QED BY <1>1, <1>3, <1>4 DEF YieldError, Goto, Tell, clientVars, limitVars, Labels, Wires

\* Putting the request away changes nothing that was counted or told.
LEMMA BodyEndsGood ==
  ASSUME Typed, NEW r \in Requests, Local(r), BodyEnds(r) PROVE Good(r)
BY DEF BodyEnds, Goto, usageVars, clientVars, Labels

\* A client that goes away is counted as cancelled, unless it had its answer.
LEMMA DisconnectGood ==
  ASSUME Typed, NEW r \in Requests, Local(r), Disconnect(r) PROVE Good(r)
<1>1. CASE guard[r] = "open"
  <2>1. /\ guard' = [guard EXCEPT ![r] = "cancelled"]
        /\ snapshot' = [snapshot EXCEPT ![r] = snapshot[r]]
    BY <1>1, Reporting DEF Disconnect
  <2> QED BY <1>1, <2>1 DEF Disconnect, Goto, Tell, clientVars, limitVars, Labels, Wires
<1>2. CASE guard[r] # "open"
  <2>1. guard' = guard /\ snapshot' = snapshot
    BY <1>2, Ignoring DEF Disconnect
  <2> QED BY <1>2, <2>1 DEF Disconnect, Goto, Tell, clientVars, limitVars, Labels, Wires
<1> QED BY <1>1, <1>2

\* One step of generate() keeps the attempts within their budget.
LEMMA ClientStep ==
  ASSUME Typed, NEW r \in Requests, PostsInStep(r), Client!Step(r), replayed' = replayed,
         pc[r] = "generating", pc'[r] \notin {"idle", "arrived", "identity"}
  PROVE  /\ call' \in [Requests -> Client!Stages]
         /\ attempts' \in [Requests -> Nat] /\ progress' \in [Requests -> Nat]
         /\ refreshed' \in [Requests -> BOOLEAN]
         /\ PostsInStep(r)'
         /\ \A q \in Requests \ {r} :
              call'[q] = call[q] /\ attempts'[q] = attempts[q] /\ progress'[q] = progress[q]
<1> USE MessagesAssumption DEF MessagesAssumption, Client!Goto, Client!Stages, Client!Last
<1>1. CASE Client!Identified(r)       BY <1>1 DEF Client!Identified
<1>2. CASE Client!Authorized(r)       BY <1>2 DEF Client!Authorized
<1>3. CASE Client!Unauthenticated(r)  BY <1>3 DEF Client!Unauthenticated
<1>4. CASE Client!Accepted(r)         BY <1>4 DEF Client!Accepted, Client!Posted
<1>5. CASE Client!Unreachable(r)      BY <1>5 DEF Client!Unreachable, Client!Posted
<1>6. CASE Client!Redirected(r)       BY <1>6 DEF Client!Redirected, Client!Posted
<1>7. CASE Client!Answered(r)         BY <1>7 DEF Client!Answered, Client!Posted
<1>8. CASE Client!Retried(r)          BY <1>8 DEF Client!Retried
<1>9. CASE Client!Wake(r)             BY <1>9 DEF Client!Wake
<1>10. CASE Client!Forbidden(r)
  <2>1. CASE ~refreshed[r] /\ ~Client!Last(attempts[r])
    <3>1. /\ call' = [call EXCEPT ![r] = "identity"]
          /\ refreshed' = [refreshed EXCEPT ![r] = TRUE]
          /\ attempts' = attempts /\ progress' = progress /\ attempts[r] < MaxAttempts
      BY <1>10, <2>1 DEF Client!Forbidden
    <3> QED BY <3>1
  <2>2. CASE ~(~refreshed[r] /\ ~Client!Last(attempts[r]))
    <3>1. /\ call' = [call EXCEPT ![r] = "error"] /\ refreshed' = refreshed
          /\ attempts' = attempts /\ progress' = progress
      BY <1>10, <2>2 DEF Client!Forbidden
    <3> QED BY <3>1
  <2> QED BY <2>1, <2>2
<1>11. CASE Client!Refused(r)         BY <1>11 DEF Client!Refused
<1> QED
  BY <1>1, <1>2, <1>3, <1>4, <1>5, <1>6, <1>7, <1>8, <1>9, <1>10, <1>11 DEF Client!Step

\* generate() ends in a new pump, in an error, or goes on.
LEMMA GeneratingGood ==
  ASSUME Typed, NEW r \in Requests, Local(r), Generating(r) PROVE Good(r)
<1>1. /\ pc[r] = "generating" /\ Client!Step(r)
      /\ streams' = streams /\ replayed' = replayed /\ initial' = initial
  BY DEF Generating
<1>2. pc'[r] \notin {"idle", "arrived", "identity"}
  BY <1>1 DEF Generating, Deny, Goto
<1>3. /\ call' \in [Requests -> Client!Stages]
      /\ attempts' \in [Requests -> Nat] /\ progress' \in [Requests -> Nat]
      /\ refreshed' \in [Requests -> BOOLEAN]
      /\ PostsInStep(r)'
      /\ \A q \in Requests \ {r} :
           call'[q] = call[q] /\ attempts'[q] = attempts[q] /\ progress'[q] = progress[q]
  BY <1>1, <1>2, ClientStep
<1> USE <1>1, <1>3
<1>4. CASE call'[r] = "stream"
  <2>1. NewPump \in Pumps /\ NewPump.read = FALSE /\ NewPump.started = FALSE
    BY DEF NewPump, Pumps
  <2>2. /\ Goto(r, "priming") /\ pump' = [pump EXCEPT ![r] = NewPump]
        /\ UNCHANGED <<usageVars, wire>>
    BY <1>4 DEF Generating
  <2> QED BY <2>1, <2>2 DEF usageVars, Goto, Labels
<1>5. CASE call'[r] = "error"
  <2>1. Deny(r, snapshot[r]) /\ pump' = pump
    BY <1>5 DEF Generating
  <2>2. guard' = [guard EXCEPT ![r] = "failed"] /\ snapshot' = [snapshot EXCEPT ![r] = snapshot[r]]
    BY <2>1, Reporting DEF Deny
  <2> QED BY <2>1, <2>2 DEF Deny, Goto, Tell, Labels, Wires
<1>6. CASE call'[r] \notin {"stream", "error"}
  BY <1>6 DEF Generating, usageVars
<1> QED BY <1>4, <1>5, <1>6

HIDE DEF Typed, RestTyped, GuardsTyped, Local, InStage, PumpInStep, PostsInStep, Good,
         LeavesAlone

-----------------------------------------------------------------------------
(* All steps together.                                                     *)

\* The steps of one request.
Served(r) == Reject(r) \/ Arrive(r) \/ Handle(r) \/ Prime(r) \/ Body(r) \/ Disconnect(r)

\* Whatever a request does, it stays in step and leaves the others alone.
LEMMA ServedGood ==
  ASSUME Typed, NEW r \in Requests, Local(r), Served(r) PROVE Good(r)
BY RejectGood, ArriveGood, AcquireGood, TurnAwayGood, UnusableGood, BuiltGood, GeneratingGood,
   PrimingTimeoutGood, PrimeAnswerGood, PrimeOnGood, ReplayGood, PrimeFailsGood,
   YieldInitialGood, YieldEventsGood, YieldErrorGood, BodyEndsGood, DisconnectGood
   DEF Served, Handle, Prime, Body

\* A request that is left alone stays in step.
LEMMA AloneGood ==
  ASSUME NEW q \in Requests, Local(q), LeavesAlone(q) PROVE Local(q)'
BY DEF Local, LeavesAlone, InStage, PumpInStep, PostsInStep

\* The operations of the summary that a step may be.
UsageStep(r) ==
  \/ Usage!Begin(r)
  \/ \E outcome \in Usage!Outcomes, tokens \in BOOLEAN, n \in 0 .. (2 * MaxAttempts) :
       Usage!Transition(r, outcome, tokens, n)
  \/ \E tokens \in BOOLEAN : Usage!Update(r, tokens)
  \/ UNCHANGED usageVars

\* A report is a transition of the summary with a retry count it knows.
LEMMA ReportStep ==
  ASSUME NEW r \in Requests, NEW o \in Usage!Outcomes, NEW t \in BOOLEAN, Report(r, o, t),
         RestTyped', PostsInStep(r)'
  PROVE  UsageStep(r)
<1> DEFINE n == RetryCount(progress'[r])
<1>1. n \in 0 .. (2 * MaxAttempts)
  BY MessagesAssumption DEF MessagesAssumption, RetryCount, RestTyped, PostsInStep
<1>2. Usage!Transition(r, o, t, n)
  BY DEF Report
<1> HIDE DEF n
<1> QED BY <1>1, <1>2 DEF UsageStep

\* Every step is an operation of the summary, or none.
LEMMA ServedUsage ==
  ASSUME Typed, NEW r \in Requests, Served(r), Good(r)
  PROVE  UsageStep(r)
<1> USE DEF UsageStep
<1>1. RestTyped' /\ PostsInStep(r)' /\ snapshot[r] \in BOOLEAN
  BY DEF Good, Local, Typed, GuardsTyped
<1>2. ASSUME NEW o \in {"completed", "failed", "cancelled"}, NEW t \in BOOLEAN, Report(r, o, t)
      PROVE  UsageStep(r)
  BY <1>1, <1>2, ReportStep DEF Usage!Outcomes
<1>3. CASE Reject(r)         BY <1>3 DEF Reject
<1>4. CASE Arrive(r)         BY <1>4 DEF Arrive
<1>5. CASE Acquire(r)        BY <1>5 DEF Acquire
<1>6. CASE TurnAway(r)       BY <1>2, <1>6 DEF TurnAway
<1>7. CASE Unusable(r)       BY <1>2, <1>7 DEF Unusable, Deny
<1>8. CASE Built(r)          BY <1>8 DEF Built
<1>9. CASE Generating(r)     BY <1>1, <1>2, <1>9 DEF Generating, Deny
<1>10. CASE PrimeAnswer(r)   BY <1>2, <1>10 DEF PrimeAnswer, Respond
<1>11. CASE PrimeOn(r)       BY <1>11 DEF PrimeOn
<1>12. CASE Replay(r)        BY <1>12 DEF Replay
<1>13. CASE PrimeFails(r)    BY <1>2, <1>13 DEF PrimeFails, Deny
<1>14. CASE PrimingTimeout(r) BY <1>2, <1>14 DEF PrimingTimeout, Deny
<1>15. CASE YieldInitial(r)  BY <1>1, <1>2, <1>15 DEF YieldInitial
<1>16. CASE YieldEvents(r)   BY <1>2, <1>16 DEF YieldEvents
<1>17. CASE YieldError(r)    BY <1>2, <1>17 DEF YieldError
<1>18. CASE BodyEnds(r)      BY <1>18 DEF BodyEnds
<1>19. CASE Disconnect(r)    BY <1>1, <1>2, <1>19 DEF Disconnect
<1> QED BY <1>3, <1>4, <1>5, <1>6, <1>7, <1>8, <1>9, <1>10, <1>11, <1>12, <1>13, <1>14, <1>15,
           <1>16, <1>17, <1>18, <1>19 DEF Served, Handle, Prime, Body

-----------------------------------------------------------------------------
(* Sums over a finite set.                                                  *)

\* The element that MapThenSumSet takes out of s first.
First(s) == CHOOSE x \in s : TRUE

\* One turn of its recursion, for the numbers F and the partial sums it.
Turn(it, F, s) == IF s = {} THEN 0 ELSE F[First(s)] + it[s \ {First(s)}]

Sums(it, F, S) == it = [s \in SUBSET S |-> Turn(it, F, s)]

SumOf(F, S) == (CHOOSE it : Sums(it, F, S))[S]

\* Induction over the subsets of a finite set: Proved holds what satisfies the claim.
LEMMA BySubset ==
  ASSUME NEW S, IsFiniteSet(S), NEW Proved,
         \A s \in SUBSET S : (\A t \in SUBSET s : t # s => t \in Proved) => s \in Proved
  PROVE  SUBSET S \subseteq Proved
<1> DEFINE Bad == (SUBSET S) \ Proved
<1> SUFFICES ASSUME Bad # {}
             PROVE  FALSE
  OBVIOUS
<1>1. Bad \subseteq FiniteSubsetsOf(S)
  BY FS_Subset DEF FiniteSubsetsOf
<1> HIDE DEF Bad
<1>2. PICK least \in Bad : \A other \in Bad : ~ (<<other, least>> \in StrictSubsetOrdering(S))
  BY <1>1, FS_StrictSubsetOrderingWellFounded, WFMin
<1>3. least \in SUBSET S /\ least \notin Proved
  BY <1>2 DEF Bad
<1>4. ASSUME NEW t \in SUBSET least, t # least
      PROVE  t \in Proved
  <2>1. t \in SUBSET S /\ <<t, least>> \in StrictSubsetOrdering(S)
    BY <1>3, <1>4 DEF StrictSubsetOrdering
  <2>2. t \notin Bad
    BY <1>2, <2>1
  <2>3. QED
    BY <2>1, <2>2 DEF Bad
<1>5. QED
  BY <1>3, <1>4

\* What is taken out leaves a smaller set.
LEMMA FirstIs ==
  ASSUME NEW s, s # {}
  PROVE  First(s) \in s /\ s \ {First(s)} \in SUBSET s /\ s \ {First(s)} # s
<1>1. First(s) \in s
  BY DEF First
<1>2. QED
  BY <1>1

\* Two solutions of the recursion agree where both are defined.
LEMMA SumsAgree ==
  ASSUME NEW S, IsFiniteSet(S), NEW F, NEW a \in SUBSET S, NEW b \in SUBSET S,
         NEW f, NEW g, Sums(f, F, a), Sums(g, F, b)
  PROVE  \A s \in SUBSET a : s \in SUBSET b => f[s] = g[s]
<1> DEFINE Proved == {s \in SUBSET S : s \in SUBSET a /\ s \in SUBSET b => f[s] = g[s]}
<1>1. ASSUME NEW s \in SUBSET S, \A t \in SUBSET s : t # s => t \in Proved
      PROVE  s \in Proved
  <2>1. ASSUME s \in SUBSET a, s \in SUBSET b
        PROVE  f[s] = g[s]
    <3>1. f[s] = Turn(f, F, s) /\ g[s] = Turn(g, F, s)
      BY <2>1 DEF Sums
    <3>2. CASE s = {}
      BY <3>1, <3>2 DEF Turn
    <3>3. CASE s # {}
      <4> DEFINE t == s \ {First(s)}
      <4>1. t \in SUBSET s /\ t # s
        BY <3>3, FirstIs
      <4>2. t \in Proved /\ t \in SUBSET a /\ t \in SUBSET b
        BY <1>1, <2>1, <4>1
      <4>3. f[t] = g[t]
        BY <4>2
      <4>4. QED
        BY <3>1, <3>3, <4>3 DEF Turn
    <3>4. QED
      BY <3>2, <3>3
  <2>2. QED
    BY <2>1
<1> HIDE DEF Proved
<1>2. SUBSET S \subseteq Proved
  BY <1>1, BySubset
<1>3. ASSUME NEW s \in SUBSET a, s \in SUBSET b
      PROVE  f[s] = g[s]
  <2>1. s \in SUBSET S /\ s \in SUBSET a /\ s \in SUBSET b
    BY <1>3
  <2>2. s \in Proved
    BY <1>2, <2>1
  <2>3. QED
    BY <2>1, <2>2 DEF Proved
<1>4. QED
  BY <1>3

\* Two solutions for the same set have the same sum.
LEMMA SumsUnique ==
  ASSUME NEW S, IsFiniteSet(S), NEW F, NEW f, NEW g, Sums(f, F, S), Sums(g, F, S)
  PROVE  f[S] = g[S]
<1>1. S \in SUBSET S
  OBVIOUS
<1>2. QED
  BY <1>1, SumsAgree

\* There is a solution for every finite set.
LEMMA SumsExist ==
  ASSUME NEW S, IsFiniteSet(S), NEW F
  PROVE  \E it : Sums(it, F, S)
<1> DEFINE Proved    == {s \in SUBSET S : \E it : Sums(it, F, s)}
           Part(s) == CHOOSE it : Sums(it, F, s)
<1>1. ASSUME NEW s \in SUBSET S, \A t \in SUBSET s : t # s => t \in Proved
      PROVE  s \in Proved
  <2>1. \A t \in SUBSET s : t # s => Sums(Part(t), F, t)
    BY <1>1
  <2> HIDE DEF Part
  <2> DEFINE Sub(u) == u \ {First(u)}
             Next1(u) == IF u = {} THEN 0 ELSE F[First(u)] + Part(Sub(u))[Sub(u)]
             it == [u \in SUBSET s |-> Next1(u)]
  <2>2. ASSUME NEW u \in SUBSET s, u # {}
        PROVE  it[Sub(u)] = Part(Sub(u))[Sub(u)]
    <3> DEFINE v == Sub(u)
    <3>1. v \in SUBSET u /\ v # u
      BY <2>2, FirstIs
    <3>2. v \in SUBSET s /\ v # s
      BY <2>2, <3>1
    <3>3. it[v] = Next1(v)
      BY <3>2
    <3> HIDE DEF v, it
    <3>4. Sums(Part(v), F, v)
      BY <2>1, <3>2
    <3>5. Part(v)[v] = Turn(Part(v), F, v)
      BY <3>4 DEF Sums
    <3>6. CASE v = {}
      BY <3>3, <3>5, <3>6 DEF Turn, v
    <3>7. CASE v # {}
      <4> DEFINE w == Sub(v)
      <4>1. w \in SUBSET v /\ w # v
        BY <3>7, FirstIs
      <4>2. w \in SUBSET s /\ w # s
        BY <3>2, <4>1
      <4>3. Part(v)[v] = F[First(v)] + Part(v)[w]
        BY <3>5, <3>7 DEF Turn
      <4>4. it[v] = F[First(v)] + Part(w)[w]
        BY <3>3, <3>7
      <4> HIDE DEF w
      <4>5. Sums(Part(w), F, w)
        BY <2>1, <4>2
      <4>6. v \in SUBSET S /\ w \in SUBSET S
        BY <3>2, <4>2
      <4>7. w \in SUBSET v /\ w \in SUBSET w
        BY <4>1
      <4>8. \A x \in SUBSET v : x \in SUBSET w => Part(v)[x] = Part(w)[x]
        BY <3>4, <4>5, <4>6, SumsAgree
      <4>9. QED
        BY <4>3, <4>4, <4>7, <4>8 DEF v
    <3>8. QED
      BY <3>6, <3>7
  <2>3. ASSUME NEW u \in SUBSET s
        PROVE  Next1(u) = Turn(it, F, u)
    <3>1. CASE u = {}
      BY <3>1 DEF Turn
    <3>2. CASE u # {}
      <4>1. it[Sub(u)] = Part(Sub(u))[Sub(u)]
        BY <2>2, <3>2
      <4> HIDE DEF it
      <4>2. QED
        BY <3>2, <4>1 DEF Turn
    <3>3. QED
      BY <3>1, <3>2
  <2>4. it = [u \in SUBSET s |-> Turn(it, F, u)]
    <3> DEFINE T(u) == Turn(it, F, u)
    <3> HIDE DEF T, Next1
    <3>1. \A u \in SUBSET s : Next1(u) = T(u)
      BY <2>3 DEF T, Next1
    <3>2. [u \in SUBSET s |-> Next1(u)] = [u \in SUBSET s |-> T(u)]
      BY <3>1
    <3>3. QED
      BY <3>2 DEF T, Next1
  <2>5. Sums(it, F, s)
    BY <2>4 DEF Sums
  <2>6. QED
    BY <2>5
<1> HIDE DEF Proved
<1>2. SUBSET S \subseteq Proved
  BY <1>1, BySubset
<1>3. QED
  BY <1>2 DEF Proved

\* SumOf takes a solution.
LEMMA SumIs ==
  ASSUME NEW S, IsFiniteSet(S), NEW F
  PROVE  \E it : Sums(it, F, S) /\ SumOf(F, S) = it[S]
  BY SumsExist DEF SumOf

\* The sum of numbers is a number.
LEMMA SumNat ==
  ASSUME NEW S, IsFiniteSet(S), NEW F \in [S -> Nat], NEW it, Sums(it, F, S)
  PROVE  \A s \in SUBSET S : it[s] \in Nat
<1> DEFINE Proved == {s \in SUBSET S : it[s] \in Nat}
<1>1. ASSUME NEW s \in SUBSET S, \A t \in SUBSET s : t # s => t \in Proved
      PROVE  s \in Proved
  <2>1. it[s] = Turn(it, F, s)
    BY DEF Sums
  <2>2. CASE s = {}
    BY <2>1, <2>2 DEF Turn
  <2>3. CASE s # {}
    <3> DEFINE t == s \ {First(s)}
    <3>1. First(s) \in s /\ t \in SUBSET s /\ t # s
      BY <2>3, FirstIs
    <3>2. it[t] \in Nat /\ F[First(s)] \in Nat
      BY <1>1, <3>1
    <3>3. QED
      BY <2>1, <2>3, <3>2 DEF Turn
  <2>4. QED
    BY <2>2, <2>3
<1> HIDE DEF Proved
<1>2. SUBSET S \subseteq Proved
  BY <1>1, BySubset
<1>3. QED
  BY <1>2 DEF Proved

\* Nothing but zeros adds up to zero.
LEMMA SumZero ==
  ASSUME NEW S, IsFiniteSet(S), NEW F \in [S -> Nat], \A x \in S : F[x] = 0
  PROVE  SumOf(F, S) = 0
<1>1. PICK it : Sums(it, F, S) /\ SumOf(F, S) = it[S]
  BY SumIs
<1> DEFINE Proved == {s \in SUBSET S : it[s] = 0}
<1>2. ASSUME NEW s \in SUBSET S, \A t \in SUBSET s : t # s => t \in Proved
      PROVE  s \in Proved
  <2>1. it[s] = Turn(it, F, s)
    BY <1>1 DEF Sums
  <2>2. CASE s = {}
    BY <2>1, <2>2 DEF Turn
  <2>3. CASE s # {}
    <3> DEFINE t == s \ {First(s)}
    <3>1. First(s) \in s /\ t \in SUBSET s /\ t # s
      BY <2>3, FirstIs
    <3>2. it[t] = 0 /\ F[First(s)] = 0
      BY <1>2, <3>1
    <3>3. QED
      BY <2>1, <2>3, <3>2 DEF Turn
  <2>4. QED
    BY <2>2, <2>3
<1> HIDE DEF Proved
<1>3. SUBSET S \subseteq Proved
  BY <1>2, BySubset
<1>4. QED
  BY <1>1, <1>3 DEF Proved

\* One number changes, and the sum with it.
LEMMA SumChanges ==
  ASSUME NEW S, IsFiniteSet(S), NEW F \in [S -> Nat], NEW G \in [S -> Nat], NEW m \in S,
         \A x \in S \ {m} : G[x] = F[x]
  PROVE  SumOf(G, S) + F[m] = SumOf(F, S) + G[m]
<1>1. PICK f : Sums(f, F, S) /\ SumOf(F, S) = f[S]
  BY SumIs
<1>2. PICK g : Sums(g, G, S) /\ SumOf(G, S) = g[S]
  BY SumIs
<1>3. \A s \in SUBSET S : f[s] \in Nat /\ g[s] \in Nat
  BY <1>1, <1>2, SumNat
<1> DEFINE Proved == {s \in SUBSET S : IF m \in s THEN g[s] + F[m] = f[s] + G[m] ELSE g[s] = f[s]}
<1>4. ASSUME NEW s \in SUBSET S, \A t \in SUBSET s : t # s => t \in Proved
      PROVE  s \in Proved
  <2>1. f[s] = Turn(f, F, s) /\ g[s] = Turn(g, G, s)
    BY <1>1, <1>2 DEF Sums
  <2>2. CASE s = {}
    BY <2>1, <2>2 DEF Turn
  <2>3. CASE s # {}
    <3> DEFINE x == First(s)
               t == s \ {x}
    <3>1. x \in s /\ t \in SUBSET s /\ t # s
      BY <2>3, FirstIs
    <3>2. t \in Proved
      BY <1>4, <3>1
    <3>3. f[s] = F[x] + f[t] /\ g[s] = G[x] + g[t]
      BY <2>1, <2>3 DEF Turn
    <3>4. x \in S /\ t \in SUBSET S
      BY <3>1
    <3>5. /\ F[x] \in Nat /\ G[x] \in Nat /\ f[t] \in Nat /\ g[t] \in Nat
          /\ F[m] \in Nat /\ G[m] \in Nat
      BY <1>3, <3>4
    <3>6. m \in s <=> m = x \/ m \in t
      BY <3>1
    <3>7. x = m => m \notin t
      OBVIOUS
    <3>8. x # m => G[x] = F[x]
      BY <3>4
    <3>9. IF m \in t THEN g[t] + F[m] = f[t] + G[m] ELSE g[t] = f[t]
      BY <3>2
    <3> HIDE DEF x, t, Proved
    <3>10. CASE x = m
      <4>1. g[t] = f[t] /\ m \in s
        BY <3>6, <3>7, <3>9, <3>10
      <4>2. f[s] = F[m] + f[t] /\ g[s] = G[m] + f[t]
        BY <3>3, <3>10, <4>1
      <4>3. g[s] + F[m] = f[s] + G[m]
        BY <3>5, <4>2
      <4>4. QED
        BY <4>1, <4>3 DEF Proved
    <3>11. CASE x # m /\ m \in t
      <4>1. G[x] = F[x] /\ g[t] + F[m] = f[t] + G[m] /\ m \in s
        BY <3>6, <3>8, <3>9, <3>11
      <4>2. g[s] + F[m] = f[s] + G[m]
        BY <3>3, <3>5, <4>1
      <4>3. QED
        BY <4>1, <4>2 DEF Proved
    <3>12. CASE x # m /\ m \notin t
      <4>1. G[x] = F[x] /\ g[t] = f[t] /\ m \notin s
        BY <3>6, <3>8, <3>9, <3>12
      <4>2. g[s] = f[s]
        BY <3>3, <4>1
      <4>3. QED
        BY <4>1, <4>2 DEF Proved
    <3>13. QED
      BY <3>10, <3>11, <3>12
  <2>4. QED
    BY <2>2, <2>3
<1> HIDE DEF Proved
<1>5. SUBSET S \subseteq Proved
  BY <1>4, BySubset
<1>6. g[S] + F[m] = f[S] + G[m]
  BY <1>5 DEF Proved
<1>7. QED
  BY <1>1, <1>2, <1>6

-----------------------------------------------------------------------------
(* The counters of the summary.                                           *)

\* The larger of 0 and what is left after a decrement.
LEMMA Saturating ==
  ASSUME NEW n \in Nat
  PROVE  Usage!Max({0, n - 1}) = IF n = 0 THEN 0 ELSE n - 1
<1> DEFINE S == {0, n - 1}
           m == IF n = 0 THEN 0 ELSE n - 1
<1>1. m \in S /\ \A y \in S : m >= y
  OBVIOUS
<1>2. \A x \in S : (\A y \in S : x >= y) => x = m
  OBVIOUS
<1> QED BY <1>1, <1>2 DEF Usage!Max

\* The columns of the summary.
Columns == {"started", "inFlight", "completed", "failed", "cancelled", "tokens", "retries"}

\* What a row of counters is made of.
LEMMA RowHasColumns ==
  ASSUME NEW c \in Usage!Counts
  PROVE  DOMAIN c = Columns /\ \A f \in Columns : c[f] \in Nat
BY DEF Usage!Counts, Columns

\* What begin() adds to a column of any row, and what terminal() adds.
AddedByBegin(f) == IF f \in {"started", "inFlight"} THEN 1 ELSE 0

AddedByEnd(f, outcome, tokens, retries) ==
  IF f = "inFlight" THEN -1
  ELSE IF f = outcome THEN 1
  ELSE IF f = "tokens" /\ tokens THEN 1
  ELSE IF f = "retries" THEN retries
  ELSE 0

\* What begin() leaves.
LEMMA StartedCounts ==
  ASSUME NEW c \in Usage!Counts
  PROVE  /\ Usage!Started(c) \in Usage!Counts
         /\ Usage!Started(c).inFlight = c.inFlight + 1
         /\ Usage!Balances(c) => Usage!Balances(Usage!Started(c))
         /\ \A f \in Columns : Usage!Started(c)[f] = c[f] + AddedByBegin(f)
<1> DEFINE in  == c.started + 1
           now == c.inFlight + 1
           e   == Usage!Started(c)
<1>1. in \in Nat /\ now \in Nat
  BY DEF Usage!Counts
<1>2. e = [c EXCEPT !.started = in, !.inFlight = now]
  BY DEF Usage!Started
<1> HIDE DEF e, in, now
<1>3. e \in Usage!Counts
  BY <1>1, <1>2 DEF Usage!Counts
<1>4. /\ e.started = in /\ e.inFlight = now
      /\ e.completed = c.completed /\ e.failed = c.failed /\ e.cancelled = c.cancelled
      /\ e.tokens = c.tokens /\ e.retries = c.retries
  BY <1>1, <1>2 DEF Usage!Counts
<1>5. ASSUME NEW f \in Columns
      PROVE  e[f] = c[f] + AddedByBegin(f)
  BY <1>4 DEF Columns, AddedByBegin, Usage!Counts, in, now
<1> QED BY <1>3, <1>4, <1>5 DEF Usage!Balances, Usage!Counts, in, now, e

\* What terminal() leaves of counters that have something in flight.
LEMMA EndedCounts ==
  ASSUME NEW c \in Usage!Counts, c.inFlight > 0,
         NEW outcome \in Usage!Outcomes, NEW tokens \in BOOLEAN, NEW retries \in Nat
  PROVE  /\ Usage!Ended(c, outcome, tokens, retries) \in Usage!Counts
         /\ Usage!Ended(c, outcome, tokens, retries).inFlight = c.inFlight - 1
         /\ Usage!Balances(c) => Usage!Balances(Usage!Ended(c, outcome, tokens, retries))
         /\ \A f \in Columns : Usage!Ended(c, outcome, tokens, retries)[f]
                                 = c[f] + AddedByEnd(f, outcome, tokens, retries)
<1> DEFINE done  == IF outcome = "completed" THEN 1 ELSE 0
           fail  == IF outcome = "failed" THEN 1 ELSE 0
           gone  == IF outcome = "cancelled" THEN 1 ELSE 0
           shown == IF tokens THEN 1 ELSE 0
           now   == c.inFlight - 1
           cs    == c.completed + done
           fs    == c.failed + fail
           gs    == c.cancelled + gone
           ts    == c.tokens + shown
           rs    == c.retries + retries
           e     == Usage!Ended(c, outcome, tokens, retries)
<1>1. c.inFlight \in Nat /\ Usage!Max({0, c.inFlight - 1}) = now
  BY Saturating DEF Usage!Counts
<1>2. /\ done \in Nat /\ fail \in Nat /\ gone \in Nat /\ shown \in Nat
      /\ done + fail + gone = 1
  BY DEF Usage!Outcomes
<1>3. /\ e = [c EXCEPT !.inFlight = now, !.completed = cs, !.failed = fs,
                       !.cancelled = gs, !.tokens = ts, !.retries = rs]
  BY <1>1 DEF Usage!Ended
<1> HIDE DEF done, fail, gone, shown
<1>4. /\ now \in Nat /\ cs \in Nat /\ fs \in Nat /\ gs \in Nat /\ ts \in Nat /\ rs \in Nat
  BY <1>1, <1>2 DEF Usage!Counts
<1> HIDE DEF now, cs, fs, gs, ts, rs, e
<1>5. e \in Usage!Counts
  BY <1>3, <1>4 DEF Usage!Counts
<1>6. /\ e.started = c.started /\ e.inFlight = now
      /\ e.completed = cs /\ e.failed = fs /\ e.cancelled = gs
      /\ e.tokens = ts /\ e.retries = rs
  BY <1>3, <1>4 DEF Usage!Counts
<1>7. Usage!Balances(c) => Usage!Balances(e)
  BY <1>2, <1>6 DEF Usage!Balances, Usage!Counts, now, cs, fs, gs
<1>8. ASSUME NEW f \in Columns
      PROVE  e[f] = c[f] + AddedByEnd(f, outcome, tokens, retries)
  BY <1>1, <1>6 DEF Columns, AddedByEnd, Usage!Outcomes, Usage!Counts, now, cs, fs, gs, ts, rs,
                    done, fail, gone, shown
<1> QED BY <1>5, <1>6, <1>7, <1>8 DEF e, now

-----------------------------------------------------------------------------
(* The rows.                                                               *)

\* A column of the rows of the models.
Column(f) == [m \in Models |-> models[m][f]]

\* RowsAddUp, with sums that can be reasoned about.
RowsInv == \A f \in Columns : total[f] = SumOf(Column(f), Models)

\* What MapThenSumSet adds up is SumOf.
LEMMA SumOfColumn ==
  ASSUME NEW f
  PROVE  Usage!MapThenSumSet(LAMBDA m : models[m][f], Models) = SumOf(Column(f), Models)
<1> DEFINE Step(it, s) == IF s = {} THEN 0 ELSE models[First(s)][f] + it[s \ {First(s)}]
           sums        == CHOOSE it : it = [s \in SUBSET Models |-> Step(it, s)]
<1>1. Usage!MapThenSumSet(LAMBDA m : models[m][f], Models) = sums[Models]
  BY DEF Usage!MapThenSumSet, Usage!MapThenFoldSet, First
<1>2. ASSUME NEW it, NEW s \in SUBSET Models
      PROVE  Step(it, s) = Turn(it, Column(f), s)
  <2>1. CASE s = {}
    BY <2>1 DEF Turn
  <2>2. CASE s # {}
    <3>1. First(s) \in Models
      BY <2>2, FirstIs
    <3> QED BY <2>2, <3>1 DEF Turn, Column
  <2> QED BY <2>1, <2>2
<1> HIDE DEF Step
<1>3. ASSUME NEW it
      PROVE  it = [s \in SUBSET Models |-> Step(it, s)] <=> Sums(it, Column(f), Models)
  <2>1. [s \in SUBSET Models |-> Step(it, s)] = [s \in SUBSET Models |-> Turn(it, Column(f), s)]
    BY <1>2
  <2> QED BY <2>1 DEF Sums
<1>4. PICK it : Sums(it, Column(f), Models) /\ SumOf(Column(f), Models) = it[Models]
  BY MessagesAssumption, SumIs DEF MessagesAssumption
<1>5. it = [s \in SUBSET Models |-> Step(it, s)]
  BY <1>3, <1>4
<1>6. sums = [s \in SUBSET Models |-> Step(sums, s)]
  BY <1>5
<1>7. Sums(sums, Column(f), Models)
  BY <1>3, <1>6
<1> HIDE DEF sums
<1>8. IsFiniteSet(Models)
  BY MessagesAssumption DEF MessagesAssumption
<1>9. Sums(it, Column(f), Models)
  BY <1>4
<1>10. sums[Models] = it[Models]
  BY <1>7, <1>8, <1>9, SumsUnique
<1> QED BY <1>1, <1>4, <1>10

\* So the rows add up.
LEMMA RowsInvAddsUp ==
  ASSUME Usage!TypeOK, RowsInv
  PROVE  Usage!RowsAddUp
<1>1. DOMAIN total = Columns
  BY RowHasColumns DEF Usage!TypeOK
<1>2. ASSUME NEW f \in Columns
      PROVE  total[f] = Usage!MapThenSumSet(LAMBDA m : models[m][f], Models)
  BY <1>2, SumOfColumn DEF RowsInv
<1> QED BY <1>1, <1>2 DEF Usage!RowsAddUp

\* A step that adds the same to a column of the process and of one model.
LEMMA RowChanges ==
  ASSUME Usage!TypeOK, RowsInv, NEW k \in Models, NEW K \in Usage!Counts, NEW T \in Usage!Counts,
         models' = [models EXCEPT ![k] = K], total' = T,
         \A f \in Columns : T[f] - total[f] = K[f] - models[k][f]
  PROVE  RowsInv'
<1> USE MessagesAssumption DEF MessagesAssumption
<1>1. SUFFICES ASSUME NEW f \in Columns
               PROVE  total'[f] = SumOf(Column(f)', Models)
  BY DEF RowsInv
<1> DEFINE F == Column(f)
           G == Column(f)'
<1>2. models \in [Models -> Usage!Counts] /\ models' \in [Models -> Usage!Counts] /\ models'[k] = K
  BY DEF Usage!TypeOK
<1>3. \A m \in Models : models[m][f] \in Nat /\ models'[m][f] \in Nat
  BY <1>2, RowHasColumns
<1>4. F \in [Models -> Nat] /\ G \in [Models -> Nat]
  BY <1>3 DEF Column
<1>5. \A m \in Models \ {k} : G[m] = F[m]
  BY <1>2 DEF Usage!TypeOK, Column
<1>6. F[k] = models[k][f] /\ G[k] = K[f]
  BY <1>2 DEF Column
<1>7. total[f] \in Nat /\ T[f] \in Nat /\ T[f] - total[f] = G[k] - F[k] /\ total[f] = SumOf(F, Models)
  BY <1>6, RowHasColumns DEF RowsInv, Usage!TypeOK
<1> HIDE DEF F, G
<1>8. SumOf(G, Models) + F[k] = SumOf(F, Models) + G[k]
  BY <1>4, <1>5, SumChanges
<1>9. SumOf(G, Models) \in Nat
  BY <1>4, SumIs, SumNat
<1>10. F[k] \in Nat /\ G[k] \in Nat
  BY <1>4
<1>11. T[f] = SumOf(G, Models)
  BY <1>7, <1>8, <1>9, <1>10
<1> QED BY <1>11 DEF G

-----------------------------------------------------------------------------
(* The steps of the summary.                                               *)

\* The requests in flight for a model.
OpenOf(m) == {r \in Usage!Open : model[r] = m}

\* InFlightIsOpen, with the cardinality that the library's theorems are about.
OpenInv ==
  /\ total.inFlight = Cardinality(Usage!Open)
  /\ \A m \in Models : models[m].inFlight = Cardinality(OpenOf(m))

\* They say the same.
LEMMA OpenInvSays == OpenInv <=> Usage!InFlightIsOpen
BY DEF OpenInv, OpenOf, Usage!InFlightIsOpen, Usage!Cardinality, Cardinality, Usage!IsFiniteSet,
       IsFiniteSet

\* The summary's invariant.
CountInv == Usage!TypeOK /\ Usage!Balanced /\ OpenInv /\ RowsInv

\* An open guard is counted, so a request that reports finds its counters
\* positive.
LEMMA OpenIsCounted ==
  ASSUME IsFiniteSet(Requests), CountInv, NEW r \in Requests, guard[r] = "open"
  PROVE  total.inFlight > 0 /\ models[model[r]].inFlight > 0
<1>1. IsFiniteSet(Usage!Open) /\ IsFiniteSet(OpenOf(model[r]))
  BY FS_Subset DEF Usage!Open, OpenOf
<1>2. r \in Usage!Open /\ r \in OpenOf(model[r])
  BY DEF Usage!Open, OpenOf
<1>3. Cardinality(Usage!Open) \in Nat \ {0} /\ Cardinality(OpenOf(model[r])) \in Nat \ {0}
  BY <1>1, <1>2, FS_CardinalityType, FS_EmptySet
<1>4. model[r] \in Models
  BY DEF CountInv, Usage!TypeOK
<1> QED BY <1>3, <1>4 DEF CountInv, OpenInv, OpenOf

\* Counting a request in.
LEMMA BeginKeeps ==
  ASSUME IsFiniteSet(Requests), CountInv, NEW r \in Requests, Usage!Begin(r)
  PROVE  CountInv'
<1> DEFINE k == model[r]
           T == Usage!Started(total)
           K == Usage!Started(models[k])
<1>1. k \in Models /\ total \in Usage!Counts /\ models[k] \in Usage!Counts
  BY DEF CountInv, Usage!TypeOK
<1>2. /\ models' = [models EXCEPT ![k] = K] /\ total' = T
      /\ guard' = [guard EXCEPT ![r] = "open"] /\ model' = model /\ snapshot' = snapshot
  BY DEF Usage!Begin
<1>3. /\ T \in Usage!Counts /\ T.inFlight = total.inFlight + 1
      /\ Usage!Balances(total) => Usage!Balances(T)
      /\ \A f \in Columns : T[f] = total[f] + AddedByBegin(f)
  BY <1>1, StartedCounts
<1>4. /\ K \in Usage!Counts /\ K.inFlight = models[k].inFlight + 1
      /\ Usage!Balances(models[k]) => Usage!Balances(K)
      /\ \A f \in Columns : K[f] = models[k][f] + AddedByBegin(f)
  BY <1>1, StartedCounts
<1> HIDE DEF T, K
<1>5. Usage!TypeOK'
  BY <1>1, <1>2, <1>3, <1>4 DEF CountInv, Usage!TypeOK
<1>6. Usage!Balanced'
  BY <1>1, <1>2, <1>3, <1>4 DEF CountInv, Usage!TypeOK, Usage!Balanced
<1>7. r \notin Usage!Open /\ Usage!Open' = Usage!Open \cup {r}
  BY <1>2 DEF Usage!Begin, CountInv, Usage!TypeOK, Usage!Open
<1>8. IsFiniteSet(Usage!Open) /\ \A m \in Models : IsFiniteSet(OpenOf(m))
  BY FS_Subset DEF Usage!Open, OpenOf
<1>9. total'.inFlight = Cardinality(Usage!Open')
  <2>1. Cardinality(Usage!Open \cup {r}) = Cardinality(Usage!Open) + 1
    BY <1>7, <1>8, FS_AddElement
  <2>2. total.inFlight = Cardinality(Usage!Open)
    BY DEF CountInv, OpenInv
  <2> QED BY <1>2, <1>3, <1>7, <2>1, <2>2
<1>10. ASSUME NEW m \in Models PROVE models'[m].inFlight = Cardinality(OpenOf(m)')
  <2>1. models[m].inFlight = Cardinality(OpenOf(m))
    BY DEF CountInv, OpenInv, OpenOf
  <2>2. CASE m = k
    <3>1. OpenOf(m)' = OpenOf(m) \cup {r} /\ r \notin OpenOf(m)
      BY <1>2, <1>7, <2>2 DEF OpenOf
    <3>2. Cardinality(OpenOf(m) \cup {r}) = Cardinality(OpenOf(m)) + 1
      BY <1>8, <3>1, FS_AddElement
    <3>3. models'[m] = K
      BY <1>2, <2>2 DEF CountInv, Usage!TypeOK
    <3> QED BY <1>4, <2>1, <2>2, <3>1, <3>2, <3>3
  <2>3. CASE m # k
    <3>1. OpenOf(m)' = OpenOf(m)
      BY <1>2, <1>7, <2>3 DEF OpenOf
    <3> QED BY <1>1, <1>2, <2>1, <2>3, <3>1 DEF CountInv, Usage!TypeOK
  <2> QED BY <2>2, <2>3
<1>11. RowsInv'
  <2>1. \A f \in Columns : T[f] - total[f] = K[f] - models[k][f]
    BY <1>1, <1>3, <1>4, RowHasColumns DEF AddedByBegin
  <2> QED BY <1>1, <1>2, <1>3, <1>4, <2>1, RowChanges DEF CountInv
<1> QED BY <1>5, <1>6, <1>9, <1>10, <1>11 DEF CountInv, OpenInv, OpenOf

\* Counting a request out, once.
LEMMA TransitionKeeps ==
  ASSUME IsFiniteSet(Requests), CountInv, NEW r \in Requests,
         NEW outcome \in Usage!Outcomes, NEW tokens \in BOOLEAN, NEW retries \in Nat,
         Usage!Transition(r, outcome, tokens, retries)
  PROVE  CountInv'
<1>1. CASE guard[r] # "open"
  BY <1>1 DEF Usage!Transition, Usage!vars, CountInv, Usage!TypeOK, Usage!Balanced,
              OpenInv, OpenOf, Usage!Open, RowsInv, Column
<1>2. CASE guard[r] = "open"
  <2> DEFINE k == model[r]
             T == Usage!Ended(total, outcome, tokens, retries)
             K == Usage!Ended(models[k], outcome, tokens, retries)
  <2>1. k \in Models /\ total \in Usage!Counts /\ models[k] \in Usage!Counts
    BY DEF CountInv, Usage!TypeOK
  <2>2. /\ models' = [models EXCEPT ![k] = K] /\ total' = T
        /\ guard' = [guard EXCEPT ![r] = outcome] /\ model' = model
        /\ snapshot' = [snapshot EXCEPT ![r] = tokens]
    BY <1>2 DEF Usage!Transition
  <2>3. total.inFlight > 0 /\ models[k].inFlight > 0
    BY <1>2, OpenIsCounted
  <2>4. /\ T \in Usage!Counts /\ T.inFlight = total.inFlight - 1
        /\ Usage!Balances(total) => Usage!Balances(T)
        /\ \A f \in Columns : T[f] = total[f] + AddedByEnd(f, outcome, tokens, retries)
    BY <2>1, <2>3, EndedCounts
  <2>5. /\ K \in Usage!Counts /\ K.inFlight = models[k].inFlight - 1
        /\ Usage!Balances(models[k]) => Usage!Balances(K)
        /\ \A f \in Columns : K[f] = models[k][f] + AddedByEnd(f, outcome, tokens, retries)
    BY <2>1, <2>3, EndedCounts
  <2> HIDE DEF T, K
  <2>6. Usage!TypeOK'
    BY <2>1, <2>2, <2>4, <2>5 DEF CountInv, Usage!TypeOK
  <2>7. Usage!Balanced'
    BY <2>1, <2>2, <2>4, <2>5 DEF CountInv, Usage!TypeOK, Usage!Balanced
  <2>8. r \in Usage!Open /\ Usage!Open' = Usage!Open \ {r}
    BY <1>2, <2>2 DEF CountInv, Usage!TypeOK, Usage!Open, Usage!Outcomes
  <2>9. IsFiniteSet(Usage!Open) /\ \A m \in Models : IsFiniteSet(OpenOf(m))
    BY FS_Subset DEF Usage!Open, OpenOf
  <2>10. total'.inFlight = Cardinality(Usage!Open')
    BY <2>2, <2>4, <2>8, <2>9, FS_RemoveElement DEF CountInv, OpenInv
  <2>11. ASSUME NEW m \in Models PROVE models'[m].inFlight = Cardinality(OpenOf(m)')
    <3>1. models[m].inFlight = Cardinality(OpenOf(m))
      BY DEF CountInv, OpenInv, OpenOf
    <3>2. CASE m = k
      <4>1. OpenOf(m)' = OpenOf(m) \ {r} /\ r \in OpenOf(m)
        BY <2>2, <2>8, <3>2 DEF OpenOf
      <4>2. Cardinality(OpenOf(m) \ {r}) = Cardinality(OpenOf(m)) - 1
        BY <2>9, <4>1, FS_RemoveElement
      <4>3. models'[m] = K
        BY <2>2, <3>2 DEF CountInv, Usage!TypeOK
      <4> QED BY <2>5, <3>1, <3>2, <4>1, <4>2, <4>3
    <3>3. CASE m # k
      <4>1. OpenOf(m)' = OpenOf(m)
        BY <2>2, <2>8, <3>3 DEF OpenOf
      <4> QED BY <2>2, <3>1, <3>3, <4>1 DEF CountInv, Usage!TypeOK
    <3> QED BY <3>2, <3>3
  <2>12. RowsInv'
    <3>1. \A f \in Columns : T[f] - total[f] = K[f] - models[k][f]
      <4>1. \A f \in Columns : AddedByEnd(f, outcome, tokens, retries) \in Int
        BY DEF AddedByEnd
      <4> QED BY <2>1, <2>4, <2>5, <4>1, RowHasColumns
    <3> QED BY <2>1, <2>2, <2>4, <2>5, <3>1, RowChanges DEF CountInv
  <2> QED BY <2>6, <2>7, <2>10, <2>11, <2>12 DEF CountInv, OpenInv, OpenOf
<1> QED BY <1>1, <1>2

\* Replacing a snapshot counts nothing.
LEMMA UpdateKeeps ==
  ASSUME CountInv, NEW r \in Requests, NEW tokens \in BOOLEAN, Usage!Update(r, tokens)
  PROVE  CountInv'
BY DEF Usage!Update, CountInv, Usage!TypeOK, Usage!Balanced, OpenInv, OpenOf, Usage!Open,
       RowsInv, Column

\* Nothing is counted at first.
LEMMA InitCounts == Usage!Init => CountInv
<1> SUFFICES ASSUME Usage!Init PROVE CountInv
  OBVIOUS
<1>1. Usage!NoCounts \in Usage!Counts /\ Usage!NoCounts.inFlight = 0 /\ Usage!Balances(Usage!NoCounts)
  BY DEF Usage!NoCounts, Usage!Counts, Usage!Balances
<1>2. Usage!Open = {} /\ \A m \in Models : {r \in Usage!Open : model[r] = m} = {}
  BY DEF Usage!Init, Usage!Open
<1>3. RowsInv
  <2>1. ASSUME NEW f \in Columns
        PROVE  total[f] = SumOf(Column(f), Models)
    <3>1. Usage!NoCounts[f] = 0
      BY DEF Usage!NoCounts, Columns
    <3>2. Column(f) \in [Models -> Nat] /\ \A m \in Models : Column(f)[m] = 0
      BY <3>1 DEF Usage!Init, Column
    <3>3. SumOf(Column(f), Models) = 0
      BY <3>2, SumZero, MessagesAssumption DEF MessagesAssumption
    <3> QED BY <3>1, <3>3 DEF Usage!Init
  <2> QED BY <2>1 DEF RowsInv
<1> QED BY <1>1, <1>2, <1>3, FS_EmptySet DEF Usage!Init, CountInv, Usage!TypeOK, Usage!Balanced,
                                             OpenInv, OpenOf

\* Every step of the handler keeps the summary's invariant.
LEMMA SummaryStep ==
  ASSUME CountInv, NEW r \in Requests, UsageStep(r)
  PROVE  CountInv'
<1> USE MessagesAssumption DEF MessagesAssumption
<1>1. CASE Usage!Begin(r)
  BY <1>1, BeginKeeps
<1>2. ASSUME NEW o \in Usage!Outcomes, NEW t \in BOOLEAN, NEW n \in 0 .. (2 * MaxAttempts),
             Usage!Transition(r, o, t, n)
      PROVE  CountInv'
  BY <1>2, TransitionKeeps
<1>3. ASSUME NEW t \in BOOLEAN, Usage!Update(r, t) PROVE CountInv'
  BY <1>3, UpdateKeeps
<1>4. CASE UNCHANGED usageVars
  BY <1>4 DEF usageVars, CountInv, Usage!TypeOK, Usage!Balanced, OpenInv, OpenOf, Usage!Open,
              RowsInv, Column
<1> QED BY <1>1, <1>2, <1>3, <1>4 DEF UsageStep

-----------------------------------------------------------------------------
(* The permits.                                                            *)

\* PermitsConserved, with the types it needs.
PermitsKept ==
  /\ permits \in 0 .. MaxConcurrent /\ holders \subseteq Requests
  /\ permits + Cardinality(holders) = MaxConcurrent
  /\ \A r \in Requests : r \in holders <=> pc[r] \in Owning

\* What a step does with its request's permit.
Takes(r) ==
  /\ permits > 0 /\ permits' = permits - 1 /\ holders' = holders \cup {r}
  /\ pc[r] \notin Owning /\ pc'[r] \in Owning

Returns(r) == Release(r) /\ pc[r] \in Owning /\ pc'[r] \notin Owning

Keeps(r) == UNCHANGED limitVars /\ (pc[r] \in Owning <=> pc'[r] \in Owning)

\* Every step takes the permit, returns it, or leaves it where it is.
LEMMA ServedPermits ==
  ASSUME Typed, NEW r \in Requests, Served(r)
  PROVE  Takes(r) \/ Returns(r) \/ Keeps(r)
<1> USE DEF Typed, RestTyped, Goto, Owning, Takes, Returns, Keeps
<1>1. CASE Reject(r)          BY <1>1 DEF Reject
<1>2. CASE Arrive(r)          BY <1>2 DEF Arrive
<1>3. CASE Acquire(r)         BY <1>3 DEF Acquire
<1>4. CASE TurnAway(r)        BY <1>4 DEF TurnAway
<1>5. CASE Unusable(r)        BY <1>5 DEF Unusable, Deny
<1>6. CASE Built(r)           BY <1>6 DEF Built
<1>7. CASE Generating(r)      BY <1>7 DEF Generating, Deny
<1>8. CASE PrimeAnswer(r)     BY <1>8 DEF PrimeAnswer, Respond
<1>9. CASE PrimeOn(r)         BY <1>9 DEF PrimeOn
<1>10. CASE Replay(r)         BY <1>10 DEF Replay
<1>11. CASE PrimeFails(r)     BY <1>11 DEF PrimeFails, Deny
<1>12. CASE PrimingTimeout(r) BY <1>12 DEF PrimingTimeout, Deny
<1>13. CASE YieldInitial(r)   BY <1>13 DEF YieldInitial
<1>14. CASE YieldEvents(r)    BY <1>14 DEF YieldEvents
<1>15. CASE YieldError(r)     BY <1>15 DEF YieldError
<1>16. CASE BodyEnds(r)       BY <1>16 DEF BodyEnds
<1>17. CASE Disconnect(r)     BY <1>17 DEF Disconnect
<1> QED BY <1>1, <1>2, <1>3, <1>4, <1>5, <1>6, <1>7, <1>8, <1>9, <1>10, <1>11, <1>12, <1>13, <1>14,
           <1>15, <1>16, <1>17 DEF Served, Handle, Prime, Body

\* However a step treats the permit, none is lost and none is doubled.
LEMMA PermitsStep ==
  ASSUME PermitsKept, NEW r \in Requests, Takes(r) \/ Returns(r) \/ Keeps(r),
         \A q \in Requests \ {r} : pc'[q] = pc[q]
  PROVE  PermitsKept'
<1>1. IsFiniteSet(holders) /\ Cardinality(holders) \in Nat /\ MaxConcurrent \in Nat
  BY MessagesAssumption, FS_Subset, FS_CardinalityType DEF MessagesAssumption, PermitsKept
<1>2. CASE Takes(r)
  <2>1. r \notin holders
    BY <1>2 DEF Takes, PermitsKept
  <2>2. Cardinality(holders \cup {r}) = Cardinality(holders) + 1
    BY <1>1, <2>1, FS_AddElement
  <2> QED BY <1>1, <1>2, <2>2 DEF Takes, PermitsKept
<1>3. CASE Returns(r)
  <2>1. r \in holders
    BY <1>3 DEF Returns, PermitsKept
  <2>2. Cardinality(holders \ {r}) = Cardinality(holders) - 1 /\ Cardinality(holders \ {r}) \in Nat
    BY <1>1, <2>1, FS_RemoveElement, FS_CardinalityType
  <2> QED BY <1>1, <1>3, <2>2 DEF Returns, Release, PermitsKept
<1>4. CASE Keeps(r)
  BY <1>4 DEF Keeps, limitVars, PermitsKept
<1> QED BY <1>2, <1>3, <1>4

-----------------------------------------------------------------------------
(* The invariant.                                                          *)

\* The inductive invariant.
IInv == CountInv /\ RestTyped /\ PermitsKept /\ \A r \in Requests : Local(r)

\* The summary's type says what the stages need to know of the guards.
LEMMA GuardTypes == CountInv => GuardsTyped
BY DEF CountInv, Usage!TypeOK, Usage!Outcomes, GuardsTyped

\* It holds before the first request.
LEMMA InitInv == Init => IInv
<1> SUFFICES ASSUME Init PROVE IInv
  OBVIOUS
<1> USE MessagesAssumption DEF MessagesAssumption, Init
<1>1. CountInv
  BY InitCounts
<1>2. NewPump \in Pumps
  BY DEF NewPump, Pumps
<1>3. RestTyped
  BY <1>2 DEF RestTyped, Client!Init, Client!Stages, Labels, Wires
<1>4. PermitsKept
  BY FS_EmptySet DEF PermitsKept, Owning
<1>5. ASSUME NEW r \in Requests PROVE Local(r)
  <2>1. NewPump.read = FALSE /\ NewPump.started = FALSE /\ Unharmed(NewPump)
    BY DEF NewPump, Unharmed
  <2>2. /\ guard[r] = "none" /\ snapshot[r] = FALSE /\ pc[r] = "idle" /\ wire[r] = "nothing"
        /\ pump[r] = NewPump /\ call[r] = "idle" /\ attempts[r] = 0 /\ progress[r] = 0
        /\ replayed[r] = FALSE
    BY DEF Usage!Init, Client!Init
  <2>3. InStage(r)
    BY <2>2 DEF InStage
  <2>4. PumpInStep(r)
    BY <2>1, <2>2 DEF PumpInStep
  <2>5. PostsInStep(r)
    BY <2>2 DEF PostsInStep
  <2> QED BY <2>3, <2>4, <2>5 DEF Local
<1> QED BY <1>1, <1>3, <1>4, <1>5 DEF IInv

\* Every step keeps it.
LEMMA NextInv == IInv /\ [Next \/ Done]_vars => IInv'
<1> SUFFICES ASSUME IInv, [Next \/ Done]_vars PROVE IInv'
  OBVIOUS
<1>1. CASE UNCHANGED vars
  BY <1>1 DEF vars, usageVars, clientVars, limitVars, IInv, CountInv, Usage!TypeOK, Usage!Balanced,
              OpenInv, OpenOf, Usage!Open, RowsInv, Column, RestTyped, PermitsKept, Local, InStage, PumpInStep,
              PostsInStep
<1>2. ASSUME NEW r \in Requests, Served(r) PROVE IInv'
  <2>1. Typed
    BY GuardTypes DEF IInv, Typed
  <2>2. Good(r)
    BY <1>2, <2>1, ServedGood DEF IInv
  <2>3. CountInv'
    BY <1>2, <2>1, <2>2, ServedUsage, SummaryStep DEF IInv
  <2>4. PermitsKept'
    BY <1>2, <2>1, <2>2, ServedPermits, PermitsStep DEF IInv, Good, LeavesAlone
  <2>5. ASSUME NEW q \in Requests PROVE Local(q)'
    BY <2>2, AloneGood DEF IInv, Good
  <2> QED BY <2>2, <2>3, <2>4, <2>5 DEF IInv, Good
<1>3. CASE Next \/ Done
  BY <1>1, <1>2, <1>3 DEF Next, Done, Served
<1> QED BY <1>1, <1>3

\* The invariant holds throughout.
LEMMA Invariance == Spec => []IInv
BY InitInv, NextInv, PTL DEF Spec

-----------------------------------------------------------------------------
(* The theorems.                                                           *)

\* Every variable keeps its type, for any number of requests, models, permits
\* and attempts.
THEOREM TypeCorrect == Spec => []TypeOK
<1>1. IInv => TypeOK
  BY DEF IInv, TypeOK, RestTyped, PermitsKept, CountInv
<1> QED BY <1>1, Invariance, PTL

\* No path of the handler, of the body or of their destructors leaks a permit
\* or returns one twice.
THEOREM PermitsAreConserved == Spec => []PermitsConserved
<1>1. IInv => PermitsConserved
  BY DEF IInv, PermitsKept, PermitsConserved, Owning
<1> QED BY <1>1, Invariance, PTL

\* On every path the outcome counted is the one the client was told.
THEOREM OutcomesAreHonest == Spec => []OutcomeIsHonest
<1>1. IInv => OutcomeIsHonest
  BY DEF IInv, RestTyped, Labels, Local, InStage, PumpInStep, Unharmed, OutcomeIsHonest
<1> QED BY <1>1, Invariance, PTL

\* The tokens counted are those of the final attempt.
THEOREM SnapshotsAreCurrent == Spec => []SnapshotIsCurrent
<1>1. IInv => SnapshotIsCurrent
  BY DEF IInv, Local, PumpInStep, SnapshotIsCurrent
<1> QED BY <1>1, Invariance, PTL

\* The replay and the client's retries together post at most 2 * MaxAttempts
\* times.
THEOREM PostsAreBounded == Spec => []PostsBounded
<1>1. IInv => PostsBounded
  BY MessagesAssumption DEF MessagesAssumption, IInv, RestTyped, Local, PostsInStep, PostsBounded
<1> QED BY <1>1, Invariance, PTL

\* Only Replay replays.
LEMMA OnlyReplay ==
  ASSUME Typed, NEW r \in Requests, Local(r), Served(r), replayed'[r], ~replayed[r]
  PROVE  wire[r] = "nothing" /\ (streams[r] => ~pump[r].started)
<1>1. Replay(r)
  BY DEF Served, Handle, Prime, Body, Reject, Arrive, Acquire, TurnAway, Unusable, Built, Generating,
         PrimingTimeout, PrimeAnswer, PrimeOn, PrimeFails, YieldInitial, YieldEvents, YieldError,
         BodyEnds, Disconnect
<1> QED BY <1>1 DEF Replay, Local, InStage, PumpInStep

\* A request that has had its last word can only be put away.
LEMMA OnlyPutAway ==
  ASSUME Typed, NEW r \in Requests, Served(r), pc[r] \in {"finished", "over"}
  PROVE  wire'[r] = wire[r] /\ pc'[r] = "over"
<1>1. BodyEnds(r) \/ Disconnect(r)
  BY DEF Served, Handle, Prime, Body, Reject, Arrive, Acquire, TurnAway, Unusable, Built, Generating,
         PrimingTimeout, PrimeAnswer, PrimeOn, Replay, PrimeFails, YieldInitial, YieldEvents,
         YieldError
<1> QED BY <1>1 DEF BodyEnds, Disconnect, Goto, Typed, RestTyped

\* The last word is said in a request that is finished or over.
LEMMA LastWordStage ==
  ASSUME RestTyped, NEW r \in Requests, Local(r), wire[r] \in {"complete", "errored", "http_error"}
  PROVE  pc[r] \in {"finished", "over"}
BY DEF RestTyped, Labels, Local, InStage

\* A replay is decided on before the client has received anything.
THEOREM ReplaysAreUnseen == Spec => ReplayIsUnseen
<1>1. IInv /\ [Next \/ Done]_vars =>
        [ \A r \in Requests : replayed'[r] /\ ~replayed[r] =>
            wire[r] = "nothing" /\ (streams[r] => ~pump[r].started) ]_vars
  <2> SUFFICES ASSUME IInv, Next \/ Done, NEW q \in Requests, replayed'[q], ~replayed[q]
               PROVE  wire[q] = "nothing" /\ (streams[q] => ~pump[q].started)
    OBVIOUS
  <2>1. PICK r \in Requests : Served(r)
    BY DEF Next, Done, Served, vars
  <2>2. Typed /\ Good(r)
    BY <2>1, GuardTypes, ServedGood DEF IInv, Typed
  <2>3. q = r
    BY <2>2 DEF Good, LeavesAlone
  <2> QED BY <2>1, <2>2, <2>3, OnlyReplay DEF IInv
<1> QED BY <1>1, Invariance, PTL DEF Spec, ReplayIsUnseen

\* After a complete message or an error the client is told nothing else.
THEOREM LastWordsAreLast == Spec => LastWordIsLast
<1>1. IInv /\ [Next \/ Done]_vars =>
        [ \A r \in Requests :
            wire[r] \in {"complete", "errored", "http_error"} =>
              wire'[r] = wire[r] /\ pc'[r] \in {"finished", "over"} ]_vars
  <2> SUFFICES ASSUME IInv, Next \/ Done, NEW q \in Requests,
                      wire[q] \in {"complete", "errored", "http_error"}
               PROVE  wire'[q] = wire[q] /\ pc'[q] \in {"finished", "over"}
    OBVIOUS
  <2>1. Typed /\ pc[q] \in {"finished", "over"}
    BY GuardTypes, LastWordStage DEF IInv, Typed
  <2>2. CASE Done
    BY <2>1, <2>2 DEF Done, vars
  <2>3. CASE Next
    <3>1. PICK r \in Requests : Served(r)
      BY <2>3 DEF Next, Served
    <3>2. Good(r)
      BY <2>1, <3>1, ServedGood DEF IInv
    <3>3. CASE q = r
      BY <2>1, <3>1, <3>3, OnlyPutAway
    <3>4. CASE q # r
      BY <2>1, <3>2, <3>4 DEF Good, LeavesAlone
    <3> QED BY <3>3, <3>4
  <2> QED BY <2>2, <2>3
<1> QED BY <1>1, Invariance, PTL DEF Spec, LastWordIsLast

\* The summary is always balanced: what is counted in is counted out once,
\* what is shown in flight is in flight, and the rows of the models add up to
\* the row of the process.
THEOREM SummaryStaysConsistent == Spec => []SummaryConsistent
<1>1. IInv => SummaryConsistent
  BY RowsInvAddsUp, OpenInvSays DEF IInv, CountInv, SummaryConsistent
<1> QED BY <1>1, Invariance, PTL

\* And so it stays in whatever order the summary's operations are called,
\* from here or from anywhere else.
THEOREM SummaryIsConsistent ==
  Usage!Spec => [](Usage!TypeOK /\ Usage!Balanced /\ Usage!InFlightIsOpen /\ Usage!RowsAddUp)
<1> USE MessagesAssumption DEF MessagesAssumption
<1>1. CountInv /\ [Usage!Next]_(Usage!vars) => CountInv'
  <2> SUFFICES ASSUME CountInv, [Usage!Next]_(Usage!vars) PROVE CountInv'
    OBVIOUS
  <2>1. CASE UNCHANGED Usage!vars
    BY <2>1 DEF Usage!vars, CountInv, Usage!TypeOK, Usage!Balanced, OpenInv, OpenOf, Usage!Open,
                RowsInv, Column
  <2>2. CASE Usage!Next
    BY <2>2, BeginKeeps, TransitionKeeps, UpdateKeeps DEF Usage!Next
  <2> QED BY <2>1, <2>2
<1>2. CountInv => Usage!TypeOK /\ Usage!Balanced /\ Usage!InFlightIsOpen /\ Usage!RowsAddUp
  BY RowsInvAddsUp, OpenInvSays DEF CountInv
<1> QED BY InitCounts, <1>1, <1>2, PTL DEF Usage!Spec

\* The handler uses the summary as UsageSummary says it may be used.
THEOREM UsesSummary == Spec => Usage!Spec
<1>1. Init => Usage!Init
  BY DEF Init
<1>2. IInv /\ [Next \/ Done]_vars => [Usage!Next]_(Usage!vars)
  <2> SUFFICES ASSUME IInv, [Next \/ Done]_vars PROVE [Usage!Next]_(Usage!vars)
    OBVIOUS
  <2>1. CASE UNCHANGED vars \/ Done
    BY <2>1 DEF Done, vars, usageVars, Usage!vars
  <2>2. CASE Next
    <3>1. PICK r \in Requests : Served(r)
      BY <2>2 DEF Next, Served
    <3>2. Typed /\ Good(r)
      BY <3>1, GuardTypes, ServedGood DEF IInv, Typed
    <3>3. UsageStep(r)
      BY <3>1, <3>2, ServedUsage
    <3> QED BY <3>3 DEF UsageStep, Usage!Next, usageVars, Usage!vars
  <2> QED BY <2>1, <2>2
<1> QED BY <1>1, <1>2, Invariance, PTL DEF Spec, Usage!Spec
=============================================================================

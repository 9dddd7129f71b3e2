-------------------------------- MODULE Serve --------------------------------
(***************************************************************************)
(* kiro-trust serve (serve.rs, token.rs): from the credential check to the *)
(* end of the drain, with the listener (GuardedListener).  Two instances   *)
(* may be started with the same configuration, as in a restart: they share *)
(* the listen address and the token file.                                  *)
(***************************************************************************)
EXTENDS GuardedListener

VARIABLES
  pc,       \* where run() stands
  wrote,    \* wrote_file
  file      \* whose token the token file holds

vars == <<listenerVars, pc, wrote, file>>

Init ==
  /\ ListenerInit
  /\ pc = [p \in Instances |-> "off"]
  /\ wrote = [p \in Instances |-> FALSE]
  /\ file = Nobody

Goto(p, label) == pc' = [pc EXCEPT ![p] = label]

Listening(p) == pc[p] \in {"bound", "serving", "signalled"}

\* remove_token_file, if this instance wrote it; it is not asked whose it is.
Remove(p) == file' = IF wrote[p] THEN Nobody ELSE file

\* The connections and the listener of an instance go with it.
Vanish(p) ==
  /\ conn' = [c \in Connections |-> IF Open(c) /\ conn[c].owner = p THEN Away ELSE conn[c]]
  /\ acceptor' = [acceptor EXCEPT ![p] = "off"]
  /\ free' = [free EXCEPT ![p] = MaxConnections]

-----------------------------------------------------------------------------
(* Starting.                                                               *)

\* No credential: nothing has been written or bound.
Refuse(p) ==
  /\ pc[p] = "off"
  /\ Goto(p, "ended")
  /\ UNCHANGED <<listenerVars, wrote, file>>

\* An explicit token needs no file.
StartExplicit(p) ==
  /\ pc[p] = "off"
  /\ Goto(p, "salting")
  /\ UNCHANGED <<listenerVars, wrote, file>>

\* The file is written aside and renamed over whatever was there.
WriteToken(p) ==
  /\ pc[p] = "off"
  /\ wrote' = [wrote EXCEPT ![p] = TRUE]
  /\ file' = p
  /\ Goto(p, "salting")
  /\ UNCHANGED listenerVars

Salted(p) ==
  /\ pc[p] = "salting"
  /\ Goto(p, "binding")
  /\ UNCHANGED <<listenerVars, wrote, file>>

Unsalted(p) ==
  /\ pc[p] = "salting"
  /\ Remove(p)
  /\ Goto(p, "ended")
  /\ UNCHANGED <<listenerVars, wrote>>

Bind(p) ==
  /\ pc[p] = "binding"
  /\ \A q \in Instances : ~Listening(q)
  /\ Goto(p, "bound")
  /\ UNCHANGED <<listenerVars, wrote, file>>

\* A failure that leaves the file behind.
BindFailsKeeping(p) ==
  /\ pc[p] = "binding"
  /\ Goto(p, "ended")
  /\ UNCHANGED <<listenerVars, wrote, file>>

\* The address is taken, by the other instance or by a stranger.
BindFails(p) ==
  /\ pc[p] = "binding"
  /\ Remove(p)
  /\ Goto(p, "ended")
  /\ UNCHANGED <<listenerVars, wrote>>

\* The first poll of axum::serve: the signal handlers are installed with the
\* first poll of the shutdown future, and the accept loop begins.
BeginServing(p) ==
  /\ pc[p] = "bound"
  /\ Goto(p, "serving")
  /\ Await(p, "waiting")
  /\ UNCHANGED <<free, conn, wrote, file>>

-----------------------------------------------------------------------------
(* Stopping.                                                               *)

\* SIGINT or SIGTERM: the shutdown future removes the file and starts the
\* clock of the drain.
Signal(p) ==
  /\ pc[p] = "serving"
  /\ Remove(p)
  /\ Goto(p, "signalled")
  /\ UNCHANGED <<listenerVars, wrote>>

\* Then axum leaves its accept loop, whatever accept() was waiting for, and
\* drops the listener.
StopAccepting(p) ==
  /\ pc[p] = "signalled"
  /\ Goto(p, "draining")
  /\ IF acceptor[p] = "holding" THEN Return(p) ELSE UNCHANGED free
  /\ Await(p, "off")
  /\ UNCHANGED <<conn, wrote, file>>

\* serve returns once the last connection is gone, and run removes the file
\* a second time.
Drained(p) ==
  /\ pc[p] = "draining"
  /\ Owned(p) = {}
  /\ Goto(p, "returned")
  /\ UNCHANGED <<listenerVars, wrote, file>>

Finish(p) ==
  /\ pc[p] = "returned"
  /\ Remove(p)
  /\ Goto(p, "ended")
  /\ UNCHANGED <<listenerVars, wrote>>

\* A drain that waits for the accept loop only.
DrainDeadlineEarly(p) ==
  /\ pc[p] = "signalled"
  /\ Vanish(p)
  /\ Goto(p, "ended")
  /\ UNCHANGED <<wrote, file>>

\* Ten seconds after the signal the process exits, whatever is still open.
DrainDeadline(p) ==
  /\ pc[p] \in {"signalled", "draining", "returned"}
  /\ Vanish(p)
  /\ Goto(p, "ended")
  /\ UNCHANGED <<wrote, file>>

\* SIGKILL or a crash; also SIGINT and SIGTERM as long as nothing handles
\* them.  Nothing is cleaned up.
Die(p) ==
  /\ pc[p] \notin {"off", "ended", "killed"}
  /\ Vanish(p)
  /\ Goto(p, "killed")
  /\ UNCHANGED <<wrote, file>>

-----------------------------------------------------------------------------
Starting(p) ==
  \/ Refuse(p) \/ StartExplicit(p) \/ WriteToken(p) \/ Salted(p) \/ Unsalted(p)
  \/ Bind(p) \/ BindFails(p) \/ BeginServing(p)

Stopping(p) ==
  Signal(p) \/ StopAccepting(p) \/ Drained(p) \/ Finish(p) \/ DrainDeadline(p) \/ Die(p)

\* The accept loop runs until it is left.
Listen(p) ==
  /\ pc[p] \in {"serving", "signalled"}
  /\ Accepting(p)
  /\ UNCHANGED <<pc, wrote, file>>

Connected(c) == Serving(c) /\ UNCHANGED <<pc, wrote, file>>

\* Everything has ended.
Over == (\A p \in Instances : pc[p] \in {"ended", "killed"}) /\ UNCHANGED vars

Next ==
  \/ \E p \in Instances : Starting(p) \/ Stopping(p) \/ Listen(p)
  \/ \E c \in Connections : Connected(c)
  \/ Over

Spec == Init /\ [][Next]_vars

\* The timers run and the runtime polls what is ready; nothing is assumed of
\* clients, of the operator or of the handlers.
Fairness ==
  /\ \A p \in Instances : WF_vars(StopAccepting(p)) /\ WF_vars(DrainDeadline(p))
  /\ \A c \in Connections : /\ WF_vars(Elapse(c) /\ UNCHANGED <<pc, wrote, file>>)
                            /\ WF_vars(Cut(c) /\ UNCHANGED <<pc, wrote, file>>)

FairSpec == Spec /\ Fairness
-----------------------------------------------------------------------------
Places == {"off", "salting", "binding", "bound", "serving", "signalled", "draining",
           "returned", "ended", "killed"}

\* Types; in particular the semaphore never lends what it does not have.
TypeOK ==
  /\ free \in [Instances -> 0 .. MaxConnections]
  /\ acceptor \in [Instances -> {"off", "waiting", "holding", "pausing"}]
  /\ conn \in [Connections -> ConnectionStates]
  /\ pc \in [Instances -> Places]
  /\ wrote \in [Instances -> BOOLEAN]
  /\ file \in Instances \cup {Nobody}

\* No permit is lost or doubled, whether accept fails, is abandoned in the
\* middle by the shutdown, or a connection is cut, closed or drained: each is
\* free, in the hand of accept() or in an open connection.
ConnectionsBounded ==
  \A p \in Instances :
    free[p] + Cardinality(Owned(p)) + (IF acceptor[p] = "holding" THEN 1 ELSE 0)
      = MaxConnections

\* A connection whose first request was parsed is never cut, however long its
\* answer takes and however late its next request comes.
ServedIsNeverCut == \A c \in Connections : conn[c].stage = "cut" => ~conn[c].served

\* No client can read a valid token while its instance drains (section 4.1), and
\* one that failed to start or has shut down leaves no token of its own behind,
\* even if another instance came between; only a killed one does.
NoTokenLeft ==
  \A p \in Instances : pc[p] \in {"signalled", "draining", "returned", "ended"} => file # p

\* A signalled instance ends, although connections may stay open for ever.
SignalEnds ==
  \A p \in Instances : pc[p] = "signalled" ~> pc[p] \in {"ended", "killed"}

\* A connection that never completes a request does not hold its permit for
\* ever, silent or trickling.
HalfOpenEnds == \A c \in Connections : Open(c) /\ conn[c].armed ~> ~(Open(c) /\ conn[c].armed)

\* The second removal of the token file is harmless (serve.rs:156): it never
\* takes away the token of another instance.
SecondRemovalHarmless ==
  [][\A p \in Instances :
       pc[p] = "returned" /\ pc'[p] = "ended" => file \in {p, Nobody} \/ file' = file]_vars
==============================================================================

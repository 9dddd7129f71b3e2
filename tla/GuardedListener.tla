--------------------------- MODULE GuardedListener ---------------------------
(***************************************************************************)
(* The listener of the server (listener.rs), with as much of axum's accept *)
(* loop and of hyper as it needs: a permit is taken before a connection is *)
(* accepted and lives as long as the connection; a connection is cut if    *)
(* its first request is not complete in time, and never after that.        *)
(*                                                                         *)
(* Every instance of the server has a listener of its own.  A connection   *)
(* is a record: whose it is, whether the header deadline is armed and has  *)
(* passed, whether a complete request waits to be read (sent) or is being  *)
(* handled (busy), and whether one ever was (served).                      *)
(***************************************************************************)
EXTENDS Integers, FiniteSets

CONSTANTS
  Instances,        \* the instances of the server
  Connections,      \* the connections that clients may open
  MaxConnections,   \* MAX_CONNECTIONS
  Nobody            \* the owner of what is nobody's

ASSUME ListenerAssumption ==
  /\ IsFiniteSet(Connections)
  /\ MaxConnections \in Nat \ {0}
  /\ Nobody \notin Instances

VARIABLES
  free,        \* the free permits of the semaphore
  acceptor,    \* where accept() stands
  conn         \* the connections

listenerVars == <<free, acceptor, conn>>

Stages == {"away", "open", "cut"}

ConnectionStates ==
  [owner : Instances \cup {Nobody}, stage : Stages, armed : BOOLEAN, elapsed : BOOLEAN,
   sent : BOOLEAN, busy : BOOLEAN, served : BOOLEAN]

Away == [owner |-> Nobody, stage |-> "away", armed |-> FALSE, elapsed |-> FALSE,
         sent |-> FALSE, busy |-> FALSE, served |-> FALSE]

Fresh(p) == [Away EXCEPT !.owner = p, !.stage = "open", !.armed = TRUE]

Open(c) == conn[c].stage = "open"

Owned(p) == {c \in Connections : Open(c) /\ conn[c].owner = p}

ListenerInit ==
  /\ free = [p \in Instances |-> MaxConnections]
  /\ acceptor = [p \in Instances |-> "off"]
  /\ conn = [c \in Connections |-> Away]

Await(p, what) == acceptor' = [acceptor EXCEPT ![p] = what]

Return(p) == free' = [free EXCEPT ![p] = @ + 1]

-----------------------------------------------------------------------------
(* accept().                                                               *)

TakePermit(p) ==
  /\ acceptor[p] = "waiting"
  /\ free[p] > 0
  /\ free' = [free EXCEPT ![p] = @ - 1]
  /\ Await(p, "holding")
  /\ UNCHANGED conn

\* The permit moves into the connection, which is spawned; the loop goes on.
Accept(p, c) ==
  /\ acceptor[p] = "holding"
  /\ conn[c] = Away
  /\ conn' = [conn EXCEPT ![c] = Fresh(p)]
  /\ Await(p, "waiting")
  /\ UNCHANGED free

\* An error path that forgets the permit.
AcceptFailsKeeping(p) ==
  /\ acceptor[p] = "holding"
  /\ Await(p, "waiting") \/ Await(p, "pausing")
  /\ UNCHANGED <<free, conn>>

\* accept fails, and is tried again at once or after a second.
AcceptFails(p) ==
  /\ acceptor[p] = "holding"
  /\ Return(p)
  /\ Await(p, "waiting") \/ Await(p, "pausing")
  /\ UNCHANGED conn

Resume(p) ==
  /\ acceptor[p] = "pausing"
  /\ Await(p, "waiting")
  /\ UNCHANGED <<free, conn>>

-----------------------------------------------------------------------------
(* A connection.                                                           *)

\* The client's bytes complete a request; anything short of that, however
\* much of it trickles in, changes nothing.
Send(c) ==
  /\ Open(c) /\ ~conn[c].sent /\ ~conn[c].busy
  /\ conn' = [conn EXCEPT ![c].sent = TRUE]
  /\ UNCHANGED <<free, acceptor>>

\* HEADER_READ_TIMEOUT passes.
Elapse(c) ==
  /\ Open(c) /\ conn[c].armed /\ ~conn[c].elapsed
  /\ conn' = [conn EXCEPT ![c].elapsed = TRUE]
  /\ UNCHANGED <<free, acceptor>>

TimedOut(c) == conn[c].armed /\ conn[c].elapsed

\* A request that leaves the deadline armed.
ParseArmed(c) ==
  /\ Open(c) /\ conn[c].sent /\ ~TimedOut(c)
  /\ conn' = [conn EXCEPT ![c].sent = FALSE, ![c].busy = TRUE, ![c].served = TRUE]
  /\ UNCHANGED <<free, acceptor>>

\* One poll of the connection reads the request, parses it and enters the
\* router, where headers_received disarms the deadline.
Parse(c) ==
  /\ Open(c) /\ conn[c].sent /\ ~TimedOut(c)
  /\ conn' = [conn EXCEPT ![c].sent = FALSE, ![c].busy = TRUE, ![c].served = TRUE,
                          ![c].armed = FALSE]
  /\ UNCHANGED <<free, acceptor>>

\* A deadline that is looked at only when there is something to read.
CutOnData(c) ==
  /\ Open(c) /\ TimedOut(c) /\ conn[c].sent
  /\ conn' = [conn EXCEPT ![c].stage = "cut"]
  /\ Return(conn[c].owner)
  /\ UNCHANGED acceptor

\* poll_read looks at the deadline first, even if a request has arrived.
Cut(c) ==
  /\ Open(c) /\ TimedOut(c)
  /\ conn' = [conn EXCEPT ![c].stage = "cut"]
  /\ Return(conn[c].owner)
  /\ UNCHANGED acceptor

\* The response is complete; the connection is kept alive.
Answer(c) ==
  /\ Open(c) /\ conn[c].busy
  /\ conn' = [conn EXCEPT ![c].busy = FALSE]
  /\ UNCHANGED <<free, acceptor>>

\* Dropping GuardedIo returns the permit.
Drop(c) ==
  /\ Open(c)
  /\ conn' = [conn EXCEPT ![c] = Away]
  /\ Return(conn[c].owner)
  /\ UNCHANGED acceptor

\* The client learns that it was cut, and may come again.
Notice(c) ==
  /\ conn[c].stage = "cut"
  /\ conn' = [conn EXCEPT ![c] = Away]
  /\ UNCHANGED <<free, acceptor>>

Accepting(p) ==
  \/ TakePermit(p) \/ AcceptFails(p) \/ Resume(p)
  \/ \E c \in Connections : Accept(p, c)

\* What a connection does by itself; the client may leave at any time.
Serving(c) ==
  \/ Send(c) \/ Elapse(c) \/ Parse(c) \/ Cut(c) \/ Answer(c) \/ Drop(c) \/ Notice(c)
==============================================================================

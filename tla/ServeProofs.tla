---------------------------- MODULE ServeProofs ----------------------------
(***************************************************************************)
(* What Serve guarantees for any number of instances, connections and      *)
(* permits.                                                                *)
(*                                                                         *)
(* The permits: each step moves one of them at most, between the semaphore,*)
(* the hand of accept() and a connection, so that their sum per instance   *)
(* stays; an instance whose accept loop is not running holds none in its   *)
(* hand (OffUnlessServing), which is what lets it start afresh.  The       *)
(* deadline: a served connection is disarmed (Disarmed).  The token file:  *)
(* it is only ever the file of an instance that wrote it and has neither   *)
(* been signalled nor ended (TokenOwned).                                  *)
(***************************************************************************)
EXTENDS Serve, FiniteSetTheorems, TLAPS

Typed ==
  /\ free \in [Instances -> Nat]
  /\ acceptor \in [Instances -> {"off", "waiting", "holding", "pausing"}]
  /\ conn \in [Connections -> ConnectionStates]
  /\ pc \in [Instances -> Places]
  /\ wrote \in [Instances -> BOOLEAN]
  /\ file \in Instances \cup {Nobody}

\* A permit in the hand of accept().
Held(p) == IF acceptor[p] = "holding" THEN 1 ELSE 0

Balanced(p) == free[p] + Cardinality(Owned(p)) + Held(p) = MaxConnections

OffUnlessServing ==
  \A p \in Instances : acceptor[p] # "off" => pc[p] \in {"serving", "signalled"}

\* Open connections have an owner; a deadline that is armed has never been met.
Disarmed ==
  \A c \in Connections :
    /\ Open(c) => conn[c].owner \in Instances
    /\ conn[c].served => ~conn[c].armed /\ conn[c].stage # "cut"

TokenOwned ==
  \A p \in Instances :
    /\ file = p => wrote[p] /\ pc[p] \in {"salting", "binding", "bound", "serving", "killed"}
    /\ wrote[p] => pc[p] # "off"

IInv ==
  /\ Typed
  /\ \A p \in Instances : Balanced(p)
  /\ OffUnlessServing
  /\ Disarmed
  /\ TokenOwned

-----------------------------------------------------------------------------
(* Counting connections.                                                   *)

\* The connections an instance owns can be counted.
LEMMA OwnedSize ==
  ASSUME NEW p
  PROVE  IsFiniteSet(Owned(p)) /\ Cardinality(Owned(p)) \in Nat
<1>1. Owned(p) \subseteq Connections
  BY DEF Owned
<1>2. IsFiniteSet(Owned(p))
  BY <1>1, FS_Subset, ListenerAssumption DEF ListenerAssumption
<1> QED
  BY <1>2, FS_CardinalityType

\* The same connections, one more, one less.
LEMMA OneMore ==
  ASSUME NEW p, NEW c \in Connections, ~Open(c), Owned(p)' = Owned(p) \cup {c}
  PROVE  Cardinality(Owned(p))' = Cardinality(Owned(p)) + 1
<1>1. c \notin Owned(p)
  BY DEF Owned
<1> QED
  BY <1>1, OwnedSize, FS_AddElement

\* A connection gone is one less.
LEMMA OneLess ==
  ASSUME NEW p, NEW c \in Owned(p), Owned(p)' = Owned(p) \ {c}
  PROVE  Cardinality(Owned(p))' = Cardinality(Owned(p)) - 1
BY OwnedSize, FS_RemoveElement

\* Steps of the listener that move no connection.
LEMMA SameOwned ==
  ASSUME UNCHANGED conn
  PROVE  \A p : Owned(p)' = Owned(p)
BY DEF Owned, Open

\* A step of a connection that changes neither its stage nor its owner.
LEMMA StayingOwned ==
  ASSUME NEW c \in Connections, conn \in [Connections -> ConnectionStates],
         NEW r \in ConnectionStates, conn' = [conn EXCEPT ![c] = r],
         r.stage = conn[c].stage, r.owner = conn[c].owner
  PROVE  \A p : Owned(p)' = Owned(p)
<1>1. \A d \in Connections : conn'[d].stage = conn[d].stage /\ conn'[d].owner = conn[d].owner
  OBVIOUS
<1> QED
  BY <1>1 DEF Owned, Open

-----------------------------------------------------------------------------
(* Starting and stopping without a step of the listener.                   *)

Quiet(p) ==
  \/ Refuse(p) \/ StartExplicit(p) \/ WriteToken(p) \/ Salted(p) \/ Unsalted(p)
  \/ Bind(p) \/ BindFails(p) \/ Signal(p) \/ Drained(p) \/ Finish(p)

\* Steps of the life cycle that touch no listener keep IInv.
LEMMA QuietKeeps ==
  ASSUME IInv, NEW p \in Instances, Quiet(p)
  PROVE  IInv'
<1>1. UNCHANGED listenerVars
  BY DEF Quiet, Refuse, StartExplicit, WriteToken, Salted, Unsalted, Bind, BindFails, Signal,
         Drained, Finish
<1>2. Typed'
  BY <1>1, ListenerAssumption
  DEF ListenerAssumption, IInv, Typed, listenerVars, Quiet, Refuse, StartExplicit, WriteToken,
      Salted, Unsalted, Bind, BindFails, Signal, Drained, Finish, Goto, Remove, Places
<1>3. \A q \in Instances : Balanced(q)'
  <2>1. \A q \in Instances : Owned(q)' = Owned(q)
    BY <1>1, SameOwned DEF listenerVars
  <2> QED
    BY <1>1, <2>1 DEF IInv, Balanced, Held, listenerVars
<1>4. OffUnlessServing'
  BY <1>1
  DEF IInv, Typed, OffUnlessServing, listenerVars, Quiet, Refuse, StartExplicit, WriteToken,
      Salted, Unsalted, Bind, BindFails, Signal, Drained, Finish, Goto
<1>5. Disarmed'
  BY <1>1 DEF IInv, Disarmed, Open, listenerVars
<1>6. TokenOwned'
  BY ListenerAssumption
  DEF ListenerAssumption, IInv, Typed, TokenOwned, Quiet, Refuse, StartExplicit, WriteToken,
      Salted, Unsalted, Bind, BindFails, Signal, Drained, Finish, Goto, Remove
<1> QED
  BY <1>2, <1>3, <1>4, <1>5, <1>6 DEF IInv

-----------------------------------------------------------------------------
(* The accept loop.                                                        *)

\* The step that begins to serve keeps IInv.
LEMMA BeginServingKeeps ==
  ASSUME IInv, NEW p \in Instances, BeginServing(p)
  PROVE  IInv'
<1>1. acceptor[p] = "off" /\ UNCHANGED <<free, conn>>
  BY DEF IInv, OffUnlessServing, BeginServing
<1>2. \A q \in Instances : Owned(q)' = Owned(q)
  BY <1>1, SameOwned
<1>3. \A q \in Instances : Held(q)' = Held(q)
  BY <1>1 DEF BeginServing, Await, Held, IInv, Typed
<1>4. \A q \in Instances : Balanced(q)'
  BY <1>1, <1>2, <1>3 DEF IInv, Balanced
<1>5. Typed' /\ OffUnlessServing' /\ TokenOwned'
  BY DEF BeginServing, Await, Goto, IInv, Typed, OffUnlessServing, TokenOwned, Places
<1>6. Disarmed'
  BY <1>1 DEF IInv, Disarmed, Open
<1> QED
  BY <1>4, <1>5, <1>6 DEF IInv

\* The permit in the hand of accept() goes back.
LEMMA StopAcceptingKeeps ==
  ASSUME IInv, NEW p \in Instances, StopAccepting(p)
  PROVE  IInv'
<1>1. UNCHANGED conn /\ acceptor' = [acceptor EXCEPT ![p] = "off"]
  BY DEF StopAccepting, Await
<1>2. \A q \in Instances : Owned(q)' = Owned(q)
  BY <1>1, SameOwned
<1>3. free' = [free EXCEPT ![p] = @ + Held(p)]
  BY DEF StopAccepting, Return, Held, IInv, Typed
<1>4. \A q \in Instances : Balanced(q)'
  <2> TAKE q \in Instances
  <2>1. Cardinality(Owned(q)) \in Nat /\ free[q] \in Nat /\ Held(q) \in {0, 1}
    BY OwnedSize DEF IInv, Typed, Held
  <2>2. free'[q] + Held(q)' = free[q] + Held(q)
    BY <1>1, <1>3, <2>1 DEF IInv, Typed, Held
  <2>3. free'[q] \in Nat /\ Held(q)' \in {0, 1}
    BY <1>3, <2>1 DEF IInv, Typed, Held
  <2> QED
    BY <1>2, <2>1, <2>2, <2>3, ListenerAssumption DEF IInv, Balanced, ListenerAssumption
<1>5. Typed'
  <2>1. Held(p) \in Nat
    BY DEF Held
  <2> QED
    BY <1>1, <1>3, <2>1 DEF StopAccepting, Goto, IInv, Typed, Places
<1>6. OffUnlessServing' /\ TokenOwned'
  BY <1>1 DEF StopAccepting, Goto, IInv, Typed, OffUnlessServing, TokenOwned
<1>7. Disarmed'
  BY <1>1 DEF IInv, Disarmed, Open
<1> QED
  BY <1>4, <1>5, <1>6, <1>7 DEF IInv

\* A permit moves between the semaphore and the hand of accept().
LEMMA ListenKeeps ==
  ASSUME IInv, NEW p \in Instances, Listen(p),
         TakePermit(p) \/ AcceptFails(p) \/ Resume(p)
  PROVE  IInv'
<1>1. UNCHANGED <<conn, pc, wrote, file>> /\ pc[p] \in {"serving", "signalled"}
  BY DEF Listen, TakePermit, AcceptFails, Resume
<1>2. \A q \in Instances : Owned(q)' = Owned(q)
  BY <1>1, SameOwned
<1>3. Typed'
  BY <1>1 DEF IInv, Typed, TakePermit, AcceptFails, Resume, Await, Return
<1>4. \A q \in Instances : Balanced(q)'
  <2> TAKE q \in Instances
  <2>1. Cardinality(Owned(q)) \in Nat /\ free[q] \in Nat /\ free'[q] \in Nat
    BY <1>3, OwnedSize DEF IInv, Typed
  <2>2. free'[q] + Held(q)' = free[q] + Held(q)
    BY <2>1 DEF IInv, Typed, Held, TakePermit, AcceptFails, Resume, Await, Return
  <2>3. Held(q) \in {0, 1} /\ Held(q)' \in {0, 1}
    BY DEF Held
  <2> QED
    BY <1>2, <2>1, <2>2, <2>3, ListenerAssumption DEF IInv, Balanced, ListenerAssumption
<1>5. OffUnlessServing' /\ TokenOwned'
  BY <1>1 DEF IInv, Typed, OffUnlessServing, TokenOwned, TakePermit, AcceptFails, Resume, Await
<1>6. Disarmed'
  BY <1>1 DEF IInv, Disarmed, Open
<1> QED
  BY <1>3, <1>4, <1>5, <1>6 DEF IInv

\* From the hand of accept() into a connection.
LEMMA AcceptKeeps ==
  ASSUME IInv, NEW p \in Instances, Listen(p), NEW c \in Connections, Accept(p, c)
  PROVE  IInv'
<1>1. /\ UNCHANGED <<free, pc, wrote, file>> /\ pc[p] \in {"serving", "signalled"}
      /\ acceptor[p] = "holding" /\ acceptor' = [acceptor EXCEPT ![p] = "waiting"]
      /\ conn[c] = Away /\ conn' = [conn EXCEPT ![c] = Fresh(p)]
  BY DEF Listen, Accept, Await
<1>2. Fresh(p) \in ConnectionStates
  BY DEF Fresh, Away, ConnectionStates, Stages
<1>3. /\ Fresh(p).stage = "open" /\ Fresh(p).owner = p /\ ~Fresh(p).served
      /\ Away.stage = "away"
  BY DEF Fresh, Away
<1>4. Typed'
  BY <1>1, <1>2 DEF IInv, Typed
<1>5. ~Open(c) /\ Owned(p)' = Owned(p) \cup {c}
  BY <1>1, <1>3 DEF IInv, Typed, Owned, Open
<1>6. \A q \in Instances \ {p} : Owned(q)' = Owned(q)
  BY <1>1, <1>3 DEF IInv, Typed, Owned, Open
<1>7. \A q \in Instances : Balanced(q)'
  <2> TAKE q \in Instances
  <2>1. Cardinality(Owned(q)) \in Nat /\ free[q] \in Nat /\ free'[q] = free[q]
    BY <1>1, OwnedSize DEF IInv, Typed
  <2>2. CASE q = p
    <3>1. Cardinality(Owned(p))' = Cardinality(Owned(p)) + 1
      BY <1>5, OneMore
    <3>2. Held(p) = 1 /\ Held(p)' = 0
      BY <1>1 DEF Held, IInv, Typed
    <3> QED
      BY <2>1, <2>2, <3>1, <3>2 DEF IInv, Balanced
  <2>3. CASE q # p
    BY <1>1, <1>6, <2>1, <2>3 DEF IInv, Typed, Balanced, Held
  <2> QED
    BY <2>2, <2>3
<1>8. OffUnlessServing' /\ TokenOwned'
  BY <1>1 DEF IInv, Typed, OffUnlessServing, TokenOwned
<1>9. Disarmed'
  BY <1>1, <1>3 DEF IInv, Typed, Disarmed, Open
<1> QED
  BY <1>4, <1>7, <1>8, <1>9 DEF IInv

-----------------------------------------------------------------------------
(* The connections.                                                        *)

\* What a connection does while it stays whose and what it is.
LEMMA StayKeeps ==
  ASSUME IInv, NEW c \in Connections, Connected(c),
         Send(c) \/ Elapse(c) \/ Parse(c) \/ Answer(c)
  PROVE  IInv'
<1>1. UNCHANGED <<free, acceptor, pc, wrote, file>> /\ Open(c)
  BY DEF Connected, Send, Elapse, Parse, Answer
<1> DEFINE r == conn'[c]
<1>a. conn \in [Connections -> ConnectionStates] /\ conn[c] \in ConnectionStates
  BY DEF IInv, Typed
<1>b. conn[c].served => ~conn[c].armed
  BY DEF IInv, Disarmed
<1>2. /\ r \in ConnectionStates /\ conn' = [conn EXCEPT ![c] = r]
      /\ r.stage = conn[c].stage /\ r.owner = conn[c].owner
      /\ r.served => ~r.armed
  <2>1. CASE Send(c)
    BY <1>a, <1>b, <2>1 DEF Send, ConnectionStates
  <2>2. CASE Elapse(c)
    BY <1>a, <1>b, <2>2 DEF Elapse, ConnectionStates
  <2>3. CASE Parse(c)
    BY <1>a, <2>3 DEF Parse, ConnectionStates
  <2>4. CASE Answer(c)
    BY <1>a, <1>b, <2>4 DEF Answer, ConnectionStates
  <2> QED
    BY <2>1, <2>2, <2>3, <2>4
<1>3. \A q \in Instances : Owned(q)' = Owned(q)
  <2> HIDE DEF r
  <2> QED
    BY <1>2, StayingOwned DEF IInv, Typed
<1>4. \A q \in Instances : Balanced(q)'
  BY <1>1, <1>3 DEF IInv, Balanced, Held
<1>5. Typed'
  BY <1>1, <1>2 DEF IInv, Typed
<1>6. OffUnlessServing' /\ TokenOwned'
  BY <1>1 DEF IInv, OffUnlessServing, TokenOwned
<1>7. Disarmed'
  <2> HIDE DEF r
  <2> QED
    BY <1>1, <1>2 DEF IInv, Typed, Disarmed, Open
<1> QED
  BY <1>4, <1>5, <1>6, <1>7 DEF IInv

\* A connection that goes returns its permit to its owner.
LEMMA GoKeeps ==
  ASSUME IInv, NEW c \in Connections, Connected(c), Cut(c) \/ Drop(c)
  PROVE  IInv'
<1>1. PICK o \in Instances : o = conn[c].owner /\ Open(c)
  BY DEF Connected, Cut, Drop, IInv, Disarmed
<1>2. UNCHANGED <<acceptor, pc, wrote, file>> /\ free' = [free EXCEPT ![o] = @ + 1]
  BY <1>1 DEF Connected, Cut, Drop, Return
<1>3. conn \in [Connections -> ConnectionStates] /\ conn[c] \in ConnectionStates
  BY DEF IInv, Typed
<1>4. PICK r \in ConnectionStates :
        conn' = [conn EXCEPT ![c] = r] /\ r.stage # "open" /\ ~r.served
  <2>1. CASE Cut(c)
    <3>1. ~conn[c].served
      BY <2>1 DEF Cut, TimedOut, IInv, Disarmed
    <3>2. [conn[c] EXCEPT !.stage = "cut"] \in ConnectionStates
      BY <1>3 DEF ConnectionStates, Stages
    <3> QED
      BY <2>1, <3>1, <3>2, <1>3 DEF Cut, ConnectionStates
  <2>2. CASE Drop(c)
    <3>1. Away \in ConnectionStates /\ Away.stage # "open" /\ ~Away.served
      BY DEF Away, ConnectionStates, Stages
    <3> QED
      BY <2>2, <3>1 DEF Drop
  <2> QED
    BY <2>1, <2>2
<1>5. c \in Owned(o) /\ Owned(o)' = Owned(o) \ {c}
  BY <1>1, <1>3, <1>4 DEF Owned, Open
<1>6. \A q \in Instances \ {o} : Owned(q)' = Owned(q)
  BY <1>1, <1>3, <1>4 DEF Owned, Open
<1>7. Typed'
  BY <1>2, <1>4 DEF IInv, Typed
<1>8. \A q \in Instances : Balanced(q)'
  <2> TAKE q \in Instances
  <2>1. /\ Cardinality(Owned(q)) \in Nat /\ free[q] \in Nat
        /\ Held(q)' = Held(q) /\ Held(q) \in {0, 1}
    BY <1>2, OwnedSize DEF IInv, Typed, Held
  <2>2. CASE q = o
    <3>1. Cardinality(Owned(o))' = Cardinality(Owned(o)) - 1
      BY <1>5, OneLess
    <3>2. free'[o] = free[o] + 1
      BY <1>2 DEF IInv, Typed
    <3> QED
      BY <2>1, <2>2, <3>1, <3>2 DEF IInv, Balanced
  <2>3. CASE q # o
    BY <1>2, <1>6, <2>1, <2>3 DEF IInv, Typed, Balanced
  <2> QED
    BY <2>2, <2>3
<1>9. OffUnlessServing' /\ TokenOwned'
  BY <1>2 DEF IInv, OffUnlessServing, TokenOwned
<1>10. Disarmed'
  BY <1>4 DEF IInv, Typed, Disarmed, Open
<1> QED
  BY <1>7, <1>8, <1>9, <1>10 DEF IInv

\* A client that finds its connection cut keeps IInv.
LEMMA NoticeKeeps ==
  ASSUME IInv, NEW c \in Connections, Connected(c), Notice(c)
  PROVE  IInv'
<1>1. /\ UNCHANGED <<free, acceptor, pc, wrote, file>>
      /\ conn[c].stage = "cut" /\ conn' = [conn EXCEPT ![c] = Away]
  BY DEF Connected, Notice
<1>2. Away \in ConnectionStates /\ Away.stage = "away" /\ ~Away.served
  BY DEF Away, ConnectionStates, Stages
<1>3. \A q \in Instances : Owned(q)' = Owned(q)
  BY <1>1, <1>2 DEF IInv, Typed, Owned, Open
<1>4. \A q \in Instances : Balanced(q)'
  BY <1>1, <1>3 DEF IInv, Balanced, Held
<1>5. Typed' /\ Disarmed'
  BY <1>1, <1>2 DEF IInv, Typed, Disarmed, Open
<1>6. OffUnlessServing' /\ TokenOwned'
  BY <1>1 DEF IInv, OffUnlessServing, TokenOwned
<1> QED
  BY <1>4, <1>5, <1>6 DEF IInv

\* An instance that goes takes its connections along.
LEMMA VanishKeeps ==
  ASSUME IInv, NEW p \in Instances, DrainDeadline(p) \/ Die(p)
  PROVE  IInv'
<1>1. UNCHANGED <<wrote, file>> /\ Vanish(p)
  BY DEF DrainDeadline, Die
<1>2. Away \in ConnectionStates /\ Away.stage = "away" /\ ~Away.served
  BY DEF Away, ConnectionStates, Stages
<1>3. Owned(p)' = {} /\ \A q \in Instances \ {p} : Owned(q)' = Owned(q)
  BY <1>1, <1>2 DEF Vanish, IInv, Typed, Owned, Open
<1>4. Cardinality(Owned(p)') = 0
  BY <1>3, FS_EmptySet
<1>5. Typed'
  BY <1>1, <1>2, ListenerAssumption
  DEF ListenerAssumption, Vanish, DrainDeadline, Die, Goto, IInv, Typed, Places
<1>6. \A q \in Instances : Balanced(q)'
  <2> TAKE q \in Instances
  <2>1. CASE q = p
    <3>1. free'[p] = MaxConnections /\ Held(p)' = 0
      BY <1>1 DEF Vanish, IInv, Typed, Held
    <3> QED
      BY <1>4, <2>1, <3>1, ListenerAssumption DEF Balanced, ListenerAssumption
  <2>2. CASE q # p
    <3>1. free'[q] = free[q] /\ Held(q)' = Held(q) /\ Owned(q)' = Owned(q)
      BY <1>1, <1>3, <2>2 DEF Vanish, IInv, Typed, Held
    <3> QED
      BY <3>1 DEF IInv, Balanced
  <2> QED
    BY <2>1, <2>2
<1>7. OffUnlessServing'
  BY <1>1 DEF Vanish, DrainDeadline, Die, Goto, IInv, Typed, OffUnlessServing
<1>8. TokenOwned'
  BY <1>1 DEF DrainDeadline, Die, Goto, IInv, Typed, TokenOwned
<1>9. Disarmed'
  BY <1>1, <1>2 DEF Vanish, IInv, Typed, Disarmed, Open
<1> QED
  BY <1>5, <1>6, <1>7, <1>8, <1>9 DEF IInv

-----------------------------------------------------------------------------
(* The theorems.                                                           *)

\* IInv holds at the start.
LEMMA InitHolds == Init => IInv
<1> SUFFICES ASSUME Init PROVE IInv
  OBVIOUS
<1>1. Away \in ConnectionStates /\ Away.stage = "away" /\ ~Away.served
  BY DEF Away, ConnectionStates, Stages
<1>2. Typed
  BY <1>1, ListenerAssumption DEF ListenerAssumption, Init, ListenerInit, Typed, Places
<1>3. \A p \in Instances : Balanced(p)
  <2> TAKE p \in Instances
  <2>1. Owned(p) = {}
    BY <1>1 DEF Init, ListenerInit, Owned, Open
  <2>2. Cardinality(Owned(p)) = 0
    BY <2>1, FS_EmptySet
  <2> QED
    BY <2>2, ListenerAssumption DEF ListenerAssumption, Init, ListenerInit, Balanced, Held
<1>4. OffUnlessServing /\ TokenOwned
  BY ListenerAssumption
  DEF ListenerAssumption, Init, ListenerInit, OffUnlessServing, TokenOwned
<1>5. Disarmed
  BY <1>1 DEF Init, ListenerInit, Disarmed, Open
<1> QED
  BY <1>2, <1>3, <1>4, <1>5 DEF IInv

\* Every step keeps IInv.
LEMMA StepKeeps == IInv /\ [Next]_vars => IInv'
<1> SUFFICES ASSUME IInv, [Next]_vars PROVE IInv'
  OBVIOUS
<1>1. ASSUME NEW p \in Instances, Starting(p) PROVE IInv'
  <2>1. CASE Quiet(p)
    BY <2>1, QuietKeeps
  <2>2. CASE BeginServing(p)
    BY <2>2, BeginServingKeeps
  <2> QED
    BY <1>1, <2>1, <2>2 DEF Starting, Quiet
<1>2. ASSUME NEW p \in Instances, Stopping(p) PROVE IInv'
  <2>1. CASE Quiet(p)
    BY <2>1, QuietKeeps
  <2>2. CASE StopAccepting(p)
    BY <2>2, StopAcceptingKeeps
  <2>3. CASE DrainDeadline(p) \/ Die(p)
    BY <2>3, VanishKeeps
  <2> QED
    BY <1>2, <2>1, <2>2, <2>3 DEF Stopping, Quiet
<1>3. ASSUME NEW p \in Instances, Listen(p) PROVE IInv'
  <2>1. CASE TakePermit(p) \/ AcceptFails(p) \/ Resume(p)
    BY <1>3, <2>1, ListenKeeps
  <2>2. ASSUME NEW c \in Connections, Accept(p, c) PROVE IInv'
    BY <1>3, <2>2, AcceptKeeps
  <2> QED
    BY <1>3, <2>1, <2>2 DEF Listen, Accepting
<1>4. ASSUME NEW c \in Connections, Connected(c) PROVE IInv'
  <2>1. CASE Send(c) \/ Elapse(c) \/ Parse(c) \/ Answer(c)
    BY <1>4, <2>1, StayKeeps
  <2>2. CASE Cut(c) \/ Drop(c)
    BY <1>4, <2>2, GoKeeps
  <2>3. CASE Notice(c)
    BY <1>4, <2>3, NoticeKeeps
  <2> QED
    BY <1>4, <2>1, <2>2, <2>3 DEF Connected, Serving
<1>5. CASE UNCHANGED vars
  BY <1>5 DEF vars, listenerVars, IInv, Typed, Balanced, Held, Owned, Open, OffUnlessServing,
              Disarmed, TokenOwned
<1> QED
  BY <1>1, <1>2, <1>3, <1>4, <1>5 DEF Next, Over

\* IInv is an invariant.
THEOREM Invariance == Spec => []IInv
BY InitHolds, StepKeeps, PTL DEF Spec

\* The semaphore never has more permits than it was made with, and every
\* variable has its type (listener.rs).
THEOREM Typing == Spec => []TypeOK
<1>1. IInv => TypeOK
  <2> SUFFICES ASSUME IInv PROVE TypeOK
    OBVIOUS
  <2>1. ASSUME NEW p \in Instances PROVE free[p] \in 0 .. MaxConnections
    <3>1. free[p] \in Nat /\ Cardinality(Owned(p)) \in Nat /\ Held(p) \in Nat
      BY OwnedSize DEF IInv, Typed, Held
    <3> QED
      BY <3>1, ListenerAssumption DEF ListenerAssumption, IInv, Balanced
  <2> QED
    BY <2>1 DEF IInv, Typed, TypeOK
<1> QED
  BY <1>1, Invariance, PTL

\* No permit is lost or doubled on any path of accept(), of the deadline or of
\* the shutdown (listener.rs:47-66, 116-129): so there are never more than
\* MAX_CONNECTIONS connections per instance.
THEOREM Bounded == Spec => []ConnectionsBounded
<1>1. IInv => ConnectionsBounded
  BY DEF IInv, Balanced, Held, ConnectionsBounded
<1> QED
  BY <1>1, Invariance, PTL

\* The header deadline never cuts a connection that completed a request
\* (listener.rs, poll_read and headers_received).
THEOREM NeverCut == Spec => []ServedIsNeverCut
<1>1. IInv => ServedIsNeverCut
  BY DEF IInv, Disarmed, ServedIsNeverCut
<1> QED
  BY <1>1, Invariance, PTL

\* An instance that was signalled or has ended by itself leaves no token of its
\* own, whatever the other instances did to the file meanwhile (serve.rs).
THEOREM TokenGone == Spec => []NoTokenLeft
<1>1. IInv => NoTokenLeft
  BY DEF IInv, TokenOwned, NoTokenLeft
<1> QED
  BY <1>1, Invariance, PTL
=============================================================================

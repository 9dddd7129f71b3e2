-------------------------- MODULE KiroRuntimeProofs --------------------------
(***************************************************************************)
(* Proofs about KiroRuntime.  IInv is inductive: Shape types what the      *)
(* steps read, Credentialed says that a request on its way after a 403     *)
(* remembers a real credential, and ForcedIsOwed is the property itself.   *)
(* The proof goes by the request that steps: Others shows that nothing of  *)
(* another request changes.                                                *)
(*                                                                         *)
(* What is said of the credentials of an attempt stands on what is proved  *)
(* of the cache: Cache is TokenSource with those theorems, SameCache says  *)
(* that it is the same cache, and AttemptInv and RenewedInv say how far    *)
(* the cache has gone on since a request was answered, or rejected.        *)
(***************************************************************************)
EXTENDS KiroRuntime, TLAPS

\* client.rs asks nothing of the credential cache that a caller of source.rs may not
\* ask.
LEMMA CacheSteps == [Next]_vars => [Tokens!Next]_(Tokens!vars)
<1> SUFFICES ASSUME [Next]_vars PROVE [Tokens!Next]_(Tokens!vars) OBVIOUS
<1> USE DEF Tokens!Next, Tokens!vars, cacheVars
<1>1. CASE UNCHANGED vars BY <1>1 DEF vars
<1>2. CASE Next
  <2>1. CASE Elsewhere BY <2>1 DEF Elsewhere
  <2>2. CASE Rest BY <2>2 DEF Rest, vars
  <2>3. ASSUME NEW r \in Requests, Step(r) PROVE [Tokens!Next]_(Tokens!vars)
    <3>1. UNCHANGED cacheVars => UNCHANGED Tokens!vars OBVIOUS
    <3>2. CASE Tokens!Return(r) BY <3>2 DEF Tokens!Call
    <3>3. CASE Ask(r) BY <3>3 DEF Ask, Tokens!Call
    <3>4. CASE EnterGate(r) BY <3>4 DEF EnterGate
    <3>5. CASE Invalidate(r) BY <3>5 DEF Invalidate, Tokens!Call
    <3>6. CASE Drop(r) BY <3>6, <3>1, <3>2 DEF Drop
    <3> QED BY <2>3, <3>1, <3>2, <3>3, <3>4, <3>5, <3>6
          DEF Step, Generate, TakeIdentity, TakeToken, NoCredential, Accept, FailToSend,
              ReceiveAnswer, StayForbidden, Retry, GiveUp, Wake
  <2> QED BY <1>2, <2>1, <2>2, <2>3 DEF Next
<1> QED BY <1>1, <1>2

\* UsesTheCache: every run of the client is a run of TokenSource, for which
\* TokenSourceProofs holds.
THEOREM UsesTheCache == Spec => Tokens!Spec
<1>1. Init => Tokens!Init BY DEF Init
<1> QED BY <1>1, CacheSteps, PTL DEF Spec, Tokens!Spec

-----------------------------------------------------------------------------
\* A function of the requests, whatever its values are.
IsOnRequests(f) == f = [r \in Requests |-> f[r]]

\* The types the steps depend on.
Shape ==
  /\ now \in Nat
  /\ pc \in [Requests -> Tokens!Labels]
  /\ call \in [Requests -> Client!Stages]
  /\ refreshed \in [Requests -> BOOLEAN]
  /\ IsOnRequests(answer) /\ IsOnRequests(bearer) /\ IsOnRequests(rejected)

\* What is served, posted or rejected is a credential: with Shape it is why a client
\* that goes away on its way to a forced cycle leaves a rejected credential behind.
Credentialed ==
  \A r \in Requests :
    /\ pc[r] = "served" => answer[r] # Tokens!NoCredential
    /\ call[r] \in {"posting", "answered"} => bearer[r] # Tokens!NoCredential
    /\ refreshed[r] /\ ~Finished(r) => rejected[r] # Tokens!NoCredential

IInv == Shape /\ Credentialed /\ ForcedIsOwed

\* A process that has started owes nothing (the initial state satisfies IInv).
LEMMA InitIInv == Init => IInv
BY DEF Init, IInv, Shape, Credentialed, ForcedIsOwed, IsOnRequests, Tokens!Init, Client!Init,
       Tokens!Labels, Client!Stages, Finished

\* Every step of the cache leaves each call at one of source.rs' stages.
LEMMA PcSteps ==
  ASSUME Shape, Next
  PROVE  /\ now' \in Nat
         /\ pc' \in [Requests -> Tokens!Labels]
         /\ IsOnRequests(answer)'
<1> USE DEF Shape, IsOnRequests, Tokens!Labels
<1>1. CASE Elsewhere BY <1>1 DEF Elsewhere, Tokens!CliWritesRow, Tokens!Tick
<1>2. CASE Rest BY <1>2 DEF Rest, vars, cacheVars
<1>3. ASSUME NEW r \in Requests, Step(r)
      PROVE  now' = now /\ pc' \in [Requests -> Tokens!Labels] /\ IsOnRequests(answer)'
  <2>1. CASE UNCHANGED cacheVars BY <2>1 DEF cacheVars
  <2>2. CASE Tokens!Return(r)
    BY <2>2 DEF Tokens!Return, Tokens!Leave, Tokens!Goto, Tokens!envVars
  <2>3. CASE Tokens!Invalidate(r)
    BY <2>3 DEF Tokens!Invalidate, Tokens!Leave, Tokens!Goto, Tokens!envVars
  <2>4. CASE Tokens!Cancel(r)
    BY <2>4 DEF Tokens!Cancel, Tokens!CancelBefore200, Tokens!CancelAfter200, Tokens!Leave,
                Tokens!Goto, Tokens!envVars
  <2>5. CASE Tokens!EnterGate(r)
    BY <2>5 DEF Tokens!EnterGate, Tokens!Answer, Tokens!Goto, Tokens!envVars
  <2>6. CASE Tokens!ServeCached(r) \/ Tokens!JoinGate(r)
    BY <2>6 DEF Tokens!ServeCached, Tokens!JoinGate, Tokens!Answer, Tokens!Goto, Tokens!envVars
  <2>7. CASE Tokens!Progress(r)
    BY <2>7 DEF Tokens!Progress, Tokens!DatabaseUnreadable, Tokens!ServeDatabase,
                Tokens!ServeMinted,
                Tokens!StartRefresh, Tokens!RefuseBurnedSeed, Tokens!FailBefore200,
                Tokens!See200,
                Tokens!CompleteRefresh, Tokens!FailAfter200, Tokens!RetryWithNewer,
                Tokens!GiveUp,
                Tokens!Answer, Tokens!Fail, Tokens!EndAttempt, Tokens!Goto, Tokens!envVars
  <2> QED BY <1>3, <2>1, <2>2, <2>3, <2>4, <2>5, <2>6, <2>7
          DEF Step, Generate, Ask, EnterGate, TakeIdentity, TakeToken, NoCredential, Accept,
              FailToSend, ReceiveAnswer, Invalidate, StayForbidden, Retry, GiveUp, Wake, Drop
<1> QED BY <1>1, <1>2, <1>3 DEF Next

\* Every step of client.rs leaves each request at one of generate()'s stages.
LEMMA CallSteps ==
  ASSUME Shape, NEW r \in Requests, Step(r)
  PROVE  /\ call' \in [Requests -> Client!Stages]
         /\ refreshed' \in [Requests -> BOOLEAN]
         /\ IsOnRequests(bearer)' /\ IsOnRequests(rejected)'
<1> USE DEF Shape, IsOnRequests, Client!Stages, Client!Goto, Client!Posted
<1>1. CASE Generate(r) BY <1>1 DEF Generate, Client!Generate
<1>2. CASE Ask(r) \/ EnterGate(r) BY <1>2 DEF Ask, EnterGate, clientVars
<1>3. CASE TakeIdentity(r) \/ TakeToken(r)
  BY <1>3 DEF TakeIdentity, TakeToken, Client!Identified, Client!Authorized
<1>4. CASE NoCredential(r) BY <1>4 DEF NoCredential, Client!Unauthenticated, EndCall, EndAttempt
<1>5. CASE Accept(r) BY <1>5 DEF Accept, Client!Accepted, EndCall, EndAttempt
<1>6. CASE FailToSend(r)
  BY <1>6 DEF FailToSend, Client!Unreachable, Client!Redirected, EndCall, EndAttempt
<1>7. CASE ReceiveAnswer(r) BY <1>7 DEF ReceiveAnswer, Client!Answered
<1>8. CASE Invalidate(r)
  <2>1. Client!Goto(r, "identity") /\ refreshed' = [refreshed EXCEPT ![r] = TRUE]
    BY <1>8 DEF Invalidate, Client!Forbidden
  <2>2. IsOnRequests(bearer)' /\ IsOnRequests(rejected)' BY <1>8 DEF Invalidate, EndAttempt
  <2> QED BY <2>1, <2>2
<1>9. CASE StayForbidden(r)
  <2>1. Client!Goto(r, "error") /\ UNCHANGED refreshed
    BY <1>9 DEF StayForbidden, Client!Forbidden
  <2>2. IsOnRequests(bearer)' /\ IsOnRequests(rejected)'
    BY <1>9 DEF StayForbidden, EndCall, EndAttempt
  <2> QED BY <2>1, <2>2
<1>10. CASE Retry(r) BY <1>10 DEF Retry, Client!Retried, EndAttempt
<1>11. CASE GiveUp(r) BY <1>11 DEF GiveUp, Client!Refused, EndCall, EndAttempt
<1>12. CASE Wake(r) BY <1>12 DEF Wake, Client!Wake
<1>13. CASE Drop(r) BY <1>13 DEF Drop, EndAttempt
<1> QED BY <1>1, <1>2, <1>3, <1>4, <1>5, <1>6, <1>7, <1>8, <1>9, <1>10, <1>11, <1>12,
   <1>13 DEF Step

\* The types are kept by every step of client.rs, source.rs and the Kiro CLI.
LEMMA ShapeSteps == Shape /\ [Next]_vars => Shape'
<1> SUFFICES ASSUME Shape, [Next]_vars PROVE Shape' OBVIOUS
<1>1. CASE UNCHANGED vars BY <1>1 DEF Shape, vars, cacheVars, clientVars, IsOnRequests
<1>2. CASE Next
  <2>1. /\ now' \in Nat /\ pc' \in [Requests -> Tokens!Labels] /\ IsOnRequests(answer)'
    BY <1>2, PcSteps
  <2>2. /\ call' \in [Requests -> Client!Stages] /\ refreshed' \in [Requests -> BOOLEAN]
        /\ IsOnRequests(bearer)' /\ IsOnRequests(rejected)'
    <3>1. CASE Elsewhere BY <3>1 DEF Elsewhere, Shape, clientVars, IsOnRequests
    <3>2. CASE Rest BY <3>2 DEF Rest, Shape, vars, clientVars, IsOnRequests
    <3> QED BY <1>2, <3>1, <3>2, CallSteps DEF Next
  <2> QED BY <2>1, <2>2 DEF Shape
<1> QED BY <1>1, <1>2

\* generate() and current() keep their locals to themselves: a request's step
\* touches nothing of another's.
LEMMA Others ==
  ASSUME Shape, NEW r \in Requests, Step(r), NEW q \in Requests, q # r
  PROVE  /\ call'[q] = call[q] /\ refreshed'[q] = refreshed[q] /\ rejected'[q] = rejected[q]
         /\ bearer'[q] = bearer[q] /\ pc'[q] = pc[q] /\ answer'[q] = answer[q]
<1>1. /\ call'[q] = call[q] /\ refreshed'[q] = refreshed[q] /\ rejected'[q] = rejected[q]
      /\ bearer'[q] = bearer[q]
  <2> USE DEF Shape, IsOnRequests, Client!Goto, Client!Posted
  <2>1. CASE Generate(r) BY <2>1 DEF Generate, Client!Generate
  <2>2. CASE Ask(r) \/ EnterGate(r) BY <2>2 DEF Ask, EnterGate, clientVars
  <2>3. CASE TakeIdentity(r) \/ TakeToken(r)
    BY <2>3 DEF TakeIdentity, TakeToken, Client!Identified, Client!Authorized
  <2>4. CASE NoCredential(r) BY <2>4 DEF NoCredential, Client!Unauthenticated, EndCall,
                                         EndAttempt
  <2>5. CASE Accept(r) BY <2>5 DEF Accept, Client!Accepted, EndCall, EndAttempt
  <2>6. CASE FailToSend(r)
    BY <2>6 DEF FailToSend, Client!Unreachable, Client!Redirected, EndCall, EndAttempt
  <2>7. CASE ReceiveAnswer(r) BY <2>7 DEF ReceiveAnswer, Client!Answered
  <2>8. CASE Invalidate(r) BY <2>8 DEF Invalidate, Client!Forbidden, EndAttempt
  <2>9. CASE StayForbidden(r) BY <2>9 DEF StayForbidden, Client!Forbidden, EndCall, EndAttempt
  <2>10. CASE Retry(r) BY <2>10 DEF Retry, Client!Retried, EndAttempt
  <2>11. CASE GiveUp(r) BY <2>11 DEF GiveUp, Client!Refused, EndCall, EndAttempt
  <2>12. CASE Wake(r) BY <2>12 DEF Wake, Client!Wake
  <2>13. CASE Drop(r) BY <2>13 DEF Drop, EndAttempt
  <2> QED BY <2>1, <2>2, <2>3, <2>4, <2>5, <2>6, <2>7, <2>8, <2>9, <2>10, <2>11, <2>12, <2>13
          DEF Step
<1>2. pc'[q] = pc[q] /\ answer'[q] = answer[q]
  <2> USE DEF Shape, IsOnRequests, Tokens!Goto, Tokens!Leave, Tokens!Answer
  <2>1. CASE UNCHANGED cacheVars BY <2>1 DEF cacheVars
  <2>2. CASE Tokens!Return(r) BY <2>2 DEF Tokens!Return
  <2>3. CASE Tokens!Invalidate(r) BY <2>3 DEF Tokens!Invalidate
  <2>4. CASE Tokens!Cancel(r)
    BY <2>4 DEF Tokens!Cancel, Tokens!CancelBefore200, Tokens!CancelAfter200
  <2>5. CASE Tokens!EnterGate(r) BY <2>5 DEF Tokens!EnterGate
  <2>6. CASE Tokens!ServeCached(r) \/ Tokens!JoinGate(r)
    BY <2>6 DEF Tokens!ServeCached, Tokens!JoinGate
  <2>7. CASE Tokens!Progress(r)
    BY <2>7 DEF Tokens!Progress, Tokens!DatabaseUnreadable, Tokens!ServeDatabase,
                Tokens!ServeMinted,
                Tokens!StartRefresh, Tokens!RefuseBurnedSeed, Tokens!FailBefore200,
                Tokens!See200,
                Tokens!CompleteRefresh, Tokens!FailAfter200, Tokens!RetryWithNewer,
                Tokens!GiveUp,
                Tokens!Fail, Tokens!EndAttempt
  <2> QED BY <2>1, <2>2, <2>3, <2>4, <2>5, <2>6, <2>7
          DEF Step, Generate, Ask, EnterGate, TakeIdentity, TakeToken, NoCredential, Accept,
              FailToSend, ReceiveAnswer, Invalidate, StayForbidden, Retry, GiveUp, Wake, Drop
<1> QED BY <1>1, <1>2

\* current() answers with a credential: what is valid expires after the epoch, and
\* what was minted is marked.
LEMMA ServedSteps ==
  ASSUME Shape, Credentialed, NEW r \in Requests, Step(r), pc'[r] = "served"
  PROVE  answer'[r] # Tokens!NoCredential
<1> USE DEF Shape, IsOnRequests, Tokens!Goto, Tokens!Leave, Tokens!Answer
<1>0. ASSUME NEW c, Tokens!Valid(c) PROVE c # Tokens!NoCredential
  BY <1>0, CacheAssumption DEF CacheAssumption, Tokens!Valid, Tokens!NoCredential, Tokens!Epoch
<1>1. CASE UNCHANGED cacheVars BY <1>1 DEF cacheVars, Credentialed
<1>2. CASE Tokens!Return(r) BY <1>2 DEF Tokens!Return
<1>3. CASE Tokens!Invalidate(r) BY <1>3 DEF Tokens!Invalidate
<1>4. CASE Tokens!Cancel(r)
  BY <1>4 DEF Tokens!Cancel, Tokens!CancelBefore200, Tokens!CancelAfter200
<1>5. CASE Tokens!EnterGate(r) BY <1>0, <1>5 DEF Tokens!EnterGate
<1>6. CASE Tokens!ServeCached(r) \/ Tokens!JoinGate(r)
  BY <1>0, <1>6 DEF Tokens!ServeCached, Tokens!JoinGate
<1>7. CASE Tokens!Progress(r)
  <2>1. CASE Tokens!ServeDatabase(r)
    BY <1>0, <2>1 DEF Tokens!ServeDatabase, Tokens!DatabaseWins
  <2>2. CASE Tokens!ServeMinted(r)
    BY <1>0, <2>2 DEF Tokens!ServeMinted, Tokens!ReservesMinted
  <2>3. CASE Tokens!CompleteRefresh(r)
    <3>1. PICK minted : minted.minted = TRUE /\ answer' = [answer EXCEPT ![r] = minted]
      BY <2>3 DEF Tokens!CompleteRefresh
    <3>2. minted # Tokens!NoCredential BY <3>1 DEF Tokens!NoCredential
    <3> QED BY <3>1, <3>2
  <2> QED BY <1>7, <2>1, <2>2, <2>3
          DEF Tokens!Progress, Tokens!DatabaseUnreadable,
              Tokens!StartRefresh, Tokens!RefuseBurnedSeed, Tokens!FailBefore200, Tokens!See200,
              Tokens!FailAfter200, Tokens!RetryWithNewer, Tokens!GiveUp,
              Tokens!Fail, Tokens!EndAttempt
<1> QED BY <1>1, <1>2, <1>3, <1>4, <1>5, <1>6, <1>7
        DEF Step, Generate, Ask, EnterGate, TakeIdentity, TakeToken, NoCredential, Accept,
            FailToSend, ReceiveAnswer, Invalidate, StayForbidden, Retry, GiveUp, Wake, Drop

\* client.rs posts with, and is refused, a credential that current() has served.
LEMMA CredentialSteps ==
  ASSUME Shape, Credentialed, NEW r \in Requests, Step(r)
  PROVE  /\ call'[r] \in {"posting", "answered"} => bearer'[r] # Tokens!NoCredential
         /\ refreshed'[r] /\ ~Finished(r)' => rejected'[r] # Tokens!NoCredential
<1> USE DEF Shape, IsOnRequests, Credentialed, Finished, Client!Stages, Client!Goto,
            Client!Posted
<1>1. CASE Generate(r) BY <1>1 DEF Generate, Client!Generate
<1>2. CASE Ask(r) BY <1>2 DEF Ask, clientVars
<1>3. CASE EnterGate(r) BY <1>3 DEF EnterGate, clientVars
<1>4. CASE TakeIdentity(r) BY <1>4 DEF TakeIdentity, Client!Identified
<1>5. CASE TakeToken(r) BY <1>5 DEF TakeToken, Client!Authorized
<1>6. CASE NoCredential(r) BY <1>6 DEF NoCredential, Client!Unauthenticated
<1>7. CASE Accept(r) BY <1>7 DEF Accept, Client!Accepted
<1>8. CASE FailToSend(r)
  BY <1>8 DEF FailToSend, Client!Unreachable, Client!Redirected, EndCall, EndAttempt
<1>9. CASE ReceiveAnswer(r) BY <1>9 DEF ReceiveAnswer, Client!Answered
<1>10. CASE Invalidate(r)
  <2>1. Client!Goto(r, "identity") BY <1>10 DEF Invalidate, Client!Forbidden
  <2> QED BY <1>10, <2>1 DEF Invalidate
<1>11. CASE StayForbidden(r) BY <1>11 DEF StayForbidden, Client!Forbidden
<1>12. CASE Retry(r) BY <1>12 DEF Retry, Client!Retried
<1>13. CASE GiveUp(r) BY <1>13 DEF GiveUp, Client!Refused
<1>14. CASE Wake(r) BY <1>14 DEF Wake, Client!Wake
<1>15. CASE Drop(r) BY <1>15 DEF Drop
<1> QED BY <1>1, <1>2, <1>3, <1>4, <1>5, <1>6, <1>7, <1>8, <1>9, <1>10, <1>11, <1>12, <1>13,
           <1>14, <1>15 DEF Step

\* The two lemmas above for every request and every step.
LEMMA CredentialedSteps == Shape /\ Credentialed /\ [Next]_vars => Credentialed'
<1> SUFFICES ASSUME Shape, Credentialed, [Next]_vars PROVE Credentialed' OBVIOUS
<1>1. CASE UNCHANGED vars BY <1>1 DEF Credentialed, vars, cacheVars, clientVars, Finished
<1>2. CASE Elsewhere
  BY <1>2 DEF Credentialed, Elsewhere, Tokens!CliWritesRow, Tokens!Tick, clientVars, Finished
<1>3. ASSUME NEW r \in Requests, Step(r) PROVE Credentialed'
  <2> SUFFICES ASSUME NEW q \in Requests
               PROVE  /\ pc'[q] = "served" => answer'[q] # Tokens!NoCredential
                      /\ call'[q] \in {"posting", "answered"} => bearer'[q] # Tokens!NoCredential
                      /\ refreshed'[q] /\ ~Finished(q)' => rejected'[q] # Tokens!NoCredential
    BY DEF Credentialed
  <2>1. CASE q = r BY <1>3, <2>1, ServedSteps, CredentialSteps
  <2>2. CASE q # r BY <1>3, <2>2, Others DEF Credentialed, Finished
  <2> QED BY <2>1, <2>2
<1> QED BY <1>1, <1>2, <1>3 DEF Next, Rest

\* A step that sets the flag of source.rs puts its request on its way; one that
\* takes a request off its way clears the flag or is that request's drop.
LEMMA OwedSteps == IInv /\ [Next]_vars => ForcedIsOwed'
<1> SUFFICES ASSUME IInv, [Next]_vars, forced'
             PROVE  \E q \in Requests :
                      (OnItsWay(q) \/ (Finished(q) /\ rejected[q] # Tokens!NoCredential))'
  BY DEF ForcedIsOwed
<1> DEFINE Owed(q) == OnItsWay(q) \/ (Finished(q) /\ rejected[q] # Tokens!NoCredential)
<1>a. forced => \E q \in Requests : Owed(q) BY DEF IInv, ForcedIsOwed
<1>1. CASE UNCHANGED vars
  BY <1>a, <1>1 DEF vars, cacheVars, clientVars, OnItsWay, Finished
<1>2. CASE Elsewhere
  BY <1>a, <1>2 DEF Elsewhere, Tokens!CliWritesRow, Tokens!Tick, clientVars, OnItsWay, Finished
<1>3. ASSUME NEW r \in Requests, Step(r) PROVE \E q \in Requests : Owed(q)'
  <2>1. CASE Invalidate(r)
    <3>1. call'[r] = "identity" /\ refreshed'[r]
      BY <2>1 DEF Invalidate, Client!Forbidden, Client!Goto, IInv, Shape
    <3>2. pc'[r] = "idle"
      BY <2>1 DEF Invalidate, Tokens!Invalidate, Tokens!Leave, Tokens!Goto, IInv, Shape
    <3> QED BY <3>1, <3>2 DEF OnItsWay
  <2>2. CASE ~Invalidate(r)
    <3>1. forced' = forced /\ ~EnterGate(r)
      BY <1>3, <2>2
         DEF Step, Generate, Ask, EnterGate, TakeIdentity, TakeToken, NoCredential, Accept,
             FailToSend, ReceiveAnswer, StayForbidden, Retry, GiveUp, Wake, Drop, cacheVars,
             Tokens!Return, Tokens!Cancel, Tokens!CancelBefore200, Tokens!CancelAfter200,
             Tokens!EnterGate, Tokens!ServeCached, Tokens!JoinGate,
             Tokens!Progress, Tokens!DatabaseUnreadable, Tokens!ServeDatabase,
             Tokens!ServeMinted,
             Tokens!StartRefresh, Tokens!RefuseBurnedSeed, Tokens!FailBefore200, Tokens!See200,
             Tokens!CompleteRefresh, Tokens!FailAfter200, Tokens!RetryWithNewer, Tokens!GiveUp
    <3>2. PICK q \in Requests : Owed(q) BY <1>a, <3>1
    <3>3. CASE q # r BY <1>3, <3>2, <3>3, Others DEF IInv, OnItsWay, Finished
    <3>4. CASE q = r /\ Ask(r)
      <4>1. Tokens!JoinGate(r)
        BY <3>1, <3>2, <3>4
           DEF Ask, Waiting, OnItsWay, Finished, Tokens!ServeCached,
             Tokens!Progress, Tokens!DatabaseUnreadable, Tokens!ServeDatabase,
             Tokens!ServeMinted,
             Tokens!StartRefresh, Tokens!RefuseBurnedSeed, Tokens!FailBefore200, Tokens!See200,
             Tokens!CompleteRefresh, Tokens!FailAfter200, Tokens!RetryWithNewer, Tokens!GiveUp
      <4> QED BY <3>2, <3>4, <4>1
              DEF Ask, Waiting, clientVars, OnItsWay, Finished, Tokens!JoinGate, Tokens!Goto,
                  IInv, Shape
    <3>5. CASE q = r /\ Drop(r)
      <4>1. OnItsWay(r) BY <3>2, <3>5 DEF Drop, Waiting, Finished
      <4>2. rejected'[r] = rejected[r] /\ call'[r] = "error"
        BY <3>5, <4>1 DEF Drop, IInv, Shape, IsOnRequests
      <4>3. rejected[r] # Tokens!NoCredential
        BY <4>1 DEF IInv, Credentialed, OnItsWay, Finished
      <4> QED BY <4>2, <4>3 DEF Finished
    <3> QED BY <1>3, <2>2, <3>1, <3>2, <3>3, <3>4, <3>5
            DEF Step, Generate, TakeIdentity, TakeToken, NoCredential, Accept,
                FailToSend, ReceiveAnswer, StayForbidden, Retry, GiveUp, Wake, OnItsWay,
                Finished,
                Client!Identified, Client!Authorized, Client!Unauthenticated, Client!Accepted,
                Client!Posted, Client!Unreachable, Client!Redirected, Client!Answered,
                Client!Wake
  <2> QED BY <2>1, <2>2
<1> QED BY <1>1, <1>2, <1>3 DEF Next, Rest

\* ForcedTheorem: client.rs leaves the process-wide flag set only for a request that
\* is still to be retried, or whose client went away before it was.
THEOREM ForcedTheorem == Spec => []ForcedIsOwed
<1>1. IInv /\ [Next]_vars => IInv'
  BY ShapeSteps, CredentialedSteps, OwedSteps DEF IInv
<1>2. IInv => ForcedIsOwed BY DEF IInv
<1> QED BY InitIInv, <1>1, <1>2, PTL DEF Spec

\* FinalTheorem: an exhausted allowance or a pause too long ends generate() at once,
\* and error.rs tells the client so, whatever the other requests do.
THEOREM FinalTheorem == Spec => FinalIsFinal
<1>1. ASSUME IInv, [Next]_vars, NEW r \in Requests, call[r] = "answered", call'[r] # "answered",
             Exhausted(reply[r]) \/ (Busy(reply[r]) /\ Stops(reply[r]))
      PROVE  call'[r] = "error"
  <2>0. reply[r].status # 403 /\ ~Retryable(reply[r])
    BY <1>1 DEF Exhausted, Busy, Retryable, Kind, ClassifyBody, ClassifyThrottle
  <2>1. CASE UNCHANGED vars BY <1>1, <2>1 DEF vars, clientVars
  <2>2. CASE Elsewhere BY <1>1, <2>2 DEF Elsewhere, clientVars
  <2>3. ASSUME NEW q \in Requests, Step(q) PROVE call'[r] = "error"
    <3>1. q = r BY <1>1, <2>3, Others DEF IInv
    <3>2. CASE Drop(r) BY <1>1, <3>2 DEF Drop, IInv, Shape
    <3>3. CASE GiveUp(r) BY <1>1, <3>3 DEF GiveUp, Client!Refused, Client!Goto, IInv, Shape
    <3> QED BY <1>1, <2>0, <2>3, <3>1, <3>2, <3>3
            DEF Step, Generate, Ask, EnterGate, Waiting, clientVars, TakeIdentity, TakeToken,
                NoCredential, Accept,
                FailToSend, ReceiveAnswer, Invalidate, StayForbidden, Retry, Wake,
                Client!Identified, Client!Authorized, Client!Unauthenticated, Client!Accepted,
                Client!Posted, Client!Unreachable, Client!Redirected, Client!Answered,
                Client!Wake
  <2> QED BY <1>1, <2>1, <2>2, <2>3 DEF Next, Rest
<1>2. IInv /\ [Next]_vars =>
        [ \A r \in Requests :
            LET a    == reply[r]
                told == Told(Kind(a), PassedOn(a))
            IN call[r] = "answered" /\ call'[r] # "answered" =>
                 /\ Exhausted(a) => call'[r] = "error" /\ told.status = 429 /\ told.noRetry
                 /\ Busy(a) /\ Stops(a) /\ ~Exhausted(a) =>
                      call'[r] = "error"
                      /\ (a.retryAfter[1] <= MaxSeconds => told.retryAfter = a.retryAfter)
        ]_<<call, reply>>
  <2> SUFFICES ASSUME IInv, [Next]_vars, NEW r \in Requests, call[r] = "answered",
     call'[r] # "answered"
               PROVE  LET a    == reply[r]
                          told == Told(Kind(a), PassedOn(a))
                      IN /\ Exhausted(a) => call'[r] = "error" /\ told.status = 429 /\ told.noRetry
                         /\ Busy(a) /\ Stops(a) /\ ~Exhausted(a) =>
                              call'[r] = "error"
                              /\ (a.retryAfter[1] <= MaxSeconds => told.retryAfter = a.retryAfter)
    OBVIOUS
  <2> DEFINE a == reply[r]
  <2>1. Exhausted(a) => Kind(a) = "AllowanceExhausted"
    BY DEF Exhausted, Kind, ClassifyBody, ClassifyThrottle, Busy, Capacity, Allowance
  <2>2. Busy(a) /\ ~Exhausted(a) => Kind(a) # "AllowanceExhausted"
    BY DEF Exhausted, Kind, ClassifyThrottle, Busy, Capacity, Allowance
  <2>3. Busy(a) /\ Stops(a) /\ ~Exhausted(a) /\ a.retryAfter[1] <= MaxSeconds =>
          PassedOn(a) = a.retryAfter
    BY <2>2 DEF PassedOn
  <2> QED BY <1>1, <2>1, <2>3 DEF Told
<1>3. IInv /\ [Next]_vars => IInv'
  BY ShapeSteps, CredentialedSteps, OwedSteps DEF IInv
<1> QED BY InitIInv, <1>2, <1>3, PTL DEF Spec, FinalIsFinal

-----------------------------------------------------------------------------
\* TokenSource with what is proved of it.
Cache == INSTANCE TokenSourceProofs

\* source.rs twice over: what the client calls, and what is proved of it.
LEMMA SameCache ==
  /\ Cache!Init <=> Tokens!Init
  /\ Cache!Next <=> Tokens!Next
  /\ Cache!vars = Tokens!vars
  /\ Cache!DatabaseWins <=> Tokens!DatabaseWins
<1>1. Cache!Init <=> Tokens!Init
  BY DEF Cache!Init, Tokens!Init, Cache!NoCredential, Tokens!NoCredential, Cache!Epoch,
         Tokens!Epoch, Cache!NoToken, Tokens!NoToken
<1>2. Cache!DatabaseWins <=> Tokens!DatabaseWins
  BY DEF Cache!DatabaseWins, Tokens!DatabaseWins, Cache!DbIsNewer, Tokens!DbIsNewer,
         Cache!Valid, Tokens!Valid, Cache!NoCredential, Tokens!NoCredential, Cache!Epoch,
         Tokens!Epoch, Cache!NoToken, Tokens!NoToken
<1> USE DEF Cache!envVars, Tokens!envVars, Cache!burnVars, Tokens!burnVars, Cache!cycleVars,
            Tokens!cycleVars, Cache!Goto, Tokens!Goto, Cache!Answer, Tokens!Answer, Cache!Leave,
            Tokens!Leave, Cache!NoCredential, Tokens!NoCredential, Cache!Epoch, Tokens!Epoch,
            Cache!NoToken, Tokens!NoToken
<1>3. ASSUME NEW r
      PROVE  /\ Cache!ServeCached(r) <=> Tokens!ServeCached(r)
             /\ Cache!JoinGate(r) <=> Tokens!JoinGate(r)
             /\ Cache!EnterGate(r) <=> Tokens!EnterGate(r)
             /\ Cache!Return(r) <=> Tokens!Return(r)
             /\ Cache!Invalidate(r) <=> Tokens!Invalidate(r)
  BY DEF Cache!ServeCached, Tokens!ServeCached, Cache!JoinGate, Tokens!JoinGate,
         Cache!EnterGate, Tokens!EnterGate, Cache!Return, Tokens!Return, Cache!Invalidate,
         Tokens!Invalidate, Cache!Valid, Tokens!Valid, Cache!GateFree, Tokens!GateFree
<1>4. ASSUME NEW r
      PROVE  /\ Cache!DatabaseUnreadable(r) <=> Tokens!DatabaseUnreadable(r)
             /\ Cache!ServeDatabase(r) <=> Tokens!ServeDatabase(r)
             /\ Cache!ServeMinted(r) <=> Tokens!ServeMinted(r)
             /\ Cache!StartRefresh(r) <=> Tokens!StartRefresh(r)
             /\ Cache!RefuseBurnedSeed(r) <=> Tokens!RefuseBurnedSeed(r)
  BY <1>2 DEF Cache!DatabaseUnreadable, Tokens!DatabaseUnreadable, Cache!ServeDatabase,
              Tokens!ServeDatabase, Cache!ServeMinted, Tokens!ServeMinted, Cache!StartRefresh,
              Tokens!StartRefresh, Cache!RefuseBurnedSeed, Tokens!RefuseBurnedSeed,
              Cache!ReservesMinted, Tokens!ReservesMinted, Cache!AlreadyBurned,
              Tokens!AlreadyBurned, Cache!ChainSeed, Tokens!ChainSeed, Cache!Valid,
              Tokens!Valid, Cache!Fail, Tokens!Fail
<1>5. ASSUME NEW r
      PROVE  /\ Cache!FailBefore200(r) <=> Tokens!FailBefore200(r)
             /\ Cache!See200(r) <=> Tokens!See200(r)
             /\ Cache!CompleteRefresh(r) <=> Tokens!CompleteRefresh(r)
             /\ Cache!FailAfter200(r) <=> Tokens!FailAfter200(r)
             /\ Cache!RetryWithNewer(r) <=> Tokens!RetryWithNewer(r)
             /\ Cache!GiveUp(r) <=> Tokens!GiveUp(r)
             /\ Cache!CancelBefore200(r) <=> Tokens!CancelBefore200(r)
             /\ Cache!CancelAfter200(r) <=> Tokens!CancelAfter200(r)
  BY DEF Cache!FailBefore200, Tokens!FailBefore200, Cache!See200, Tokens!See200,
         Cache!CompleteRefresh, Tokens!CompleteRefresh, Cache!FailAfter200, Tokens!FailAfter200,
         Cache!RetryWithNewer, Tokens!RetryWithNewer, Cache!GiveUp, Tokens!GiveUp,
         Cache!CancelBefore200, Tokens!CancelBefore200, Cache!CancelAfter200,
         Tokens!CancelAfter200, Cache!EndAttempt, Tokens!EndAttempt, Cache!Fail, Tokens!Fail,
         Cache!Burn, Tokens!Burn, Cache!AlreadyBurned, Tokens!AlreadyBurned
<1>6. /\ Cache!CliWritesRow <=> Tokens!CliWritesRow
      /\ Cache!Tick <=> Tokens!Tick
  BY DEF Cache!CliWritesRow, Tokens!CliWritesRow, Cache!Tick, Tokens!Tick
<1>7. Cache!Next <=> Tokens!Next
  BY <1>3, <1>4, <1>5, <1>6 DEF Cache!Next, Tokens!Next, Cache!Call, Tokens!Call,
                                Cache!Progress, Tokens!Progress, Cache!Cancel, Tokens!Cancel
<1>8. Cache!vars = Tokens!vars
  BY DEF Cache!vars, Tokens!vars
<1> QED BY <1>1, <1>2, <1>7, <1>8

\* So every step of the client is one of the cache that is proved about,
LEMMA SameSteps == [Tokens!Next]_(Tokens!vars) => [Cache!Next]_(Cache!vars)
<1>1. (Tokens!Next \/ Tokens!vars' = Tokens!vars) => (Cache!Next \/ Cache!vars' = Cache!vars)
  BY SameCache DEF Cache!vars, Tokens!vars
<1> QED BY <1>1

\* and every run of the client one of its runs.
LEMMA InCache == Tokens!Spec => Cache!Spec
<1>1. Tokens!Init => Cache!Init BY SameCache
<1> QED BY <1>1, SameSteps, PTL DEF Tokens!Spec, Cache!Spec

\* The cache's own invariants hold in the client, if what is minted lives as long as
\* what the CLI obtains.
CInv == Cache!IInv /\ Cache!InOrder

LEMMA CacheInvariance == Cache!RefreshesOutlive => (Spec => []CInv)
<1> SUFFICES ASSUME Cache!RefreshesOutlive PROVE Spec => []CInv
  OBVIOUS
<1>1. Cache!Spec => []Cache!IInv
  BY Cache!Invariance, CacheAssumption DEF CacheAssumption
<1>2. Cache!Spec => []Cache!InOrder
  BY Cache!OrderInvariance, CacheAssumption DEF CacheAssumption
<1> QED BY <1>1, <1>2, UsesTheCache, InCache, PTL DEF CInv

\* What source.rs caches next is what it had, or minted, or a newer row.
LEMMA CachedSteps ==
  ASSUME Cache!RefreshesOutlive, CInv, [Next]_vars
  PROVE  /\ cached'.token \in Nat /\ cached.token \in Nat /\ cached'.token >= cached.token
         /\ cached' = cached \/ cached'.minted \/ cached'.token > cached.token
<1>1. [Tokens!Next]_(Tokens!vars)
  BY CacheSteps
<1>2. [Cache!Next]_(Cache!vars)
  BY <1>1, SameSteps
<1>3. Cache!IInv' /\ Cache!IInv
  BY <1>2, Cache!NextInvariant, CacheAssumption DEF CacheAssumption, CInv
<1>4. cached'.token >= cached.token
  BY <1>2, Cache!NextInOrder, CacheAssumption DEF CacheAssumption, CInv
<1>5. cached'.token \in Nat /\ cached.token \in Nat
  BY <1>3 DEF Cache!IInv, Cache!TypeOK, Cache!Credential
<1>6. cached' = cached \/ cached'.minted \/ cached'.token > cached.token
  <2>1. CASE cached' # cached
    <3>1. PICK r \in Requests : Tokens!ServeDatabase(r) \/ Tokens!CompleteRefresh(r)
      BY <1>1, <2>1 DEF Tokens!Next, Tokens!vars, Tokens!Call, Tokens!ServeCached,
                        Tokens!JoinGate, Tokens!Return, Tokens!Invalidate, Tokens!EnterGate,
                        Tokens!Progress, Tokens!DatabaseUnreadable, Tokens!ServeMinted,
                        Tokens!StartRefresh, Tokens!RefuseBurnedSeed, Tokens!FailBefore200,
                        Tokens!See200, Tokens!FailAfter200, Tokens!RetryWithNewer,
                        Tokens!GiveUp, Tokens!Cancel, Tokens!CancelBefore200,
                        Tokens!CancelAfter200, Tokens!CliWritesRow, Tokens!Tick
    <3>2. CASE Tokens!ServeDatabase(r)
      <4>1. cached' = db /\ Cache!DatabaseWins
        BY <3>2, SameCache DEF Tokens!ServeDatabase
      <4>2. db.token > cached.token
        BY <4>1, Cache!ServedRowIsNewer, CacheAssumption DEF CacheAssumption, CInv
      <4> QED BY <4>1, <4>2
    <3>3. CASE Tokens!CompleteRefresh(r)
      <4>1. PICK minted : minted.minted = TRUE /\ cached' = minted
        BY <3>3 DEF Tokens!CompleteRefresh
      <4> QED BY <4>1
    <3> QED BY <3>1, <3>2, <3>3
  <2> QED BY <2>1
<1> QED BY <1>4, <1>5, <1>6

\* A call of current() that has answered has answered with what is cached then; without
\* a cycle of its own only if nothing is forced, and after one with something minted or
\* newer, unless it was there already.
LEMMA AnswerSteps ==
  ASSUME Shape, NEW r \in Requests, Step(r), pc'[r] = "served", pc[r] # "served"
  PROVE  /\ answer'[r] = cached'
         /\ pc[r] \in {"idle", "waiting"} => ~forced /\ cached' = cached
         /\ pc[r] \notin {"idle", "waiting"} =>
              cached'.minted \/ (cached' = db /\ Tokens!DatabaseWins)
<1> USE DEF Shape, IsOnRequests, Tokens!Goto, Tokens!Leave, Tokens!Answer
<1>1. CASE UNCHANGED cacheVars BY <1>1 DEF cacheVars
<1>2. CASE Tokens!Return(r) BY <1>2 DEF Tokens!Return
<1>3. CASE Tokens!Invalidate(r) BY <1>3 DEF Tokens!Invalidate
<1>4. CASE Tokens!Cancel(r)
  BY <1>4 DEF Tokens!Cancel, Tokens!CancelBefore200, Tokens!CancelAfter200
<1>5. CASE Tokens!EnterGate(r) BY <1>5 DEF Tokens!EnterGate
<1>6. CASE Tokens!ServeCached(r) \/ Tokens!JoinGate(r)
  BY <1>6 DEF Tokens!ServeCached, Tokens!JoinGate
<1>7. CASE Tokens!Progress(r)
  <2>1. CASE Tokens!ServeDatabase(r)
    BY <2>1 DEF Tokens!ServeDatabase
  <2>2. CASE Tokens!ServeMinted(r)
    BY <2>2 DEF Tokens!ServeMinted, Tokens!ReservesMinted
  <2>3. CASE Tokens!CompleteRefresh(r)
    <3>1. PICK lifetime \in Lifetimes :
            LET minted == [expiry |-> now + lifetime,
                           token  |-> IF seed[r].token \in spent THEN tokens' ELSE seed[r].token,
                           minted |-> TRUE]
            IN cached' = minted /\ Tokens!Answer(r, minted)
      BY <2>3 DEF Tokens!CompleteRefresh
    <3>2. cached'.minted /\ answer' = [answer EXCEPT ![r] = cached']
      BY <3>1
    <3>3. pc[r] = "reading"
      BY <2>3 DEF Tokens!CompleteRefresh
    <3> QED BY <3>2, <3>3
  <2> QED BY <1>7, <2>1, <2>2, <2>3
          DEF Tokens!Progress, Tokens!DatabaseUnreadable,
              Tokens!StartRefresh, Tokens!RefuseBurnedSeed, Tokens!FailBefore200, Tokens!See200,
              Tokens!FailAfter200, Tokens!RetryWithNewer, Tokens!GiveUp,
              Tokens!Fail, Tokens!EndAttempt
<1> QED BY <1>1, <1>2, <1>3, <1>4, <1>5, <1>6, <1>7
        DEF Step, Generate, Ask, EnterGate, TakeIdentity, TakeToken, NoCredential, Accept,
            FailToSend, ReceiveAnswer, Invalidate, StayForbidden, Retry, GiveUp, Wake, Drop

\* What the client keeps of a credential is one.
Held ==
  /\ identity \in [Requests -> Tokens!Credential]
  /\ bearer \in [Requests -> Tokens!Credential]
  /\ rejected \in [Requests -> Tokens!Credential]
  /\ overtaken \in [Requests -> BOOLEAN]

\* The cache's variables that the client reads.
LEMMA CacheTypes ==
  ASSUME CInv
  PROVE  /\ answer \in [Requests -> Tokens!Credential] /\ cached \in Tokens!Credential
         /\ forcedCycle \in [Requests -> BOOLEAN] /\ pc \in [Requests -> Tokens!Labels]
         /\ forced \in BOOLEAN
BY DEF CInv, Cache!IInv, Cache!TypeOK, Cache!Credential, Tokens!Credential, Cache!Labels,
       Tokens!Labels

\* The tokens of credentials are numbers, and no credential is older than any.
LEMMA CredentialFacts ==
  /\ \A c \in Tokens!Credential : c.token \in Nat
  /\ Tokens!NoCredential \in Tokens!Credential /\ Tokens!NoCredential.token = 0
  /\ ~Tokens!NoCredential.minted
BY DEF Tokens!Credential, Tokens!NoCredential, Tokens!NoToken, Tokens!Epoch

\* What a step keeps of a credential is what current() has answered, or nothing.
LEMMA HeldSteps == CInv /\ Held /\ [Next]_vars => Held'
<1> SUFFICES ASSUME CInv, Held, [Next]_vars PROVE Held' OBVIOUS
<1> USE CredentialFacts DEF Held
<1>0. answer \in [Requests -> Tokens!Credential]
  BY CacheTypes
<1>1. CASE UNCHANGED vars BY <1>1 DEF vars
<1>2. CASE Elsewhere BY <1>2 DEF Elsewhere
<1>3. ASSUME NEW r \in Requests, Step(r) PROVE Held'
  <2>1. CASE Generate(r) \/ Ask(r) \/ Wake(r) BY <2>1 DEF Generate, Ask, Wake
  <2>2. CASE EnterGate(r)
    <3>1. overtaken' = [q \in Requests |-> overtaken[q] \/ (forced /\ q # r /\ refreshed[q])]
      BY <2>2 DEF EnterGate
    <3>2. UNCHANGED <<identity, bearer, rejected>>
      BY <2>2 DEF EnterGate
    <3> QED BY <3>1, <3>2
  <2>3. CASE TakeIdentity(r) BY <1>0, <2>3 DEF TakeIdentity
  <2>4. CASE TakeToken(r) BY <1>0, <2>4 DEF TakeToken
  <2>5. CASE NoCredential(r) \/ Accept(r) \/ StayForbidden(r) \/ GiveUp(r)
    <3>1. EndCall(r)
      BY <2>5 DEF NoCredential, Accept, StayForbidden, GiveUp
    <3> QED BY <3>1 DEF EndCall, EndAttempt
  <2>6. CASE FailToSend(r)
    <3>1. EndCall(r) \/ (EndAttempt(r) /\ UNCHANGED <<rejected, overtaken>>)
      BY <2>6 DEF FailToSend
    <3> QED BY <3>1 DEF EndCall, EndAttempt
  <2>7. CASE ReceiveAnswer(r) BY <2>7 DEF ReceiveAnswer
  <2>8. CASE Invalidate(r) BY <2>8 DEF Invalidate, EndAttempt
  <2>9. CASE Retry(r) BY <2>9 DEF Retry, EndAttempt
  <2>10. CASE Drop(r) BY <2>10 DEF Drop, EndAttempt
  <2> QED BY <1>3, <2>1, <2>2, <2>3, <2>4, <2>5, <2>6, <2>7, <2>8, <2>9, <2>10 DEF Step
<1> QED BY <1>1, <1>2, <1>3 DEF Next, Rest

\* A step of one request leaves the others' attempts alone, but for the flag it may
\* take from them.
LEMMA OthersToo ==
  ASSUME Shape, Held, NEW r \in Requests, Step(r), NEW q \in Requests, q # r
  PROVE  /\ call'[q] = call[q] /\ refreshed'[q] = refreshed[q] /\ rejected'[q] = rejected[q]
         /\ bearer'[q] = bearer[q] /\ pc'[q] = pc[q] /\ answer'[q] = answer[q]
         /\ identity'[q] = identity[q]
         /\ ~overtaken'[q] => ~overtaken[q]
<1>1. identity'[q] = identity[q]
  <2> USE DEF Held
  <2>1. CASE Generate(r) \/ Ask(r) \/ Wake(r) \/ EnterGate(r) \/ TakeToken(r) \/ ReceiveAnswer(r)
    BY <2>1 DEF Generate, Ask, Wake, EnterGate, TakeToken, ReceiveAnswer
  <2>2. CASE TakeIdentity(r) BY <2>2 DEF TakeIdentity
  <2>3. CASE EndAttempt(r) BY <2>3 DEF EndAttempt
  <2> QED BY <2>1, <2>2, <2>3
          DEF Step, NoCredential, Accept, FailToSend, Invalidate, StayForbidden, Retry, GiveUp,
              Drop, EndCall
<1>2. ~overtaken'[q] => ~overtaken[q]
  <2> USE DEF Held
  <2>1. CASE \/ Generate(r) \/ Ask(r) \/ Wake(r) \/ TakeIdentity(r) \/ TakeToken(r)
             \/ ReceiveAnswer(r) \/ Retry(r)
    BY <2>1 DEF Generate, Ask, Wake, TakeIdentity, TakeToken, ReceiveAnswer, Retry
  <2>2. CASE EnterGate(r)
    <3>1. overtaken'[q] = (overtaken[q] \/ (forced /\ q # r /\ refreshed[q]))
      BY <2>2 DEF EnterGate
    <3> QED BY <3>1
  <2>3. CASE overtaken' = [overtaken EXCEPT ![r] = FALSE] BY <2>3
  <2>4. CASE FailToSend(r)
    <3>1. EndCall(r) \/ UNCHANGED overtaken
      BY <2>4 DEF FailToSend
    <3> QED BY <2>3, <3>1 DEF EndCall
  <2> QED BY <1>1, <2>1, <2>2, <2>3, <2>4
          DEF Step, NoCredential, Accept, Invalidate, StayForbidden, GiveUp, Drop, EndCall
<1> QED BY <1>1, <1>2, Others

\* Where the tokens of a request's attempt stand, one behind the other.
PairedAt(r) ==
  /\ answer[r].token <= cached.token /\ identity[r].token <= cached.token
  /\ rejected[r].token <= cached.token
  /\ call[r] = "backoff" => pc[r] = "idle"
  /\ call[r] \in {"posting", "answered"} => pc[r] = "served" /\ bearer[r] = answer[r]
  /\ (call[r] = "headers" /\ pc[r] = "served") \/ call[r] \in {"posting", "answered"} =>
       identity[r].token <= answer[r].token
  /\ refreshed[r] /\ call[r] = "identity" /\ pc[r] = "served" =>
       rejected[r].token <= answer[r].token
  /\ refreshed[r] /\ call[r] \in {"headers", "posting", "answered"} =>
       rejected[r].token <= identity[r].token

PairInv == \A r \in Requests : PairedAt(r)

\* The tokens that PairedAt compares are numbers.
LEMMA PairNumbers ==
  ASSUME CInv, Held, NEW r \in Requests
  PROVE  /\ answer[r].token \in Nat /\ identity[r].token \in Nat /\ rejected[r].token \in Nat
         /\ bearer[r].token \in Nat /\ cached.token \in Nat
BY CacheTypes, CredentialFacts DEF Held

\* A step of another request leaves it so: the cache only goes on.
LEMMA PairAlone ==
  ASSUME Shape, CInv, Held, NEW q \in Requests, PairedAt(q),
         cached'.token \in Nat, cached'.token >= cached.token,
         call'[q] = call[q], refreshed'[q] = refreshed[q], rejected'[q] = rejected[q],
         bearer'[q] = bearer[q], pc'[q] = pc[q], answer'[q] = answer[q],
         identity'[q] = identity[q]
  PROVE  PairedAt(q)'
BY PairNumbers DEF PairedAt

\* A call of current() that is over leaves nothing behind.
LEMMA ReturnSteps ==
  ASSUME Shape, CInv, NEW r \in Requests,
         Tokens!Return(r) \/ Tokens!Invalidate(r) \/ Tokens!Cancel(r)
  PROVE  pc'[r] = "idle" /\ answer'[r] = Tokens!NoCredential /\ cached' = cached
BY CacheTypes DEF Shape, Tokens!Return, Tokens!Invalidate, Tokens!Cancel, Tokens!CancelBefore200,
       Tokens!CancelAfter200, Tokens!Leave, Tokens!Goto

\* An attempt that is over leaves no identity behind; a call that is, no rejected
\* credential either.
LEMMA EndSteps ==
  ASSUME Held, NEW r \in Requests
  PROVE  /\ EndAttempt(r) => identity'[r] = Tokens!NoCredential
         /\ EndCall(r) => rejected'[r] = Tokens!NoCredential /\ identity'[r] = Tokens!NoCredential
BY DEF Held, EndAttempt, EndCall

\* current() answers with what is cached, and that is not older than anything the
\* attempt has kept: asking keeps the order.
LEMMA AskKeepsPair ==
  ASSUME Shape, CInv, Held, NEW r \in Requests, PairedAt(r), Ask(r) \/ EnterGate(r),
         cached'.token \in Nat, cached'.token >= cached.token
  PROVE  PairedAt(r)'
<1> USE PairNumbers
<1>0. call' = call /\ refreshed' = refreshed /\ UNCHANGED <<identity, bearer, rejected>>
  BY DEF Ask, EnterGate, clientVars
<1>1. pc[r] # "served"
  BY DEF Ask, EnterGate, Tokens!EnterGate, Tokens!ServeCached, Tokens!JoinGate, Tokens!Progress,
         Tokens!DatabaseUnreadable, Tokens!ServeDatabase, Tokens!ServeMinted,
         Tokens!StartRefresh, Tokens!RefuseBurnedSeed, Tokens!FailBefore200, Tokens!See200,
         Tokens!CompleteRefresh, Tokens!FailAfter200, Tokens!RetryWithNewer, Tokens!GiveUp
<1>2. call[r] \notin {"posting", "answered"}
  BY <1>1 DEF PairedAt
<1>3. call[r] # "backoff"
  BY DEF Ask, EnterGate, Waiting, PairedAt, Tokens!EnterGate
<1>4. Step(r)
  BY DEF Step
<1>5. CASE pc'[r] = "served"
  <2>1. answer'[r] = cached'
    BY <1>1, <1>4, <1>5, AnswerSteps
  <2> QED BY <1>0, <1>2, <1>3, <1>5, <2>1 DEF PairedAt
<1>6. CASE pc'[r] # "served"
  <2>1. answer'[r] = answer[r]
    BY <1>6 DEF Shape, IsOnRequests, Ask, EnterGate, Tokens!EnterGate, Tokens!ServeCached,
                Tokens!JoinGate, Tokens!Progress, Tokens!DatabaseUnreadable,
                Tokens!ServeDatabase, Tokens!ServeMinted, Tokens!StartRefresh,
                Tokens!RefuseBurnedSeed, Tokens!FailBefore200, Tokens!See200,
                Tokens!CompleteRefresh, Tokens!FailAfter200, Tokens!RetryWithNewer,
                Tokens!GiveUp, Tokens!Answer, Tokens!Goto
  <2> QED BY <1>0, <1>2, <1>3, <1>6, <2>1 DEF PairedAt
<1> QED BY <1>5, <1>6

\* Nor is the order lost when client.rs takes what was answered, or the attempt ends.
LEMMA TakeKeepsPair ==
  ASSUME Shape, CInv, Held, NEW r \in Requests, PairedAt(r), Step(r), ~Ask(r), ~EnterGate(r)
  PROVE  PairedAt(r)'
<1> USE PairNumbers, CredentialFacts
<1>1. CASE Generate(r)
  <2>1. call'[r] = "identity" /\ ~refreshed'[r]
    BY <1>1 DEF Generate, Client!Generate, Client!Goto, Shape
  <2>2. UNCHANGED <<identity, rejected, answer, cached>>
    BY <1>1 DEF Generate, cacheVars
  <2> QED BY <2>1, <2>2 DEF PairedAt
<1>2. CASE TakeIdentity(r)
  <2>1. call[r] = "identity" /\ call'[r] = "headers" /\ refreshed' = refreshed
    BY <1>2 DEF TakeIdentity, Client!Identified, Client!Goto, Shape
  <2>2. pc[r] = "served" /\ identity'[r] = answer[r] /\ rejected' = rejected
    BY <1>2 DEF TakeIdentity, Held
  <2>3. pc'[r] = "idle" /\ answer'[r] = Tokens!NoCredential /\ cached' = cached
    BY <1>2, ReturnSteps DEF TakeIdentity
  <2> QED BY <2>1, <2>2, <2>3 DEF PairedAt
<1>3. CASE TakeToken(r)
  <2>1. call[r] = "headers" /\ call'[r] = "posting" /\ refreshed' = refreshed
    BY <1>3 DEF TakeToken, Client!Authorized, Client!Goto, Shape
  <2>2. /\ pc[r] = "served" /\ bearer'[r] = answer[r]
        /\ UNCHANGED <<identity, rejected, pc, answer, cached>>
    BY <1>3 DEF TakeToken, Held, cacheVars
  <2> QED BY <2>1, <2>2 DEF PairedAt
<1>4. CASE ReceiveAnswer(r)
  <2>1. call[r] = "posting" /\ call'[r] = "answered" /\ refreshed' = refreshed
    BY <1>4 DEF ReceiveAnswer, Client!Answered, Client!Posted, Client!Goto, Shape
  <2>2. UNCHANGED <<identity, rejected, bearer, pc, answer, cached>>
    BY <1>4 DEF ReceiveAnswer, cacheVars
  <2> QED BY <2>1, <2>2 DEF PairedAt
<1>5. CASE Invalidate(r)
  <2>1. call[r] = "answered" /\ call'[r] = "identity"
    BY <1>5 DEF Invalidate, Client!Forbidden, Client!Goto, Shape
  <2>2. pc'[r] = "idle" /\ answer'[r] = Tokens!NoCredential /\ cached' = cached
    BY <1>5, ReturnSteps DEF Invalidate
  <2>3. rejected'[r] = bearer[r] /\ identity'[r] = Tokens!NoCredential
    BY <1>5, EndSteps DEF Invalidate, Held
  <2> QED BY <2>1, <2>2, <2>3 DEF PairedAt
<1>6. CASE Wake(r)
  <2>1. call[r] = "backoff" /\ call'[r] = "identity"
    BY <1>6 DEF Wake, Client!Wake, Client!Goto, Shape
  <2>2. UNCHANGED <<identity, rejected, pc, answer, cached>>
    BY <1>6 DEF Wake, cacheVars
  <2> QED BY <2>1, <2>2 DEF PairedAt
<1>7. CASE Retry(r) \/ FailToSend(r)
  <2>1. call'[r] \in {"backoff", "error"}
    BY <1>7 DEF Retry, FailToSend, Client!Retried, Client!Unreachable, Client!Redirected,
                Client!Goto, Shape
  <2>2. pc'[r] = "idle" /\ answer'[r] = Tokens!NoCredential /\ cached' = cached
    BY <1>7, ReturnSteps DEF Retry, FailToSend
  <2>3. identity'[r] = Tokens!NoCredential
    BY <1>7, EndSteps DEF Retry, FailToSend
  <2>4. rejected'[r] = rejected[r] \/ rejected'[r] = Tokens!NoCredential
    BY <1>7, EndSteps DEF Retry, FailToSend
  <2> QED BY <2>1, <2>2, <2>3, <2>4 DEF PairedAt
<1>8. CASE NoCredential(r) \/ Accept(r) \/ StayForbidden(r) \/ GiveUp(r)
  <2>1. call'[r] \in {"stream", "error"}
    <3>1. CASE StayForbidden(r) BY <3>1 DEF StayForbidden, Client!Forbidden, Client!Goto, Shape
    <3> QED BY <1>8, <3>1 DEF NoCredential, Accept, GiveUp, Client!Unauthenticated,
                              Client!Accepted, Client!Refused, Client!Goto, Shape
  <2>2. pc'[r] = "idle" /\ answer'[r] = Tokens!NoCredential /\ cached' = cached
    BY <1>8, ReturnSteps DEF NoCredential, Accept, StayForbidden, GiveUp
  <2>3. identity'[r] = Tokens!NoCredential /\ rejected'[r] = Tokens!NoCredential
    BY <1>8, EndSteps DEF NoCredential, Accept, StayForbidden, GiveUp
  <2> QED BY <2>1, <2>2, <2>3 DEF PairedAt
<1>9. CASE Drop(r)
  <2>1. call'[r] = "error"
    BY <1>9 DEF Drop, Shape
  <2>2. (answer'[r] = Tokens!NoCredential \/ answer'[r] = answer[r]) /\ cached' = cached
    BY <1>9, ReturnSteps DEF Drop, cacheVars
  <2>3. identity'[r] = Tokens!NoCredential
    BY <1>9, EndSteps DEF Drop
  <2>4. rejected'[r] = rejected[r] \/ rejected'[r] = Tokens!NoCredential
    BY <1>9 DEF Drop, Held
  <2> QED BY <2>1, <2>2, <2>3, <2>4 DEF PairedAt
<1> QED BY <1>1, <1>2, <1>3, <1>4, <1>5, <1>6, <1>7, <1>8, <1>9 DEF Step

\* What a run of the client keeps, with the cache's own invariants.
AttemptInv == Shape /\ CInv /\ Held /\ PairInv

\* Nothing has been answered, kept or rejected when the process starts.
LEMMA InitAttempt == Init => Held /\ PairInv
BY CredentialFacts DEF Init, Held, PairInv, PairedAt, Tokens!Init, Client!Init

\* The two lemmas above and the one for the others, for every step.
LEMMA PairSteps == Cache!RefreshesOutlive /\ AttemptInv /\ [Next]_vars => PairInv'
<1> SUFFICES ASSUME Cache!RefreshesOutlive, AttemptInv, [Next]_vars, NEW q \in Requests
             PROVE  PairedAt(q)'
  BY DEF PairInv
<1>0. Shape /\ CInv /\ Held /\ PairedAt(q)
  BY DEF AttemptInv, PairInv
<1>a. cached'.token \in Nat /\ cached'.token >= cached.token
  BY <1>0, CachedSteps
<1>1. CASE UNCHANGED vars
  BY <1>0, <1>1 DEF vars, cacheVars, clientVars, PairedAt
<1>2. CASE Elsewhere
  BY <1>0, <1>2 DEF Elsewhere, Tokens!CliWritesRow, Tokens!Tick, clientVars, PairedAt
<1>3. ASSUME NEW r \in Requests, Step(r) PROVE PairedAt(q)'
  <2>1. CASE q = r /\ (Ask(r) \/ EnterGate(r))
    BY <1>0, <1>a, <2>1, AskKeepsPair
  <2>2. CASE q = r /\ ~Ask(r) /\ ~EnterGate(r)
    BY <1>0, <1>3, <2>2, TakeKeepsPair
  <2>3. CASE q # r
    BY <1>0, <1>a, <1>3, <2>3, OthersToo, PairAlone
  <2> QED BY <2>1, <2>2, <2>3
<1> QED BY <1>1, <1>2, <1>3 DEF Next, Rest

\* In every run of the client the credentials an attempt keeps are in order.
LEMMA AttemptInvariance == Cache!RefreshesOutlive => (Spec => []AttemptInv)
<1> SUFFICES ASSUME Cache!RefreshesOutlive PROVE Spec => []AttemptInv
  OBVIOUS
<1> DEFINE Kept == Held /\ PairInv
<1>1. Spec => []Shape
  <2>1. Init => Shape BY InitIInv DEF IInv
  <2> QED BY <2>1, ShapeSteps, PTL DEF Spec
<1>2. Spec => []CInv
  BY CacheInvariance
<1>3. Init => Kept
  BY InitAttempt
<1>4. Shape /\ CInv /\ Kept /\ [Next]_vars => Kept'
  BY HeldSteps, PairSteps DEF AttemptInv
<1>5. Shape /\ CInv /\ Kept => AttemptInv
  BY DEF AttemptInv
<1> HIDE DEF Kept
<1> QED BY <1>1, <1>2, <1>3, <1>4, <1>5, PTL DEF Spec

\* PairsTheorem: the token of an attempt is not older than its identity, nor that
\* older than what the runtime rejected, whatever else happens between the cycles.
THEOREM PairsTheorem == Cache!RefreshesOutlive => (Spec => []PairInOrder)
<1>1. AttemptInv => PairInOrder
  <2> SUFFICES ASSUME AttemptInv, NEW r \in Requests, Posting(r)
               PROVE  /\ bearer[r].token >= identity[r].token
                      /\ refreshed[r] => identity[r].token >= rejected[r].token
    BY DEF PairInOrder
  <2> QED BY PairNumbers DEF AttemptInv, PairInv, PairedAt, Posting
<1> QED BY <1>1, AttemptInvariance, PTL

-----------------------------------------------------------------------------
\* What takes the place of the credential a request was rejected with: one that was
\* obtained here, or a newer one.
Replaces(c, r) == c.minted \/ c.token > rejected[r].token

\* A request that retries a 403 and whose flag nobody has taken ...
Retrying(r) == refreshed[r] /\ ~Finished(r) /\ ~overtaken[r]

\* ... is in the cycle the flag was set for, ...
InCycle(r) ==
  call[r] = "identity" /\ pc[r] \in {"deciding", "posting", "reading", "rereading", "failed"}

\* ... or on its way to it, or the cache has gone on since, and its answer with it.
RenewedAt(r) ==
  Retrying(r) =>
    /\ \/ forced /\ OnItsWay(r)
       \/ InCycle(r)
       \/ Replaces(cached, r)
    /\ pc[r] = "served" => Replaces(answer[r], r) /\ Replaces(cached, r)

RenewedInv == \A r \in Requests : RenewedAt(r)

\* What has replaced a rejected credential is only ever replaced by another that does.
LEMMA ReplacedStays ==
  ASSUME Cache!RefreshesOutlive, AttemptInv, [Next]_vars, NEW r \in Requests,
         Replaces(cached, r), rejected'[r] = rejected[r]
  PROVE  Replaces(cached, r)'
<1>1. rejected[r].token \in Nat /\ rejected[r].token <= cached.token
  BY PairNumbers DEF AttemptInv, PairInv, PairedAt
<1>2. /\ cached'.token \in Nat /\ cached.token \in Nat /\ cached'.token >= cached.token
      /\ cached' = cached \/ cached'.minted \/ cached'.token > cached.token
  BY CachedSteps DEF AttemptInv
<1> QED BY <1>1, <1>2 DEF Replaces

\* The cycle of a rejected request ends in a credential that replaces it, or fails.
LEMMA AskKeepsRenewed ==
  ASSUME Cache!RefreshesOutlive, AttemptInv, NEW r \in Requests, RenewedAt(r),
  Ask(r) \/ EnterGate(r)
  PROVE  RenewedAt(r)'
<1>0. /\ call' = call /\ refreshed' = refreshed /\ rejected' = rejected
      /\ overtaken'[r] = overtaken[r]
  BY DEF Ask, EnterGate, clientVars, AttemptInv, Held
<1>1. Step(r) /\ [Next]_vars
  BY DEF Step, Next
<1>2. pc[r] # "served" /\ pc[r] # "failed"
  BY DEF Ask, EnterGate, Tokens!EnterGate, Tokens!ServeCached, Tokens!JoinGate, Tokens!Progress,
         Tokens!DatabaseUnreadable, Tokens!ServeDatabase, Tokens!ServeMinted,
         Tokens!StartRefresh, Tokens!RefuseBurnedSeed, Tokens!FailBefore200, Tokens!See200,
         Tokens!CompleteRefresh, Tokens!FailAfter200, Tokens!RetryWithNewer, Tokens!GiveUp
<1> SUFFICES ASSUME Retrying(r)' PROVE RenewedAt(r)'
  BY DEF RenewedAt
<1>3. Retrying(r)
  BY <1>0 DEF Retrying, Finished
<1>4. CASE pc'[r] = "served"
  <2>1. answer'[r] = cached'
    BY <1>1, <1>2, <1>4, AnswerSteps DEF AttemptInv
  <2>2. Replaces(cached, r)'
    <3>1. CASE pc[r] \in {"idle", "waiting"}
      <4>1. ~forced
        BY <1>1, <1>2, <1>4, <3>1, AnswerSteps DEF AttemptInv
      <4>2. Replaces(cached, r)
        BY <1>3, <3>1, <4>1 DEF RenewedAt, InCycle
      <4> QED BY <1>0, <1>1, <4>2, ReplacedStays
    <3>2. CASE pc[r] \notin {"idle", "waiting"}
      <4>1. cached'.minted \/ (cached' = db /\ Cache!DatabaseWins)
        BY <1>1, <1>2, <1>4, <3>2, AnswerSteps, SameCache DEF AttemptInv
      <4>2. Cache!DatabaseWins => db.token > cached.token
        BY Cache!ServedRowIsNewer, CacheAssumption DEF CacheAssumption, AttemptInv, CInv
      <4>3. rejected[r].token <= cached.token
        BY DEF AttemptInv, PairInv, PairedAt
      <4>4. rejected[r].token \in Nat /\ cached.token \in Nat /\ cached'.token \in Nat
        BY <1>1, PairNumbers, CachedSteps DEF AttemptInv
      <4> QED BY <1>0, <4>1, <4>2, <4>3, <4>4 DEF Replaces
    <3> QED BY <3>1, <3>2
  <2>3. Replaces(answer[r], r)'
    BY <2>1, <2>2 DEF Replaces
  <2> QED BY <2>2, <2>3 DEF RenewedAt
<1>5. CASE pc'[r] # "served"
  <2>1. CASE Replaces(cached, r)
    BY <1>0, <1>1, <1>5, <2>1, ReplacedStays DEF RenewedAt
  <2>2. CASE forced /\ OnItsWay(r)
    <3>1. CASE Tokens!JoinGate(r)
      BY <1>0, <2>2, <3>1 DEF Tokens!JoinGate, Tokens!Goto, RenewedAt, OnItsWay, AttemptInv,
                              Shape
    <3>2. CASE EnterGate(r)
      <4>1. pc'[r] = "deciding"
        BY <2>2, <3>2 DEF EnterGate, Tokens!EnterGate, Tokens!Goto, AttemptInv, Shape
      <4> QED BY <1>0, <2>2, <4>1 DEF RenewedAt, InCycle, OnItsWay
    <3>3. Tokens!JoinGate(r) \/ EnterGate(r)
      BY <2>2 DEF Ask, OnItsWay, Tokens!ServeCached, Tokens!Progress, Tokens!DatabaseUnreadable,
                  Tokens!ServeDatabase, Tokens!ServeMinted, Tokens!StartRefresh,
                  Tokens!RefuseBurnedSeed, Tokens!FailBefore200, Tokens!See200,
                  Tokens!CompleteRefresh, Tokens!FailAfter200, Tokens!RetryWithNewer,
                  Tokens!GiveUp
    <3> QED BY <3>1, <3>2, <3>3
  <2>3. CASE InCycle(r)
    <3>1. Tokens!Progress(r)
      BY <2>3 DEF InCycle, Ask, EnterGate, Tokens!EnterGate, Tokens!ServeCached, Tokens!JoinGate
    <3>2. pc'[r] \in {"deciding", "posting", "reading", "rereading", "failed"}
      BY <1>5, <3>1 DEF AttemptInv, Shape, Tokens!Progress, Tokens!DatabaseUnreadable,
                        Tokens!ServeDatabase, Tokens!ServeMinted, Tokens!StartRefresh,
                        Tokens!RefuseBurnedSeed, Tokens!FailBefore200, Tokens!See200,
                        Tokens!CompleteRefresh, Tokens!FailAfter200, Tokens!RetryWithNewer,
                        Tokens!GiveUp, Tokens!Answer, Tokens!Goto, Tokens!Fail,
                        Tokens!EndAttempt
    <3> QED BY <1>0, <1>5, <2>3, <3>2 DEF RenewedAt, InCycle
  <2> QED BY <1>3, <2>1, <2>2, <2>3 DEF RenewedAt
<1> QED BY <1>4, <1>5

\* Taking what was answered, posting it and ending the attempt keep it so; the
\* first 403 sets the flag, and a second one ends the call.
LEMMA TakeKeepsRenewed ==
  ASSUME Cache!RefreshesOutlive, AttemptInv, NEW r \in Requests, RenewedAt(r), Step(r),
         ~Ask(r), ~EnterGate(r)
  PROVE  RenewedAt(r)'
<1> SUFFICES ASSUME Retrying(r)' PROVE RenewedAt(r)'
  BY DEF RenewedAt
<1> USE DEF AttemptInv
<1>1. CASE Generate(r)
  BY <1>1 DEF Generate, Client!Generate, Shape, Retrying
<1>2. CASE TakeIdentity(r)
  <2>1. call[r] = "identity" /\ call'[r] = "headers" /\ refreshed' = refreshed
    BY <1>2 DEF TakeIdentity, Client!Identified, Client!Goto, Shape
  <2>2. pc[r] = "served" /\ UNCHANGED <<rejected, overtaken>>
    BY <1>2 DEF TakeIdentity
  <2>3. pc'[r] = "idle" /\ cached' = cached
    BY <1>2, ReturnSteps DEF TakeIdentity
  <2> QED BY <2>1, <2>2, <2>3 DEF RenewedAt, Retrying, Finished, Replaces
<1>3. CASE TakeToken(r) \/ ReceiveAnswer(r)
  <2>1. call[r] \in {"headers", "posting"} /\ refreshed' = refreshed
    BY <1>3 DEF TakeToken, ReceiveAnswer, Client!Authorized, Client!Answered, Client!Posted
  <2>2. UNCHANGED <<rejected, overtaken, pc, answer, cached>>
    BY <1>3 DEF TakeToken, ReceiveAnswer, cacheVars
  <2> QED BY <2>1, <2>2 DEF RenewedAt, InCycle, Retrying, Finished, Replaces, OnItsWay
<1>4. CASE Invalidate(r)
  <2>1. call'[r] = "identity"
    BY <1>4 DEF Invalidate, Client!Forbidden, Client!Goto, Shape
  <2>2. pc'[r] = "idle" /\ forced'
    BY <1>4, ReturnSteps DEF Invalidate, Tokens!Invalidate
  <2> QED BY <2>1, <2>2 DEF RenewedAt, Retrying, OnItsWay
<1>5. CASE Wake(r)
  <2>1. call[r] = "backoff" /\ refreshed' = refreshed
    BY <1>5 DEF Wake, Client!Wake
  <2>2. UNCHANGED <<rejected, overtaken, pc, answer, cached>>
    BY <1>5 DEF Wake, cacheVars
  <2> QED BY <2>1, <2>2 DEF RenewedAt, InCycle, Retrying, Finished, Replaces, OnItsWay
<1>6. CASE Retry(r) \/ FailToSend(r)
  <2>1. call[r] \in {"posting", "answered"} /\ refreshed' = refreshed
    BY <1>6 DEF Retry, FailToSend, Client!Retried, Client!Unreachable, Client!Redirected,
                Client!Posted
  <2>2. call'[r] # "error"
    BY DEF Retrying, Finished
  <2>3. UNCHANGED <<rejected, overtaken>>
    BY <1>6, <2>2 DEF Retry, FailToSend
  <2>4. pc'[r] = "idle" /\ cached' = cached
    BY <1>6, ReturnSteps DEF Retry, FailToSend
  <2> QED BY <2>1, <2>3, <2>4 DEF RenewedAt, InCycle, Retrying, Finished, Replaces, OnItsWay
<1>7. CASE NoCredential(r) \/ Accept(r) \/ StayForbidden(r) \/ GiveUp(r) \/ Drop(r)
  <2>1. call'[r] \in {"stream", "error"}
    <3>1. CASE StayForbidden(r) BY <3>1 DEF StayForbidden, Client!Forbidden, Client!Goto, Shape
    <3>2. CASE Drop(r) BY <3>2 DEF Drop, Shape
    <3> QED BY <1>7, <3>1, <3>2 DEF NoCredential, Accept, GiveUp, Client!Unauthenticated,
                                    Client!Accepted, Client!Refused, Client!Goto, Shape
  <2> QED BY <2>1 DEF Retrying, Finished
<1> QED BY <1>1, <1>2, <1>3, <1>4, <1>5, <1>6, <1>7 DEF Step

\* The flag is cleared by a request that enters the gate, and by nothing else.
LEMMA FlagSteps ==
  ASSUME NEW r \in Requests, Step(r), ~EnterGate(r), forced
  PROVE  forced'
BY DEF Step, Generate, Ask, TakeIdentity, TakeToken, NoCredential, Accept, Invalidate,
       FailToSend, ReceiveAnswer, StayForbidden, Retry, GiveUp, Wake, Drop, cacheVars,
       Tokens!Return, Tokens!Cancel, Tokens!CancelBefore200, Tokens!CancelAfter200,
       Tokens!Invalidate, Tokens!ServeCached, Tokens!JoinGate,
       Tokens!Progress, Tokens!DatabaseUnreadable, Tokens!ServeDatabase, Tokens!ServeMinted,
       Tokens!StartRefresh, Tokens!RefuseBurnedSeed, Tokens!FailBefore200, Tokens!See200,
       Tokens!CompleteRefresh, Tokens!FailAfter200, Tokens!RetryWithNewer, Tokens!GiveUp

\* Another request's step keeps it so too, or takes the flag, which overtaken records.
LEMMA RenewedAlone ==
  ASSUME Cache!RefreshesOutlive, AttemptInv, NEW r \in Requests, Step(r),
         NEW q \in Requests, q # r, RenewedAt(q)
  PROVE  RenewedAt(q)'
<1> SUFFICES ASSUME Retrying(q)' PROVE RenewedAt(q)'
  BY DEF RenewedAt
<1>1. /\ call'[q] = call[q] /\ refreshed'[q] = refreshed[q] /\ rejected'[q] = rejected[q]
      /\ pc'[q] = pc[q] /\ answer'[q] = answer[q] /\ ~overtaken'[q] /\ ~overtaken[q]
  BY OthersToo DEF AttemptInv, Retrying
<1>2. Retrying(q)
  BY <1>1 DEF Retrying, Finished
<1>3. Replaces(cached, q) => Replaces(cached, q)'
  BY <1>1, ReplacedStays DEF Next
<1>4. forced => forced'
  <2>1. CASE EnterGate(r)
    <3>1. overtaken'[q] = (overtaken[q] \/ (forced /\ q # r /\ refreshed[q]))
      BY <2>1 DEF EnterGate
    <3> QED BY <1>1, <1>2, <3>1 DEF Retrying
  <2>2. CASE ~EnterGate(r)
    BY <2>2, FlagSteps
  <2> QED BY <2>1, <2>2
<1>5. Replaces(answer[q], q)' <=> Replaces(answer[q], q)
  BY <1>1 DEF Replaces
<1>6. OnItsWay(q)' <=> OnItsWay(q)
  BY <1>1 DEF OnItsWay
<1> QED BY <1>1, <1>2, <1>3, <1>4, <1>5, <1>6 DEF RenewedAt, InCycle

\* The three lemmas above for every step.
LEMMA RenewedSteps ==
  Cache!RefreshesOutlive /\ AttemptInv /\ RenewedInv /\ [Next]_vars => RenewedInv'
<1> SUFFICES ASSUME Cache!RefreshesOutlive, AttemptInv, RenewedInv, [Next]_vars,
   NEW q \in Requests
             PROVE  RenewedAt(q)'
  BY DEF RenewedInv
<1>0. RenewedAt(q)
  BY DEF RenewedInv
<1>1. CASE UNCHANGED vars
  BY <1>0, <1>1 DEF vars, cacheVars, clientVars, RenewedAt, InCycle, Retrying, Finished, Replaces,
                    OnItsWay
<1>2. CASE Elsewhere
  BY <1>0, <1>2 DEF Elsewhere, Tokens!CliWritesRow, Tokens!Tick, clientVars, RenewedAt, InCycle,
                    Retrying, Finished, Replaces, OnItsWay
<1>3. ASSUME NEW r \in Requests, Step(r) PROVE RenewedAt(q)'
  <2>1. CASE q = r /\ (Ask(r) \/ EnterGate(r))
    BY <1>0, <2>1, AskKeepsRenewed
  <2>2. CASE q = r /\ ~Ask(r) /\ ~EnterGate(r)
    BY <1>0, <1>3, <2>2, TakeKeepsRenewed
  <2>3. CASE q # r
    BY <1>0, <1>3, <2>3, RenewedAlone
  <2> QED BY <2>1, <2>2, <2>3
<1> QED BY <1>1, <1>2, <1>3 DEF Next, Rest

\* ReplacedTheorem: the post that retries a 403 carries another credential than the
\* rejected one, unless that was obtained here or another request took the flag.
THEOREM ReplacedTheorem == Cache!RefreshesOutlive => (Spec => []RejectedIsReplaced)
<1> SUFFICES ASSUME Cache!RefreshesOutlive PROVE Spec => []RejectedIsReplaced
  OBVIOUS
<1>1. Init => RenewedInv
  BY DEF Init, RenewedInv, RenewedAt, Retrying, Finished, Client!Init
<1>2. AttemptInv /\ RenewedInv /\ [Next]_vars => RenewedInv'
  BY RenewedSteps
<1>3. AttemptInv /\ RenewedInv => RejectedIsReplaced
  <2> SUFFICES ASSUME AttemptInv, RenewedInv, NEW r \in Requests, Posting(r), refreshed[r],
                      bearer[r] = rejected[r], ~overtaken[r]
               PROVE  rejected[r].minted
    BY DEF RejectedIsReplaced
  <2>1. pc[r] = "served" /\ bearer[r] = answer[r] /\ answer[r].token \in Nat
    BY PairNumbers DEF AttemptInv, PairInv, PairedAt, Posting
  <2>2. Replaces(answer[r], r)
    BY <2>1 DEF RenewedInv, RenewedAt, Retrying, Finished, Posting
  <2> QED BY <2>1, <2>2 DEF Replaces
<1>4. Spec => []AttemptInv
  BY AttemptInvariance
<1> QED BY <1>1, <1>2, <1>3, <1>4, PTL DEF Spec
=============================================================================

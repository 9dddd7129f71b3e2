------------------------- MODULE TokenSourceProofs -------------------------
(***************************************************************************)
(* What TokenSource guarantees for any number of requests, any lifetimes,  *)
(* any clock and any number of rows written by the Kiro CLI.               *)
(*                                                                         *)
(* The argument: a seed is known to the process by its expiry alone.  The  *)
(* invariant IInv says why that is enough.  Only the holder of the gate    *)
(* exchanges (GateHeld); every stored copy of a spent token carries a      *)
(* burned expiry, up to the burn that the exchange being read still owes   *)
(* (SpentIsMarked); and no second, unmarked copy of the token being        *)
(* exchanged exists under another expiry (CopiesAreMarked), so that the    *)
(* one burn at the end of the exchange marks them all.                     *)
(***************************************************************************)
EXTENDS TokenSource, TLAPS

IInv == TypeOK /\ BooksBalance /\ NoReplay

-----------------------------------------------------------------------------
(* Type correctness.                                                       *)

\* The fields of a credential, and the credentials the code builds.
LEMMA Fields ==
  /\ \A c \in Credential : c.expiry \in Nat /\ c.token \in Nat /\ c.minted \in BOOLEAN
  /\ \A e, t \in Nat, m \in BOOLEAN : [expiry |-> e, token |-> t, minted |-> m] \in Credential
  /\ NoCredential \in Credential
BY DEF Credential, NoCredential, Epoch, NoToken

\* The initial state is well typed.
LEMMA InitType == Init => TypeOK
<1> SUFFICES ASSUME Init PROVE TypeOK
  OBVIOUS
<1>1. db \in Credential
  BY ConstantsAssumption DEF ConstantsAssumption, Init, Credential
<1> QED
  BY <1>1, Fields DEF Init, TypeOK, Labels, Epoch

\* Every step keeps every variable in its type; the sentinel stays out of
\* the burned set.
LEMMA NextType == TypeOK /\ [Next]_vars => TypeOK'
<1> SUFFICES ASSUME TypeOK, [Next]_vars PROVE TypeOK'
  OBVIOUS
<1> USE ConstantsAssumption DEF TypeOK, Labels, ConstantsAssumption
<1> USE DEF envVars, burnVars, cycleVars
<1>1. ASSUME NEW r \in Requests, Call(r) PROVE TypeOK'
  <2> USE Fields DEF Answer, Leave, Goto, Epoch
  <2>1. CASE ServeCached(r) BY <2>1 DEF ServeCached
  <2>2. CASE JoinGate(r)    BY <2>2 DEF JoinGate
  <2>3. CASE Return(r)      BY <2>3 DEF Return
  <2>4. CASE Invalidate(r)  BY <2>4 DEF Invalidate
  <2> QED BY <1>1, <2>1, <2>2, <2>3, <2>4 DEF Call
<1>2. ASSUME NEW r \in Requests, EnterGate(r) PROVE TypeOK'
  BY <1>2 DEF EnterGate, Answer, Goto
<1>3. ASSUME NEW r \in Requests, Progress(r) PROVE TypeOK'
  <2> USE DEF Goto, Answer, Fail, EndAttempt, Epoch
  <2>0. seed[r].token \in Nat /\ seed[r].expiry \in Nat /\ db.expiry \in Nat
    BY Fields
  <2>1. CASE DatabaseUnreadable(r)  BY <2>1 DEF DatabaseUnreadable
  <2>2. CASE ServeDatabase(r)       BY <2>2 DEF ServeDatabase
  <2>3. CASE ServeMinted(r)         BY <2>3 DEF ServeMinted
  <2>4. CASE StartRefresh(r)        BY <2>0, <2>4 DEF StartRefresh, ChainSeed
  <2>5. CASE RefuseBurnedSeed(r)    BY <2>5 DEF RefuseBurnedSeed
  <2>6. CASE FailBefore200(r)       BY <2>6 DEF FailBefore200
  <2>7. CASE See200(r)              BY <2>0, <2>7 DEF See200
  <2>8. CASE CompleteRefresh(r)
    <3>1. tokens' \in Nat
      BY <2>8 DEF CompleteRefresh
    <3>2. PICK lifetime \in Lifetimes :
            LET minted == [expiry |-> now + lifetime,
                           token  |-> IF seed[r].token \in spent THEN tokens' ELSE seed[r].token,
                           minted |-> TRUE]
            IN cached' = minted /\ Answer(r, minted)
      BY <2>8 DEF CompleteRefresh
    <3>3. cached' \in Credential /\ Answer(r, cached')
      BY <2>0, <3>1, <3>2 DEF Credential
    <3> QED BY <2>0, <2>8, <3>1, <3>3 DEF CompleteRefresh, Burn
  <2>9. CASE FailAfter200(r)        BY <2>0, <2>9 DEF FailAfter200, Burn
  <2>10. CASE RetryWithNewer(r)     BY <2>10 DEF RetryWithNewer
  <2>11. CASE GiveUp(r)             BY <2>11 DEF GiveUp
  <2> QED
    BY <1>3, <2>1, <2>2, <2>3, <2>4, <2>5, <2>6, <2>7, <2>8, <2>9, <2>10, <2>11 DEF Progress
<1>4. ASSUME NEW r \in Requests, Cancel(r) PROVE TypeOK'
  <2> USE Fields DEF Leave, Goto, Epoch
  <2>0. seed[r].expiry \in Nat
    BY Fields
  <2>1. CASE CancelBefore200(r) BY <2>1 DEF CancelBefore200
  <2>2. CASE CancelAfter200(r)  BY <2>0, <2>2 DEF CancelAfter200, Burn
  <2> QED BY <1>4, <2>1, <2>2 DEF Cancel
<1>5. CASE CliWritesRow
  <2>1. PICK e \in {Epoch} \cup {now + l : l \in CliLifetimes} :
          db' = [expiry |-> e, token |-> tokens', minted |-> FALSE]
    BY <1>5 DEF CliWritesRow
  <2>2. tokens' \in Nat /\ db' \in Credential
    BY <1>5, <2>1 DEF CliWritesRow, Credential, Epoch
  <2> QED BY <1>5, <2>2 DEF CliWritesRow
<1>6. CASE Tick
  BY <1>6 DEF Tick
<1>7. CASE UNCHANGED vars
  BY <1>7 DEF vars
<1> QED
  BY <1>1, <1>2, <1>3, <1>4, <1>5, <1>6, <1>7 DEF Next

\* TokenSource is type correct for all values of its constants.
THEOREM TypeCorrect == Spec => []TypeOK
BY InitType, NextType, PTL DEF Spec

-----------------------------------------------------------------------------
(* The gate.                                                               *)

\* A call is inside its cycle exactly while it holds the gate, and the gate
\* has one holder at most.
LEMMA NextGate == TypeOK /\ GateHeld /\ [Next]_vars => GateHeld'
<1> SUFFICES ASSUME TypeOK, GateHeld, [Next]_vars PROVE GateHeld'
  OBVIOUS
<1> USE DEF GateHeld, Goto
<1>0. pc \in [Requests -> Labels] /\ gate \subseteq Requests
  BY DEF TypeOK
<1>1. ASSUME NEW r \in Requests, Call(r) PROVE GateHeld'
  BY <1>0, <1>1 DEF Call, ServeCached, JoinGate, Return, Invalidate, Answer, Leave
<1>2. ASSUME NEW r \in Requests, EnterGate(r) PROVE GateHeld'
  BY <1>0, <1>2 DEF EnterGate, GateFree, Answer
<1>3. ASSUME NEW r \in Requests, Progress(r) PROVE GateHeld'
  <2> USE <1>0 DEF Answer, Fail, EndAttempt
  <2>1. CASE DatabaseUnreadable(r)  BY <2>1 DEF DatabaseUnreadable
  <2>2. CASE ServeDatabase(r)       BY <2>2 DEF ServeDatabase
  <2>3. CASE ServeMinted(r)         BY <2>3 DEF ServeMinted
  <2>4. CASE StartRefresh(r)        BY <2>4 DEF StartRefresh
  <2>5. CASE RefuseBurnedSeed(r)    BY <2>5 DEF RefuseBurnedSeed
  <2>6. CASE FailBefore200(r)       BY <2>6 DEF FailBefore200
  <2>7. CASE See200(r)              BY <2>7 DEF See200
  <2>8. CASE CompleteRefresh(r)     BY <2>8 DEF CompleteRefresh
  <2>9. CASE FailAfter200(r)        BY <2>9 DEF FailAfter200
  <2>10. CASE RetryWithNewer(r)     BY <2>10 DEF RetryWithNewer
  <2>11. CASE GiveUp(r)             BY <2>11 DEF GiveUp
  <2> QED
    BY <1>3, <2>1, <2>2, <2>3, <2>4, <2>5, <2>6, <2>7, <2>8, <2>9, <2>10, <2>11 DEF Progress
<1>4. ASSUME NEW r \in Requests, Cancel(r) PROVE GateHeld'
  BY <1>0, <1>4 DEF Cancel, CancelBefore200, CancelAfter200, Leave
<1>5. CASE CliWritesRow \/ Tick \/ UNCHANGED vars
  BY <1>5 DEF CliWritesRow, Tick, vars
<1> QED
  BY <1>1, <1>2, <1>3, <1>4, <1>5 DEF Next

-----------------------------------------------------------------------------
(* The chain of refresh tokens.                                            *)

Chain == TokensIssued /\ SpentIsMarked /\ CopiesAreMarked /\ NoReplay

\* A step that moves calls about but leaves alone every credential and every
\* exchange that goes on.
Quiet ==
  /\ UNCHANGED <<db, tokens, cached, burned, burnedUnparsable, spent>>
  /\ \A q \in Requests : pc'[q] \in {"posting", "reading"} =>
       pc'[q] = pc[q] /\ seed'[q] = seed[q]
  /\ \A q \in Requests : pc[q] = "reading" => pc'[q] = "reading"

\* The steps that are not quiet.
Chaining(r) ==
  \/ ServeDatabase(r) \/ StartRefresh(r) \/ See200(r) \/ CompleteRefresh(r)
  \/ FailAfter200(r) \/ RetryWithNewer(r) \/ CancelAfter200(r)

\* Every step is quiet, the CLI's, or one of the chaining ones.
LEMMA StepKinds ==
  TypeOK /\ [Next]_vars => Quiet \/ CliWritesRow \/ \E r \in Requests : Chaining(r)
<1> SUFFICES ASSUME TypeOK, [Next]_vars, ~CliWritesRow, ~\E r \in Requests : Chaining(r)
             PROVE  Quiet
  OBVIOUS
<1> USE DEF Quiet, Goto, Fail, Answer, Leave, envVars, burnVars, cycleVars
<1>0. pc \in [Requests -> Labels] /\ seed \in [Requests -> Credential]
  BY DEF TypeOK
<1>1. ASSUME NEW r \in Requests, Call(r) PROVE Quiet
  BY <1>0, <1>1 DEF Call, ServeCached, JoinGate, Return, Invalidate
<1>2. ASSUME NEW r \in Requests, EnterGate(r) PROVE Quiet
  BY <1>0, <1>2 DEF EnterGate
<1>3. ASSUME NEW r \in Requests, Progress(r) PROVE Quiet
  BY <1>0, <1>3 DEF Progress, Chaining, DatabaseUnreadable, ServeMinted, RefuseBurnedSeed,
                    FailBefore200, GiveUp, EndAttempt
<1>4. ASSUME NEW r \in Requests, Cancel(r) PROVE Quiet
  BY <1>0, <1>4 DEF Cancel, Chaining, CancelBefore200
<1>5. CASE Tick \/ UNCHANGED vars
  BY <1>5 DEF Tick, vars
<1> QED
  BY <1>1, <1>2, <1>3, <1>4, <1>5 DEF Next

\* A quiet step moves no credential and ends exchanges only.
LEMMA QuietKeepsChain == TypeOK /\ Chain /\ Quiet => Chain'
<1> SUFFICES ASSUME TypeOK, Chain, Quiet PROVE Chain'
  OBVIOUS
<1> USE DEF Chain, Quiet, Exchanging
<1>1. TokensIssued'    BY DEF TokensIssued, NoCredential
<1>2. SpentIsMarked'   BY DEF SpentIsMarked, AlreadyBurned
<1>3. CopiesAreMarked' BY DEF CopiesAreMarked, AlreadyBurned
<1>4. NoReplay'        BY DEF NoReplay
<1> QED BY <1>1, <1>2, <1>3, <1>4

\* A row the CLI writes carries a token nobody has seen.
LEMMA CliKeepsChain == TypeOK /\ GateHeld /\ Chain /\ CliWritesRow => Chain'
<1> SUFFICES ASSUME TypeOK, GateHeld, Chain, CliWritesRow PROVE Chain'
  OBVIOUS
<1> USE ConstantsAssumption DEF ConstantsAssumption, Chain, Exchanging, NoCredential, NoToken,
                                burnVars, cycleVars
<1>1. /\ db'.token = tokens + 1 /\ tokens' = tokens + 1 /\ tokens < MaxToken
      /\ UNCHANGED <<cached, burned, burnedUnparsable, pc, seed, spent>>
  BY DEF CliWritesRow
<1>2. tokens \in Nat
  BY DEF TypeOK
<1>3. TokensIssued'    BY <1>1, <1>2 DEF TokensIssued
<1>4. SpentIsMarked'   BY <1>1, <1>2 DEF SpentIsMarked, TokensIssued, AlreadyBurned
<1>5. CopiesAreMarked' BY <1>1, <1>2 DEF CopiesAreMarked, TokensIssued, AlreadyBurned
<1>6. NoReplay'        BY <1>1 DEF NoReplay
<1> QED BY <1>3, <1>4, <1>5, <1>6

\* Only the holder of the gate exchanges.
LEMMA OneExchange ==
  ASSUME TypeOK, GateHeld, NEW r \in Requests,
         pc[r] \in {"deciding", "posting", "reading", "rereading"}
  PROVE  \A q \in Requests : q # r => ~Exchanging(q)
BY DEF GateHeld, Exchanging

\* What a burn adds to the marker.
LEMMA BurnMarks ==
  ASSUME NEW x, Burn(x)
  PROVE  \A e : AlreadyBurned(e)' <=> AlreadyBurned(e) \/ e = x
BY DEF Burn, AlreadyBurned

\* The steps that move credentials keep every spent token marked: each case
\* uses that the gate admits one exchange at a time.
LEMMA ChainingKeepsChain ==
  ASSUME TypeOK, GateHeld, Chain, NEW r \in Requests, Chaining(r)
  PROVE  Chain'
<1> USE ConstantsAssumption DEF ConstantsAssumption, Chain, NoToken, NoCredential
<1> USE DEF Goto, Answer, Fail, envVars, burnVars, cycleVars
<1>0. /\ pc \in [Requests -> Labels] /\ seed \in [Requests -> Credential]
      /\ tokens \in Nat /\ spent \subseteq Nat
  BY DEF TypeOK
<1>a. \A q \in Requests : q # r => ~Exchanging(q)
  BY OneExchange DEF Chaining, ServeDatabase, StartRefresh, See200, CompleteRefresh,
                     FailAfter200, RetryWithNewer, CancelAfter200
<1>1. CASE ServeDatabase(r)
  <2>1. /\ cached' = db /\ UNCHANGED <<db, tokens, burned, burnedUnparsable, seed, spent>>
        /\ \A q \in Requests : ~Exchanging(q) /\ ~Exchanging(q)'
    BY <1>0, <1>a, <1>1 DEF ServeDatabase, Exchanging
  <2>2. TokensIssued'    BY <2>1 DEF TokensIssued, Exchanging
  <2>3. SpentIsMarked'   BY <2>1 DEF SpentIsMarked, Exchanging, AlreadyBurned
  <2>4. CopiesAreMarked' BY <2>1 DEF CopiesAreMarked
  <2>5. NoReplay'        BY <2>1 DEF NoReplay, Exchanging
  <2> QED BY <2>2, <2>3, <2>4, <2>5
<1>2. ASSUME NEW c \in {db, cached}, c # NoCredential, ~AlreadyBurned(c.expiry),
             pc[r] \in {"deciding", "rereading"}, pc' = [pc EXCEPT ![r] = "posting"],
             seed' = [seed EXCEPT ![r] = c],
             UNCHANGED <<db, cached, tokens, burned, burnedUnparsable, spent>>
      PROVE  Chain'
  <2>1. /\ \A q \in Requests : Exchanging(q)' => q = r /\ pc'[q] = "posting" /\ seed'[q] = c
        /\ \A q \in Requests : pc[q] # "reading"
    BY <1>0, <1>a, <1>2 DEF Exchanging
  <2>2. TokensIssued'    BY <1>0, <1>2, <2>1 DEF TokensIssued, Exchanging
  <2>3. SpentIsMarked'   BY <1>2, <2>1 DEF SpentIsMarked, Exchanging, AlreadyBurned
  <2>4. CopiesAreMarked'
    BY <1>2, <2>1 DEF CopiesAreMarked, AlreadyBurned
  <2>5. NoReplay'        BY <1>2, <2>1 DEF NoReplay, SpentIsMarked, Exchanging
  <2> QED BY <2>2, <2>3, <2>4, <2>5
<1>3. CASE StartRefresh(r)
  <2>1. ChainSeed \in {db, cached} /\ ChainSeed # NoCredential
    BY <1>0 DEF ChainSeed, TokensIssued
  <2> QED BY <1>2, <1>3, <2>1 DEF StartRefresh
<1>4. CASE RetryWithNewer(r)
  <2>1. db # NoCredential
    BY <1>0 DEF TokensIssued
  <2> QED BY <1>2, <1>4, <2>1 DEF RetryWithNewer
<1>5. CASE See200(r)
  <2>1. /\ pc[r] = "posting" /\ pc' = [pc EXCEPT ![r] = "reading"]
        /\ UNCHANGED <<db, cached, tokens, burned, burnedUnparsable, seed>>
        /\ \/ tokens < MaxToken /\ spent' = spent \cup {seed[r].token}
           \/ UNCHANGED spent
    BY <1>5 DEF See200
  <2>2. \A q \in Requests : Exchanging(q)' => q = r
    BY <1>0, <1>a, <2>1 DEF Exchanging
  <2>3. seed[r].token \in 1 .. tokens /\ seed[r].token \notin spent
    BY <2>1 DEF TokensIssued, NoReplay, Exchanging
  <2>4. TokensIssued'
    <3>1. spent' \subseteq 1 .. tokens
      BY <2>1, <2>3 DEF TokensIssued
    <3>2. \A q \in Requests : pc'[q] = "reading" /\ seed[q].token \in spent' => tokens <= MaxToken
      BY <1>0, <2>1, <2>2, <2>3 DEF Exchanging
    <3> QED BY <2>1, <2>2, <2>3, <3>1, <3>2 DEF TokensIssued
  <2>5. SpentIsMarked'
    <3>1. pc'[r] = "reading"
      BY <1>0, <2>1
    <3>2. SUFFICES ASSUME NEW c \in {db, cached}, c.token \in spent',
                          ~AlreadyBurned(c.expiry)
                   PROVE  seed[r].expiry = c.expiry
      BY <2>1, <3>1 DEF SpentIsMarked, AlreadyBurned
    <3>3. \A q \in Requests : pc[q] # "reading"
      BY <1>a, <2>1 DEF Exchanging
    <3>4. c.token = seed[r].token
      BY <2>1, <3>2, <3>3 DEF SpentIsMarked
    <3> QED BY <2>1, <3>2, <3>4 DEF CopiesAreMarked, Exchanging
  <2>6. CopiesAreMarked'
    BY <2>1, <2>2 DEF CopiesAreMarked, Exchanging, AlreadyBurned
  <2>7. NoReplay'
    BY <1>0, <2>1, <2>2 DEF NoReplay, Exchanging
  <2> QED BY <2>4, <2>5, <2>6, <2>7
\* An exchange that ends after a 200 burns its seed; nothing else changes.
<1>6. CASE FailAfter200(r) \/ CancelAfter200(r)
  <2>1. /\ pc[r] = "reading" /\ pc'[r] \notin {"posting", "reading"}
        /\ \A q \in Requests : q # r => pc'[q] = pc[q] /\ seed'[q] = seed[q]
        /\ UNCHANGED <<db, cached, tokens, spent>>
        /\ Burn(seed[r].expiry)
    BY <1>0, <1>6 DEF FailAfter200, CancelAfter200, EndAttempt, Leave
  <2>2. \A e : AlreadyBurned(e)' <=> AlreadyBurned(e) \/ e = seed[r].expiry
    BY <2>1, BurnMarks
  <2>3. \A q \in Requests : ~Exchanging(q)'
    BY <1>a, <2>1 DEF Exchanging
  <2>4. TokensIssued'    BY <2>1, <2>3 DEF TokensIssued, Exchanging
  <2>5. SpentIsMarked'
    <3>1. SUFFICES ASSUME NEW c \in {db, cached}, c.token \in spent
                   PROVE  AlreadyBurned(c.expiry)'
      BY <2>1 DEF SpentIsMarked
    <3>2. AlreadyBurned(c.expiry) \/ c.expiry = seed[r].expiry
      BY <1>a, <3>1 DEF SpentIsMarked, Exchanging
    <3> QED BY <2>2, <3>2
  <2>6. CopiesAreMarked' BY <2>1, <2>2, <2>3 DEF CopiesAreMarked
  <2>7. NoReplay'        BY <2>3 DEF NoReplay, Exchanging
  <2> QED BY <2>4, <2>5, <2>6, <2>7
\* A completed exchange burns its seed and caches the successor.
<1>7. CASE CompleteRefresh(r)
  <2>1. /\ pc[r] = "reading" /\ pc' = [pc EXCEPT ![r] = "served"]
        /\ UNCHANGED <<db, seed, spent>>
        /\ tokens' = IF seed[r].token \in spent THEN tokens + 1 ELSE tokens
        /\ cached'.token = IF seed[r].token \in spent THEN tokens' ELSE seed[r].token
        /\ Burn(seed[r].expiry)
    BY <1>7 DEF CompleteRefresh
  <2>2. \A e : AlreadyBurned(e)' <=> AlreadyBurned(e) \/ e = seed[r].expiry
    BY <2>1, BurnMarks
  <2>3. \A q \in Requests : ~Exchanging(q)'
    BY <1>0, <1>a, <2>1 DEF Exchanging
  <2>4. /\ seed[r].token \in 1 .. tokens
        /\ tokens' \in Nat /\ tokens <= tokens' /\ tokens' <= MaxToken + 1
    BY <1>0, <2>1 DEF TokensIssued, Exchanging
  <2>5. TokensIssued'
    <3>1. cached'.token \in 1 .. tokens'
      BY <1>0, <2>1, <2>4
    <3>2. db'.token \in 1 .. tokens' /\ spent' \subseteq 1 .. tokens'
      BY <1>0, <2>1, <2>4 DEF TokensIssued
    <3> QED BY <2>3, <2>4, <3>1, <3>2 DEF TokensIssued, Exchanging
  \* Every copy of the seed's token is marked now, and so is every spent one.
  <2>6. ASSUME NEW c \in {db, cached}, c.token \in spent \cup {seed[r].token}
        PROVE  AlreadyBurned(c.expiry)'
    <3>1. AlreadyBurned(c.expiry) \/ c.expiry = seed[r].expiry
      BY <1>a, <2>1, <2>6 DEF SpentIsMarked, CopiesAreMarked, Exchanging
    <3> QED BY <2>2, <3>1
  <2>7. cached'.token \notin spent
    BY <1>0, <2>1 DEF TokensIssued
  <2>8. SpentIsMarked'
    <3>1. db.token \in spent => AlreadyBurned(db.expiry)'
      BY <2>1, <2>6 DEF AlreadyBurned
    <3> QED BY <2>1, <2>7, <3>1 DEF SpentIsMarked, AlreadyBurned
  <2>9. CopiesAreMarked'
    <3>1. cached'.token = db.token => AlreadyBurned(db.expiry)'
      BY <1>0, <2>1, <2>6 DEF TokensIssued, AlreadyBurned
    <3> QED BY <2>1, <2>3, <3>1 DEF CopiesAreMarked, AlreadyBurned
  <2>10. NoReplay'        BY <2>3 DEF NoReplay, Exchanging
  <2> QED BY <2>5, <2>8, <2>9, <2>10
<1> QED
  BY <1>1, <1>3, <1>4, <1>5, <1>6, <1>7 DEF Chaining

-----------------------------------------------------------------------------
(* Nothing is exchanged while a valid credential minted here is cached.    *)

\* The clock only moves on, so a credential that is not valid stays so.
LEMMA ValidFades ==
  ASSUME TypeOK, NEW c \in Credential, now' \in Nat, now' >= now, c.expiry > now' + Buffer
  PROVE  Valid(c)
BY ConstantsAssumption DEF ConstantsAssumption, TypeOK, Valid, Credential

\* While a cycle goes on, nothing minted here and valid appears in the cache.
LEMMA NextValidMinted ==
  TypeOK /\ GateHeld /\ NothingValidMinted /\ [Next]_vars => NothingValidMinted'
<1> SUFFICES ASSUME TypeOK, GateHeld, NothingValidMinted, [Next]_vars
             PROVE  NothingValidMinted'
  OBVIOUS
<1> DEFINE Good(q) == (pc[q] # "deciding" \/ ~forcedCycle[q]) => ~(cached.minted /\ Valid(cached))
<1> USE DEF NothingValidMinted, Goto, Fail, Answer, Leave, envVars, burnVars, cycleVars
<1>0. /\ pc \in [Requests -> Labels] /\ forcedCycle \in [Requests -> BOOLEAN]
      /\ gate \subseteq Requests /\ forced \in BOOLEAN
      /\ now \in Nat /\ cached \in Credential
  BY DEF TypeOK
\* A step that keeps the clock and the cache keeps what is valid.
<1>1. UNCHANGED <<now, cached>> => (Valid(cached)' <=> Valid(cached))
  BY DEF Valid
<1>2. ASSUME NEW r \in Requests, Call(r) PROVE NothingValidMinted'
  <2>1. UNCHANGED <<now, cached, gate>> /\ \A q \in gate : q # r
    BY <1>2 DEF Call, ServeCached, JoinGate, Return, Invalidate, GateHeld
  <2>2. \A q \in gate : pc'[q] = pc[q] /\ forcedCycle'[q] = forcedCycle[q]
    BY <1>0, <1>2, <2>1 DEF Call, ServeCached, JoinGate, Return, Invalidate
  <2> QED BY <1>1, <2>1, <2>2
<1>3. ASSUME NEW r \in Requests, EnterGate(r) PROVE NothingValidMinted'
  <2>1. UNCHANGED <<now, cached>> /\ gate = {} /\ gate' \subseteq {r}
    BY <1>3 DEF EnterGate, GateFree
  <2>2. ASSUME r \in gate' PROVE ~forcedCycle'[r] => ~Valid(cached)
    BY <1>0, <1>3, <2>1, <2>2 DEF EnterGate
  <2>3. ASSUME r \in gate' PROVE pc'[r] = "deciding"
    BY <1>0, <1>3, <2>1, <2>3 DEF EnterGate
  <2> QED BY <1>1, <2>1, <2>2, <2>3
<1>4. ASSUME NEW r \in Requests, Progress(r) PROVE NothingValidMinted'
  <2>0. UNCHANGED <<now, forcedCycle>> /\ gate' \subseteq gate
    BY <1>4 DEF Progress, DatabaseUnreadable, ServeDatabase, ServeMinted, StartRefresh,
      RefuseBurnedSeed, FailBefore200, See200, CompleteRefresh, FailAfter200,
      RetryWithNewer, GiveUp, EndAttempt
  <2>1. CASE ServeDatabase(r) \/ CompleteRefresh(r)
    BY <1>0, <2>1 DEF ServeDatabase, CompleteRefresh, GateHeld
  <2>2. CASE UNCHANGED cached /\ pc[r] # "deciding"
    <3>1. r \in gate => ~(cached.minted /\ Valid(cached))
      BY <2>2
    <3>2. \A q \in gate : q = r
      BY <1>4, <2>2, <2>0 DEF GateHeld, Progress, DatabaseUnreadable, ServeDatabase,
        ServeMinted, StartRefresh, RefuseBurnedSeed, FailBefore200, See200, CompleteRefresh,
        FailAfter200, RetryWithNewer, GiveUp
    <3> QED BY <1>1, <2>0, <2>2, <3>1, <3>2
  <2>3. CASE DatabaseUnreadable(r) \/ ServeMinted(r) \/ RefuseBurnedSeed(r)
    <3>1. \A q \in gate' : FALSE
      BY <1>0, <2>3 DEF DatabaseUnreadable, ServeMinted, RefuseBurnedSeed, GateHeld
    <3> QED BY <3>1
  <2>4. CASE StartRefresh(r)
    <3>1. r \in gate /\ \A q \in gate : q = r
      BY <2>4 DEF StartRefresh, GateHeld
    <3>2. cached.minted => cached # NoCredential
      BY DEF NoCredential
    <3>3. ~(cached.minted /\ Valid(cached))
      BY <2>4, <3>1, <3>2 DEF StartRefresh, ReservesMinted
    <3> QED BY <1>1, <2>0, <2>4, <3>1, <3>3 DEF StartRefresh
  <2> QED
    BY <1>4, <2>1, <2>2, <2>3, <2>4 DEF Progress, FailBefore200, See200, FailAfter200,
      RetryWithNewer, GiveUp
<1>5. ASSUME NEW r \in Requests, Cancel(r) PROVE NothingValidMinted'
  <2>1. UNCHANGED <<now, cached>> /\ gate' \subseteq gate /\ r \notin gate'
    BY <1>5 DEF Cancel, CancelBefore200, CancelAfter200
  <2>2. \A q \in gate' : pc'[q] = pc[q] /\ forcedCycle'[q] = forcedCycle[q]
    BY <1>0, <1>5, <2>1 DEF Cancel, CancelBefore200, CancelAfter200
  <2> QED BY <1>1, <2>1, <2>2
<1>6. CASE Tick
  <2>1. /\ now' \in Nat /\ now' >= now
        /\ UNCHANGED <<cached, gate, pc, forcedCycle>>
    BY <1>0, <1>6 DEF Tick
  <2>2. Valid(cached)' => Valid(cached)
    BY <1>0, <2>1, ValidFades DEF Valid
  <2> QED BY <2>1, <2>2
<1>7. CASE CliWritesRow \/ UNCHANGED vars
  <2>1. UNCHANGED <<now, cached, gate, pc, forcedCycle>>
    BY <1>7 DEF CliWritesRow, vars
  <2> QED BY <1>1, <2>1
<1> QED
  BY <1>2, <1>3, <1>4, <1>5, <1>6, <1>7 DEF Next

-----------------------------------------------------------------------------
(* The theorems.                                                           *)

\* The inductive invariant holds at start-up ...
LEMMA InitInvariant == Init => IInv
<1> SUFFICES ASSUME Init PROVE IInv
  OBVIOUS
<1> USE ConstantsAssumption DEF ConstantsAssumption, Init
<1>1. TypeOK            BY InitType
<1>2. GateHeld          BY DEF GateHeld
<1>3. TokensIssued      BY DEF TokensIssued, Exchanging
<1>4. SpentIsMarked     BY DEF SpentIsMarked
<1>5. CopiesAreMarked   BY DEF CopiesAreMarked, Exchanging, NoCredential, NoToken
<1>6. NothingValidMinted BY DEF NothingValidMinted
<1>7. NoReplay          BY DEF NoReplay
<1> QED
  BY <1>1, <1>2, <1>3, <1>4, <1>5, <1>6, <1>7 DEF IInv, BooksBalance

\* ... and every step keeps it ...
LEMMA NextInvariant == IInv /\ [Next]_vars => IInv'
<1> SUFFICES ASSUME TypeOK, GateHeld, Chain, NothingValidMinted, [Next]_vars
             PROVE  TypeOK' /\ GateHeld' /\ Chain' /\ NothingValidMinted'
  BY DEF IInv, BooksBalance, Chain
<1>1. TypeOK' /\ GateHeld' /\ NothingValidMinted'
  BY NextType, NextGate, NextValidMinted
<1>2. Chain'
  BY StepKinds, QuietKeepsChain, CliKeepsChain, ChainingKeepsChain
<1> QED BY <1>1, <1>2

\* ... so it always holds.
LEMMA Invariance == Spec => []IInv
BY InitInvariant, NextInvariant, PTL DEF Spec

\* No refresh token known to be spent is ever presented again.
THEOREM NeverReplays == Spec => []NoReplay
<1>1. IInv => NoReplay
  BY DEF IInv
<1> QED BY Invariance, <1>1, PTL

\* The gate, the tokens, the burned marks and the forced-cycle bound fit
\* together in every reachable state.
THEOREM BooksAlwaysBalance == Spec => []BooksBalance
<1>1. IInv => BooksBalance
  BY DEF IInv
<1> QED BY Invariance, <1>1, PTL

\* The only steps that put a request on the wire.
LEMMA PostingSteps ==
  ASSUME TypeOK, [Next]_vars, NEW r \in Requests, pc[r] # "posting", pc'[r] = "posting"
  PROVE  StartRefresh(r) \/ RetryWithNewer(r)
<1> USE DEF Goto, Fail, Answer, Leave
<1>0. pc \in [Requests -> Labels]
  BY DEF TypeOK
<1>1. ASSUME NEW q \in Requests, Call(q) PROVE FALSE
  BY <1>0, <1>1 DEF Call, ServeCached, JoinGate, Return, Invalidate
<1>2. ASSUME NEW q \in Requests, EnterGate(q) PROVE FALSE
  BY <1>0, <1>2 DEF EnterGate
<1>3. ASSUME NEW q \in Requests, Progress(q) PROVE StartRefresh(r) \/ RetryWithNewer(r)
  BY <1>0, <1>3 DEF Progress, DatabaseUnreadable, ServeDatabase, ServeMinted, StartRefresh,
    RefuseBurnedSeed, FailBefore200, See200, CompleteRefresh, FailAfter200,
    RetryWithNewer, GiveUp, EndAttempt
<1>4. ASSUME NEW q \in Requests, Cancel(q) PROVE FALSE
  BY <1>0, <1>4 DEF Cancel, CancelBefore200, CancelAfter200
<1>5. CASE CliWritesRow \/ Tick \/ UNCHANGED vars
  BY <1>5 DEF CliWritesRow, Tick, vars
<1> QED
  BY <1>1, <1>2, <1>3, <1>4, <1>5 DEF Next

\* A refresh starts only if no valid credential minted here is cached.
THEOREM RefreshesOnlyWhenNeeded == Spec => ExchangeOnlyWhenNeeded
<1>1. ASSUME IInv, [Next]_vars, NEW r \in Requests, pc[r] # "posting", pc'[r] = "posting"
      PROVE  ~(cached.minted /\ Valid(cached))
  <2> USE <1>1 DEF IInv, BooksBalance, GateHeld, NothingValidMinted
  <2>1. CASE StartRefresh(r)
    <3>1. cached.minted => cached # NoCredential
      BY DEF NoCredential
    <3>2. r \in gate
      BY <2>1 DEF StartRefresh
    <3> QED BY <2>1, <3>1, <3>2 DEF StartRefresh, ReservesMinted
  <2>2. CASE RetryWithNewer(r)
    BY <2>2 DEF RetryWithNewer
  <2> QED BY <2>1, <2>2, PostingSteps
<1>2. IInv /\ [Next]_vars =>
        [ (\E r \in Requests : pc[r] # "posting" /\ pc'[r] = "posting")
            => ~(cached.minted /\ Valid(cached)) ]_vars
  BY <1>1
<1> QED BY Invariance, <1>2, PTL DEF Spec, ExchangeOnlyWhenNeeded

-----------------------------------------------------------------------------
(* The burn decision.                                                      *)

Ended == {q \in Requests : pc[q] = "reading" /\ pc'[q] # "reading"}

Marked(ended) == {seed[q].expiry : q \in ended}

BurnsExactly ==
  /\ burned' = burned \cup (Marked(Ended) \ {Epoch})
  /\ burnedUnparsable' = (burnedUnparsable \/ Epoch \in Marked(Ended))

\* What any step burns: the seeds of the exchanges it ends after a 200.
LEMMA NextBurns == ASSUME TypeOK, [Next]_vars PROVE BurnsExactly
<1> USE DEF Goto, Fail, Answer, Leave, envVars, burnVars, cycleVars
<1>0. pc \in [Requests -> Labels] /\ burnedUnparsable \in BOOLEAN
  BY DEF TypeOK
<1>1. ASSUME UNCHANGED burnVars, \A q \in Requests : pc[q] = "reading" => pc'[q] = "reading"
      PROVE  BurnsExactly
  <2>1. Marked(Ended) = {}
    BY <1>1 DEF Marked, Ended
  <2> QED BY <1>0, <1>1, <2>1 DEF BurnsExactly
<1>2. ASSUME NEW r \in Requests, pc[r] = "reading", pc'[r] # "reading", Burn(seed[r].expiry),
             \A q \in Requests \ {r} : pc'[q] = pc[q]
      PROVE  BurnsExactly
  <2>1. Ended = {r}
    BY <1>2 DEF Ended
  <2>2. Marked(Ended) = {seed[r].expiry}
    BY <2>1 DEF Marked
  <2> QED BY <1>0, <1>2, <2>2 DEF BurnsExactly, Burn
<1>3. ASSUME NEW r \in Requests, Call(r) PROVE BurnsExactly
  BY <1>0, <1>1, <1>3 DEF Call, ServeCached, JoinGate, Return, Invalidate
<1>4. ASSUME NEW r \in Requests, EnterGate(r) PROVE BurnsExactly
  BY <1>0, <1>1, <1>4 DEF EnterGate
<1>5. ASSUME NEW r \in Requests, Progress(r) PROVE BurnsExactly
  <2>1. CASE CompleteRefresh(r)
    BY <1>0, <1>2, <2>1 DEF CompleteRefresh
  <2>2. CASE FailAfter200(r)
    BY <1>0, <1>2, <2>2 DEF FailAfter200, EndAttempt
  <2> QED
    BY <1>0, <1>1, <1>5, <2>1, <2>2 DEF Progress, DatabaseUnreadable, ServeDatabase,
      ServeMinted, StartRefresh, RefuseBurnedSeed, FailBefore200, See200,
      RetryWithNewer, GiveUp, EndAttempt
<1>6. ASSUME NEW r \in Requests, Cancel(r) PROVE BurnsExactly
  <2>1. CASE CancelBefore200(r)
    BY <1>0, <1>1, <2>1 DEF CancelBefore200
  <2>2. CASE CancelAfter200(r)
    BY <1>0, <1>2, <2>2 DEF CancelAfter200
  <2> QED BY <1>6, <2>1, <2>2 DEF Cancel
<1>7. CASE CliWritesRow \/ Tick \/ UNCHANGED vars
  BY <1>1, <1>7 DEF CliWritesRow, Tick, vars
<1> QED
  BY <1>3, <1>4, <1>5, <1>6, <1>7 DEF Next

\* Every way out of a refresh that saw a 200 burns its seed, and nothing
\* else ever burns one.
THEOREM BurnsIffSeen200 == Spec => BurnIffSeen200
<1>1. TypeOK /\ [Next]_vars =>
        [ LET ended  == {r \in Requests : pc[r] = "reading" /\ pc'[r] # "reading"}
              marked == {seed[r].expiry : r \in ended}
          IN /\ burned' = burned \cup (marked \ {Epoch})
             /\ burnedUnparsable' = (burnedUnparsable \/ Epoch \in marked) ]_vars
  BY NextBurns DEF BurnsExactly, Ended, Marked
<1> QED BY TypeCorrect, <1>1, PTL DEF Spec, BurnIffSeen200

-----------------------------------------------------------------------------
(* Refinement: what the OIDC endpoint sees.                                *)

Flying == {seed[r].token : r \in {q \in Requests : Exchanging(q)}}

AbstractVars == <<Flying, spent>>

AbstractNext ==
  \/ \E t \in 1 .. (MaxToken + 1) :
       Flying = {} /\ t \notin spent /\ Flying' = {t} /\ UNCHANGED spent
  \/ Flying # {} /\ spent' = spent \cup Flying /\ UNCHANGED Flying
  \/ Flying' = {} /\ UNCHANGED spent

\* A quiet step leaves the exchange alone or ends it.
LEMMA QuietSimulates ==
  ASSUME TypeOK, GateHeld, Quiet
  PROVE  AbstractNext \/ UNCHANGED AbstractVars
<1>1. CASE \E r \in Requests : Exchanging(r) /\ Exchanging(r)'
  <2>1. PICK r \in Requests : Exchanging(r) /\ Exchanging(r)'
    BY <1>1
  <2>2. \A q \in Requests : q # r => ~Exchanging(q)
    BY <2>1, OneExchange DEF Exchanging
  <2>3. \A q \in Requests : q # r => ~Exchanging(q)'
    BY <2>2 DEF Quiet, Exchanging
  <2>4. seed'[r].token = seed[r].token
    BY <2>1 DEF Quiet, Exchanging
  <2>5. Flying = {seed[r].token} /\ Flying' = {seed'[r].token}
    BY <2>1, <2>2, <2>3 DEF Flying
  <2> QED BY <2>4, <2>5 DEF Quiet, AbstractVars
<1>2. CASE \A r \in Requests : ~(Exchanging(r) /\ Exchanging(r)')
  <2>1. \A q \in Requests : ~Exchanging(q)'
    BY <1>2 DEF Quiet, Exchanging
  <2>2. Flying' = {}
    BY <2>1 DEF Flying
  <2> QED BY <2>2 DEF AbstractNext, Quiet
<1> QED BY <1>1, <1>2

\* A chaining step presents, settles or ends one exchange, or stutters.
LEMMA ChainingSimulates ==
  ASSUME TypeOK, GateHeld, Chain, NEW r \in Requests, Chaining(r), Chain', TypeOK'
  PROVE  AbstractNext \/ UNCHANGED AbstractVars
<1> USE DEF Goto, Answer, Fail
<1>0. /\ pc \in [Requests -> Labels] /\ seed \in [Requests -> Credential] /\ tokens \in Nat
      /\ MaxToken \in Nat
  BY ConstantsAssumption DEF TypeOK, ConstantsAssumption
<1>a. \A q \in Requests : q # r => ~Exchanging(q)
  BY OneExchange DEF Chaining, ServeDatabase, StartRefresh, See200, CompleteRefresh,
                     FailAfter200, RetryWithNewer, CancelAfter200
\* The exchange is over, or there was none.
<1>1. CASE \/ ServeDatabase(r) \/ CompleteRefresh(r) \/ FailAfter200(r) \/ CancelAfter200(r)
  <2>1. UNCHANGED spent /\ \A q \in Requests : ~Exchanging(q)'
    BY <1>0, <1>a, <1>1 DEF ServeDatabase, CompleteRefresh, FailAfter200, CancelAfter200,
                            EndAttempt, Leave, Exchanging
  <2>2. Flying' = {}
    BY <2>1 DEF Flying
  <2> QED BY <2>1, <2>2 DEF AbstractNext
\* A seed is presented: it is not spent.
<1>2. CASE StartRefresh(r) \/ RetryWithNewer(r)
  <2>1. /\ ~Exchanging(r) /\ pc'[r] = "posting" /\ UNCHANGED <<spent, tokens>>
        /\ \A q \in Requests : q # r => ~Exchanging(q)'
    BY <1>0, <1>a, <1>2 DEF StartRefresh, RetryWithNewer, Exchanging
  <2>2. Flying = {} /\ Flying' = {seed'[r].token}
    BY <1>a, <2>1 DEF Flying, Exchanging
  <2>3. seed'[r].token \notin spent
    BY <2>1 DEF Chain, NoReplay
  <2>4. seed'[r].token \in 1 .. (MaxToken + 1)
    BY <1>0, <2>1 DEF Chain, TokensIssued, Exchanging
  <2> QED BY <2>1, <2>2, <2>3, <2>4 DEF AbstractNext
\* The endpoint answers: the token presented may be replaced.
<1>3. CASE See200(r)
  <2>1. /\ Exchanging(r) /\ Exchanging(r)' /\ UNCHANGED seed
        /\ \A q \in Requests : q # r => ~Exchanging(q)'
        /\ spent' = spent \cup {seed[r].token} \/ UNCHANGED spent
    BY <1>0, <1>a, <1>3 DEF See200, Exchanging, cycleVars
  <2>2. Flying = {seed[r].token} /\ Flying' = {seed[r].token}
    BY <1>a, <2>1 DEF Flying
  <2> QED BY <2>1, <2>2 DEF AbstractNext, AbstractVars
<1> QED BY <1>1, <1>2, <1>3 DEF Chaining

\* Every step maps to a step of ExchangeOnce or to a stutter.
LEMMA NextSimulates ==
  ASSUME TypeOK, GateHeld, Chain, TypeOK', Chain', [Next]_vars
  PROVE  AbstractNext \/ UNCHANGED AbstractVars
<1>1. CASE Quiet
  BY <1>1, QuietSimulates
<1>2. CASE CliWritesRow
  <2>1. UNCHANGED <<pc, seed, spent>>
    BY <1>2 DEF CliWritesRow, cycleVars
  <2>2. UNCHANGED Flying
    BY <2>1 DEF Flying, Exchanging
  <2> QED BY <2>1, <2>2 DEF AbstractVars
<1>3. CASE \E r \in Requests : Chaining(r)
  BY <1>3, ChainingSimulates
<1> QED BY <1>1, <1>2, <1>3, StepKinds

\* TokenSource implements ExchangeOnce: whatever the requests, the CLI and
\* the clock do, the endpoint is presented one token at a time, and none that
\* this process has seen replaced.
THEOREM Implements == Spec => ExchangesOnce
<1>1. Init => Exchanges!Init
  <2> SUFFICES ASSUME Init PROVE Exchanges!Init
    OBVIOUS
  <2>1. Flying = {} /\ spent = {}
    BY DEF Init, Flying, Exchanging
  <2> QED BY <2>1 DEF Exchanges!Init, Flying
<1>2. IInv /\ IInv' /\ [Next]_vars => [Exchanges!Next]_(Exchanges!vars)
  <2>1. IInv /\ IInv' /\ [Next]_vars => AbstractNext \/ UNCHANGED AbstractVars
    BY NextSimulates DEF IInv, BooksBalance, Chain
  <2>2. AbstractNext => Exchanges!Next
    BY DEF AbstractNext, Flying, Exchanges!Next, Exchanges!Present, Exchanges!Replace,
           Exchanges!Settle
  <2>3. UNCHANGED AbstractVars => UNCHANGED Exchanges!vars
    BY DEF AbstractVars, Flying, Exchanges!vars
  <2> QED BY <2>1, <2>2, <2>3
<1> QED BY Invariance, <1>1, <1>2, PTL DEF Spec, ExchangesOnce, Exchanges!Spec

-----------------------------------------------------------------------------
(* The cache does not go back.                                             *)

\* A token obtained here lives at least as long as one the CLI obtained then.
RefreshesOutlive ==
  \A l \in Lifetimes :
    /\ \A c \in CliLifetimes : c <= l
    /\ \A e \in InitialExpiries : e <= 1 + l

UnderWay(r) == pc[r] \in {"posting", "reading", "rereading"}

\* What is cached is at least as late as the row it is not older than, and what is
\* exchanged is not older than what is cached: a row that changed under an exchange
\* is newer.
InOrder ==
  /\ \A l \in Lifetimes : db.expiry <= now + l
  /\ cached.token >= db.token => cached.expiry >= db.expiry
  /\ \A r \in Requests : Exchanging(r) => seed[r].token >= cached.token
  /\ \A r \in Requests : UnderWay(r) => topExpiry[r] = db.expiry \/ db.token > cached.token

\* A process that has started has cached nothing.
LEMMA InitInOrder == RefreshesOutlive /\ Init => InOrder
<1> SUFFICES ASSUME RefreshesOutlive, Init PROVE InOrder
  OBVIOUS
<1>1. PICK e \in InitialExpiries : db = [expiry |-> e, token |-> 1, minted |-> FALSE]
  BY DEF Init
<1>2. \A l \in Lifetimes : db.expiry <= now + l
  BY <1>1 DEF Init, RefreshesOutlive
<1> QED BY <1>1, <1>2 DEF Init, InOrder, Exchanging, UnderWay, NoCredential, NoToken

\* A step that moves no credential leaves a cycle's first look at the row as it is.
LEMMA OthersKeepTop ==
  ASSUME TypeOK, [Next]_vars, ~CliWritesRow, ~\E r \in Requests : Chaining(r),
         NEW q \in Requests, UnderWay(q)'
  PROVE  UnderWay(q) /\ topExpiry'[q] = topExpiry[q]
<1> USE DEF Goto, Fail, Answer, Leave, envVars, burnVars, cycleVars, UnderWay
<1>0. pc \in [Requests -> Labels] /\ topExpiry \in [Requests -> Nat]
  BY DEF TypeOK
<1>1. ASSUME NEW r \in Requests, Call(r) PROVE UnderWay(q) /\ topExpiry'[q] = topExpiry[q]
  BY <1>0, <1>1 DEF Call, ServeCached, JoinGate, Return, Invalidate
<1>2. ASSUME NEW r \in Requests, EnterGate(r) PROVE UnderWay(q) /\ topExpiry'[q] = topExpiry[q]
  BY <1>0, <1>2 DEF EnterGate
<1>3. ASSUME NEW r \in Requests, Progress(r) PROVE UnderWay(q) /\ topExpiry'[q] = topExpiry[q]
  BY <1>0, <1>3 DEF Progress, Chaining, DatabaseUnreadable, ServeMinted, RefuseBurnedSeed,
                    FailBefore200, GiveUp, EndAttempt
<1>4. ASSUME NEW r \in Requests, Cancel(r) PROVE UnderWay(q) /\ topExpiry'[q] = topExpiry[q]
  BY <1>0, <1>4 DEF Cancel, Chaining, CancelBefore200
<1>5. CASE Tick \/ UNCHANGED vars
  BY <1>5 DEF Tick, vars
<1> QED
  BY <1>1, <1>2, <1>3, <1>4, <1>5 DEF Next

\* Nor does the clock go back.
LEMMA ClockGoesOn ==
  ASSUME TypeOK, [Next]_vars
  PROVE  now' \in Nat /\ now' >= now
<1> USE DEF TypeOK, envVars
<1>1. ASSUME NEW r \in Requests,
   Call(r) \/ EnterGate(r) \/ Progress(r) \/ Cancel(r) PROVE now' = now
  BY <1>1 DEF Call, ServeCached, JoinGate, Return, Invalidate, EnterGate, Progress,
              DatabaseUnreadable, ServeDatabase, ServeMinted, StartRefresh, RefuseBurnedSeed,
              FailBefore200, See200, CompleteRefresh, FailAfter200, RetryWithNewer, GiveUp,
              Cancel, CancelBefore200, CancelAfter200
<1>2. CASE CliWritesRow \/ UNCHANGED vars
  BY <1>2 DEF CliWritesRow, vars
<1>3. CASE Tick
  BY <1>3 DEF Tick
<1> QED BY <1>1, <1>2, <1>3 DEF Next

\* The numbers of the credentials.
LEMMA Numbers ==
  ASSUME TypeOK
  PROVE  /\ now \in Nat /\ tokens \in Nat
         /\ cached.token \in Nat /\ cached.expiry \in Nat /\ db.token \in Nat /\ db.expiry \in Nat
         /\ \A r \in Requests : seed[r].token \in Nat /\ topExpiry[r] \in Nat
BY Fields DEF TypeOK

\* What is minted outlives the row, and is not older than its seed.
LEMMA MintedIs ==
  ASSUME IInv, InOrder, NEW r \in Requests, CompleteRefresh(r)
  PROVE  /\ cached'.expiry >= db.expiry
         /\ cached'.token >= cached.token /\ cached'.token \in Nat
<1>0. TypeOK /\ TokensIssued /\ pc[r] = "reading"
  BY DEF IInv, BooksBalance, CompleteRefresh
<1>1. PICK lifetime \in Lifetimes :
        cached' = [expiry |-> now + lifetime,
                   token  |-> IF seed[r].token \in spent THEN tokens' ELSE seed[r].token,
                   minted |-> TRUE]
  BY DEF CompleteRefresh
<1>2. cached'.expiry = now + lifetime /\ db.expiry <= now + lifetime
  BY <1>1 DEF InOrder
<1>3. seed[r].token >= cached.token
  BY <1>0 DEF InOrder, Exchanging
<1>4. cached.token <= tokens
  BY <1>0, Numbers DEF TokensIssued, NoCredential, NoToken
<1>5. CASE seed[r].token \in spent
  <2>1. cached'.token = tokens + 1
    BY <1>1, <1>5 DEF CompleteRefresh
  <2> QED BY <1>0, <1>2, <1>4, <2>1, Numbers
<1>6. CASE seed[r].token \notin spent
  <2>1. cached'.token = seed[r].token
    BY <1>1, <1>6
  <2> QED BY <1>0, <1>2, <1>3, <2>1, Numbers
<1> QED BY <1>5, <1>6

\* The row served is newer than what was cached.
LEMMA ServedRowIsNewer ==
  ASSUME IInv, InOrder, DatabaseWins
  PROVE  db.token > cached.token
<1>0. TypeOK /\ TokensIssued
  BY DEF IInv, BooksBalance
<1>1. CASE cached = NoCredential
  BY <1>0, <1>1, Numbers DEF TokensIssued, NoCredential, NoToken
<1>2. CASE db.expiry > cached.expiry
  BY <1>0, <1>2, Numbers DEF InOrder
<1> QED BY <1>1, <1>2 DEF DatabaseWins, DbIsNewer

\* A row the CLI writes is newer than everything, and expires no later than what
\* would be minted now.
LEMMA CliKeepsOrder == RefreshesOutlive /\ IInv /\ InOrder /\ CliWritesRow => InOrder'
<1> SUFFICES ASSUME RefreshesOutlive, IInv, InOrder, CliWritesRow PROVE InOrder'
  OBVIOUS
<1>0. TypeOK /\ TokensIssued
  BY DEF IInv, BooksBalance
<1>1. PICK e \in {Epoch} \cup {now + l : l \in CliLifetimes} :
        db' = [expiry |-> e, token |-> tokens + 1, minted |-> FALSE]
  BY DEF CliWritesRow
<1>2. UNCHANGED <<now, cached, pc, seed, topExpiry>>
  BY DEF CliWritesRow, cycleVars
<1>3. db'.token > cached.token
  BY <1>0, <1>1, Numbers DEF TokensIssued, NoCredential, NoToken
<1>4. ASSUME NEW l \in Lifetimes PROVE db'.expiry <= now' + l
  <2>1. l \in Nat /\ now \in Nat /\ \A c \in CliLifetimes : c \in Nat /\ c <= l
    BY <1>0, <1>4, ConstantsAssumption, Numbers DEF ConstantsAssumption, RefreshesOutlive
  <2> QED BY <1>1, <1>2, <2>1 DEF Epoch
<1>5. ~(cached'.token >= db'.token)
  BY <1>0, <1>1, <1>2, <1>3, Numbers
<1>6. \A r \in Requests : Exchanging(r)' => seed'[r].token >= cached'.token
  BY <1>2 DEF InOrder, Exchanging
<1>7. \A r \in Requests : UnderWay(r)' => db'.token > cached'.token
  BY <1>2, <1>3
<1> QED BY <1>4, <1>5, <1>6, <1>7 DEF InOrder

\* Steps that move no credential keep the order.
LEMMA QuietKeepsOrder ==
  ASSUME IInv, InOrder, [Next]_vars, ~CliWritesRow, ~\E r \in Requests : Chaining(r)
  PROVE  InOrder'
<1>0. TypeOK
  BY DEF IInv
<1>1. Quiet
  BY <1>0, StepKinds
<1>2. ASSUME NEW l \in Lifetimes PROVE db'.expiry <= now' + l
  <2>1. now' \in Nat /\ now' >= now /\ l \in Nat
    BY <1>0, ClockGoesOn, ConstantsAssumption DEF ConstantsAssumption
  <2>2. db' = db /\ db.expiry <= now + l
    BY <1>1 DEF InOrder, Quiet
  <2> QED BY <1>0, <2>1, <2>2, Numbers
<1>3. cached'.token >= db'.token => cached'.expiry >= db'.expiry
  BY <1>1 DEF InOrder, Quiet
<1>4. \A r \in Requests : Exchanging(r)' => seed'[r].token >= cached'.token
  BY <1>1 DEF InOrder, Quiet, Exchanging
<1>5. \A r \in Requests : UnderWay(r)' => topExpiry'[r] = db'.expiry \/ db'.token > cached'.token
  BY <1>0, <1>1, OthersKeepTop DEF InOrder, Quiet
<1> QED BY <1>2, <1>3, <1>4, <1>5 DEF InOrder

\* So do the steps that do: only the holder of the gate takes them.
LEMMA ChainingKeepsOrder ==
  ASSUME IInv, InOrder, NEW r \in Requests, Chaining(r)
  PROVE  InOrder' /\ cached'.token >= cached.token
<1>0. TypeOK /\ TokensIssued /\ GateHeld
  BY DEF IInv, BooksBalance
<1>1. /\ pc \in [Requests -> Labels] /\ seed \in [Requests -> Credential]
      /\ topExpiry \in [Requests -> Nat]
  BY <1>0 DEF TypeOK
<1>2. \A q \in Requests : q # r => ~UnderWay(q) /\ ~Exchanging(q)
  BY <1>0 DEF GateHeld, UnderWay, Exchanging, Chaining, ServeDatabase, StartRefresh, See200,
              CompleteRefresh, FailAfter200, RetryWithNewer, CancelAfter200
<1>3. UNCHANGED <<now, db>>
  BY DEF Chaining, ServeDatabase, StartRefresh, See200, CompleteRefresh, FailAfter200,
         RetryWithNewer, CancelAfter200, envVars
<1>4. \A q \in Requests : q # r => pc'[q] = pc[q]
  BY <1>1 DEF Chaining, ServeDatabase, StartRefresh, See200, CompleteRefresh, FailAfter200,
              RetryWithNewer, CancelAfter200, Goto, Answer, Fail, EndAttempt, Leave
<1>5. \A q \in Requests : q # r => ~UnderWay(q)' /\ ~Exchanging(q)'
  BY <1>2, <1>4 DEF UnderWay, Exchanging
<1>6. \A l \in Lifetimes : db'.expiry <= now' + l
  BY <1>3 DEF InOrder
<1> DEFINE Rest ==
      /\ cached'.token >= cached.token
      /\ cached'.token >= db.token => cached'.expiry >= db.expiry
      /\ Exchanging(r)' => seed'[r].token >= cached'.token
      /\ UnderWay(r)' => topExpiry'[r] = db.expiry \/ db.token > cached'.token
<1>7. Rest => InOrder' /\ cached'.token >= cached.token
  BY <1>3, <1>5, <1>6 DEF InOrder
<1>n. /\ cached.token \in Nat /\ cached.expiry \in Nat /\ db.token \in Nat /\ db.expiry \in Nat
      /\ cached.token >= db.token => cached.expiry >= db.expiry
      /\ Exchanging(r) => seed[r].token >= cached.token
      /\ UnderWay(r) => topExpiry[r] = db.expiry \/ db.token > cached.token
  BY <1>0, Numbers DEF InOrder
<1>8. CASE ServeDatabase(r)
  <2>1. db.token > cached.token
    BY <1>8, ServedRowIsNewer DEF ServeDatabase
  <2>2. cached' = db /\ pc'[r] = "served"
    BY <1>1, <1>8 DEF ServeDatabase, Answer, Goto
  <2>3. Rest
    BY <1>n, <2>1, <2>2 DEF Exchanging, UnderWay
  <2> QED BY <1>7, <2>3
<1>9. CASE StartRefresh(r)
  <2>1. cached' = cached /\ pc'[r] = "posting" /\ topExpiry'[r] = db.expiry /\ seed'[r] = ChainSeed
    BY <1>1, <1>9 DEF StartRefresh, Goto
  <2>2. ChainSeed.token >= cached.token
    <3>1. CASE cached # NoCredential /\ cached.expiry >= db.expiry
      BY <1>n, <3>1 DEF ChainSeed
    <3>2. CASE cached = NoCredential
      BY <1>n, <3>2 DEF ChainSeed, NoCredential, NoToken
    <3>3. CASE cached # NoCredential /\ ~(cached.expiry >= db.expiry)
      BY <1>n, <3>3 DEF ChainSeed
    <3> QED BY <3>1, <3>2, <3>3
  <2>3. Rest
    BY <1>n, <2>1, <2>2
  <2> QED BY <1>7, <2>3
<1>10. CASE See200(r)
  <2>1. cached' = cached /\ pc[r] = "posting" /\ topExpiry' = topExpiry /\ seed' = seed
    BY <1>10 DEF See200, cycleVars
  <2>2. Rest
    BY <1>n, <2>1 DEF Exchanging, UnderWay
  <2> QED BY <1>7, <2>2
<1>11. CASE CompleteRefresh(r)
  <2>1. cached'.expiry >= db.expiry /\ cached'.token >= cached.token
    BY <1>11, MintedIs
  <2>2. pc'[r] = "served"
    BY <1>1, <1>11 DEF CompleteRefresh, Answer, Goto
  <2>3. Rest
    BY <2>1, <2>2 DEF Exchanging, UnderWay
  <2> QED BY <1>7, <2>3
<1>12. CASE FailAfter200(r)
  <2>1. /\ cached' = cached /\ topExpiry' = topExpiry
        /\ pc[r] = "reading" /\ pc'[r] \in {"failed", "rereading"}
    BY <1>1, <1>12 DEF FailAfter200, EndAttempt, Fail, Goto, cycleVars
  <2>2. Rest
    BY <1>n, <2>1 DEF Exchanging, UnderWay
  <2> QED BY <1>7, <2>2
<1>13. CASE RetryWithNewer(r)
  <2>1. /\ cached' = cached /\ pc[r] = "rereading" /\ topExpiry' = topExpiry /\ seed'[r] = db
        /\ db.expiry # topExpiry[r]
    BY <1>1, <1>13 DEF RetryWithNewer
  <2>2. Rest
    BY <1>n, <2>1 DEF Exchanging, UnderWay
  <2> QED BY <1>7, <2>2
<1>14. CASE CancelAfter200(r)
  <2>1. cached' = cached /\ pc'[r] = "idle"
    BY <1>1, <1>14 DEF CancelAfter200, Leave, Goto
  <2>2. Rest
    BY <1>n, <2>1 DEF Exchanging, UnderWay
  <2> QED BY <1>7, <2>2
<1> QED BY <1>8, <1>9, <1>10, <1>11, <1>12, <1>13, <1>14 DEF Chaining

\* Every step keeps the order, and the cache never goes back to an older token.
LEMMA NextInOrder ==
  ASSUME RefreshesOutlive, IInv, InOrder, [Next]_vars
  PROVE  InOrder' /\ cached'.token >= cached.token
<1>0. TypeOK
  BY DEF IInv
<1>1. CASE CliWritesRow
  <2>1. cached' = cached
    BY <1>1 DEF CliWritesRow
  <2> QED BY <1>0, <1>1, <2>1, CliKeepsOrder, Numbers
<1>2. CASE \E r \in Requests : Chaining(r)
  BY <1>2, ChainingKeepsOrder
<1>3. CASE ~CliWritesRow /\ ~\E r \in Requests : Chaining(r)
  <2>1. Quiet
    BY <1>0, <1>3, StepKinds
  <2>2. cached' = cached
    BY <2>1 DEF Quiet
  <2> QED BY <1>0, <1>3, <2>2, QuietKeepsOrder, Numbers
<1> QED BY <1>1, <1>2, <1>3

\* If what is minted here lives as long as what the CLI obtains, the order holds
\* always,
LEMMA OrderInvariance == RefreshesOutlive => (Spec => []InOrder)
<1> SUFFICES ASSUME RefreshesOutlive PROVE Spec => []InOrder
  OBVIOUS
<1>1. Init => InOrder
  BY InitInOrder
<1>2. IInv /\ InOrder /\ [Next]_vars => InOrder'
  BY NextInOrder
<1> QED BY <1>1, <1>2, Invariance, PTL DEF Spec

\* and the cache never goes back to a credential whose token was exchanged.
THEOREM NeverGoesBack == RefreshesOutlive => (Spec => NeverHandedBack)
<1> SUFFICES ASSUME RefreshesOutlive PROVE Spec => NeverHandedBack
  OBVIOUS
<1>1. IInv /\ InOrder /\ [Next]_vars => [cached'.token >= cached.token]_cached
  BY NextInOrder
<1> QED BY <1>1, Invariance, OrderInvariance, PTL DEF Spec, NeverHandedBack
=============================================================================

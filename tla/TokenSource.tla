---------------------------- MODULE TokenSource ----------------------------
(***************************************************************************)
(* The in-memory credential cache of kiro-trust-auth (source.rs) with the  *)
(* OIDC refresh it drives (refresh.rs).  Concurrent requests share one     *)
(* cached credential, one async gate and one "burned" marker; the Kiro CLI *)
(* owns the database row and may rewrite it between any two steps; a       *)
(* request may be dropped at any await.                                    *)
(*                                                                         *)
(* A credential is [expiry, token, minted]: the access-token text, client  *)
(* id and regions ride along unchanged and are left out.  An action covers *)
(* the code between two awaits, or between two accesses to state that      *)
(* another request can change.                                             *)
(***************************************************************************)
EXTENDS Naturals

CONSTANTS
  Requests,         \* concurrent callers of TokenSource::current
  Buffer,           \* VALIDITY_BUFFER, in ticks
  InitialExpiries,  \* expires_at of the row found at start-up
  CliLifetimes,     \* lifetimes of the rows the Kiro CLI writes
  Lifetimes,        \* expiresIn values that pass the guard of refresh()
  MaxTime,          \* bound: the clock stops here
  MaxToken          \* bound: no new refresh token is issued past this one

ASSUME ConstantsAssumption ==
  /\ Buffer \in Nat
  /\ InitialExpiries \subseteq Nat
  /\ CliLifetimes \subseteq Nat
  /\ Lifetimes \subseteq Nat \ {0}
  /\ MaxTime \in Nat
  /\ MaxToken \in Nat

VARIABLES
  now,               \* the wall clock
  db,                \* the row in the Kiro CLI's database
  tokens,            \* refresh tokens issued so far; the next one is tokens + 1
  cached,            \* TokenSource.cached
  forced,            \* TokenSource.forced
  burned,            \* TokenSource.burned
  burnedUnparsable,  \* TokenSource.burned_unparsable
  gate,              \* who holds TokenSource.refresh_gate: {} or one request
  pc,                \* where each call of current() stands
  forcedCycle,       \* current()'s local "forced"
  seed,              \* current()'s local "seed"
  topExpiry,         \* current()'s local "seed_expires_at"
  retried,           \* is the exchange under way rule 3's single retry?
  answer,            \* the credential a finished call returned
  spent              \* history: tokens a 200 was seen for and the endpoint replaced

cycleVars == <<forcedCycle, seed, topExpiry, retried>>
burnVars  == <<burned, burnedUnparsable>>
envVars   == <<now, db>>
vars == <<now, db, tokens, cached, forced, burned, burnedUnparsable, gate, pc,
          forcedCycle, seed, topExpiry, retried, answer, spent>>

Epoch   == 0     \* UNIX_EPOCH, what an unparsable expiresAt reads as
NoToken == 0
NoCredential == [expiry |-> Epoch, token |-> NoToken, minted |-> FALSE]

Credential == [expiry : Nat, token : Nat, minted : BOOLEAN]

-----------------------------------------------------------------------------
Valid(c) == c.expiry > now + Buffer

\* A row merely different from the cached credential, not strictly newer.
DbIsDifferent == cached = NoCredential \/ db.expiry # cached.expiry

\* Rule 1: strictly newer than what is cached, or nothing is cached.
DbIsNewer == cached = NoCredential \/ db.expiry > cached.expiry

DatabaseWins == Valid(db) /\ DbIsNewer

\* The forced cycle always refreshes, whatever it holds.
NeverReserves(r) == FALSE

\* The forced cycle re-serves whatever is still valid.
ReservesValid(r) == forcedCycle[r] /\ cached # NoCredential /\ Valid(cached)

\* The bound on a forced cycle: re-serve what this process minted.
ReservesMinted(r) ==
  forcedCycle[r] /\ cached # NoCredential /\ cached.minted /\ Valid(cached)

\* Rule 2: chain from whichever credential holds the later expiry.
ChainSeed ==
  IF cached # NoCredential /\ cached.expiry >= db.expiry THEN cached ELSE db

NotMarked(expiry) == FALSE

\* Rule 3's marker; the sentinel cannot identify a row, so it is a latch.
AlreadyBurned(expiry) ==
  IF expiry = Epoch THEN burnedUnparsable ELSE expiry \in burned

\* BurnGuard::drop once a 200 has been seen.
Burn(expiry) ==
  /\ burned' = burned \cup ({expiry} \ {Epoch})
  /\ burnedUnparsable' = (burnedUnparsable \/ expiry = Epoch)

GateIgnored == TRUE

GateFree == gate = {}

Goto(r, label) == pc' = [pc EXCEPT ![r] = label]

Answer(r, c) == Goto(r, "served") /\ answer' = [answer EXCEPT ![r] = c]

\* current() is over for r, and its locals with it.
Leave(r) ==
  /\ Goto(r, "idle")
  /\ forcedCycle' = [forcedCycle EXCEPT ![r] = FALSE]
  /\ seed' = [seed EXCEPT ![r] = NoCredential]
  /\ topExpiry' = [topExpiry EXCEPT ![r] = Epoch]
  /\ retried' = [retried EXCEPT ![r] = FALSE]
  /\ answer' = [answer EXCEPT ![r] = NoCredential]

-----------------------------------------------------------------------------
\* The fast path, outside the gate.
ServeCached(r) ==
  /\ pc[r] = "idle"
  /\ ~forced /\ Valid(cached)
  /\ Answer(r, cached)
  /\ UNCHANGED <<envVars, tokens, cached, forced, burnVars, gate, cycleVars, spent>>

JoinGate(r) ==
  /\ pc[r] = "idle"
  /\ forced \/ ~Valid(cached)
  /\ Goto(r, "waiting")
  /\ UNCHANGED <<envVars, tokens, cached, forced, burnVars, gate, cycleVars, answer, spent>>

\* The gate is granted, "forced" is swapped and the cache checked again.
EnterGate(r) ==
  /\ pc[r] = "waiting"
  /\ GateFree
  /\ forced' = FALSE
  /\ \/ /\ ~forced /\ Valid(cached)
        /\ Answer(r, cached)
        /\ UNCHANGED <<gate, forcedCycle>>
     \/ /\ forced \/ ~Valid(cached)
        /\ Goto(r, "deciding")
        /\ gate' = gate \cup {r}
        /\ forcedCycle' = [forcedCycle EXCEPT ![r] = forced]
        /\ UNCHANGED answer
  /\ UNCHANGED <<envVars, tokens, cached, burnVars, seed, topExpiry, retried, spent>>

\* The call ends with an error and the gate guard is dropped.
Fail(r) == Goto(r, "failed") /\ gate' = gate \ {r}

\* read_db fails at the top of the cycle, forced or not.
DatabaseUnreadable(r) ==
  /\ pc[r] = "deciding"
  /\ Fail(r)
  /\ UNCHANGED <<envVars, tokens, cached, forced, burnVars, cycleVars, answer, spent>>

ServeDatabase(r) ==
  /\ pc[r] = "deciding"
  /\ DatabaseWins
  /\ cached' = db
  /\ Answer(r, db)
  /\ gate' = gate \ {r}
  /\ UNCHANGED <<envVars, tokens, forced, burnVars, cycleVars, spent>>

ServeMinted(r) ==
  /\ pc[r] = "deciding"
  /\ ~DatabaseWins
  /\ ReservesMinted(r)
  /\ Answer(r, cached)
  /\ gate' = gate \ {r}
  /\ UNCHANGED <<envVars, tokens, cached, forced, burnVars, cycleVars, spent>>

\* try_refresh(seed): the marker is looked at, then the request is sent.
StartRefresh(r) ==
  /\ pc[r] = "deciding"
  /\ ~DatabaseWins /\ ~ReservesMinted(r)
  /\ ~AlreadyBurned(ChainSeed.expiry)
  /\ seed' = [seed EXCEPT ![r] = ChainSeed]
  /\ topExpiry' = [topExpiry EXCEPT ![r] = db.expiry]
  /\ retried' = [retried EXCEPT ![r] = FALSE]
  /\ Goto(r, "posting")
  /\ UNCHANGED <<envVars, tokens, cached, forced, burnVars, gate, forcedCycle, answer, spent>>

RefuseBurnedSeed(r) ==
  /\ pc[r] = "deciding"
  /\ ~DatabaseWins /\ ~ReservesMinted(r)
  /\ AlreadyBurned(ChainSeed.expiry)
  /\ Fail(r)
  /\ UNCHANGED <<envVars, tokens, cached, forced, burnVars, cycleVars, answer, spent>>

\* A failed attempt that forgets to drop the gate guard when it gives up.
EndAttemptHoldingGate(r) ==
  /\ Goto(r, IF retried[r] THEN "failed" ELSE "rereading")
  /\ UNCHANGED gate

\* An attempt failed: the first one is followed by a second look at the row.
EndAttempt(r) ==
  \/ retried[r] /\ Fail(r)
  \/ ~retried[r] /\ Goto(r, "rereading") /\ UNCHANGED gate

\* Timeout, transport error or a status other than 200: nothing is burned.
FailBefore200(r) ==
  /\ pc[r] = "posting"
  /\ EndAttempt(r)
  /\ UNCHANGED <<envVars, tokens, cached, forced, burnVars, cycleVars, answer, spent>>

\* past_200 is stored; the endpoint may or may not have replaced the token.
See200(r) ==
  /\ pc[r] = "posting"
  /\ Goto(r, "reading")
  /\ \/ tokens < MaxToken /\ spent' = spent \cup {seed[r].token}
     \/ UNCHANGED spent
  /\ UNCHANGED <<envVars, tokens, cached, forced, burnVars, gate, cycleVars, answer>>

\* A complete, acceptable body: mint, cache, burn the seed.  A body without
\* a refreshToken keeps the one that was sent.
CompleteRefresh(r) ==
  /\ pc[r] = "reading"
  /\ tokens' = IF seed[r].token \in spent THEN tokens + 1 ELSE tokens
  /\ \E lifetime \in Lifetimes :
       LET minted == [expiry |-> now + lifetime,
                      token  |-> IF seed[r].token \in spent THEN tokens' ELSE seed[r].token,
                      minted |-> TRUE]
       IN cached' = minted /\ Answer(r, minted)
  /\ Burn(seed[r].expiry)
  /\ gate' = gate \ {r}
  /\ UNCHANGED <<envVars, forced, cycleVars, spent>>

\* RefreshIncomplete: a 200 whose body cannot be used still burns the seed.
FailAfter200(r) ==
  /\ pc[r] = "reading"
  /\ Burn(seed[r].expiry)
  /\ EndAttempt(r)
  /\ UNCHANGED <<envVars, tokens, cached, forced, cycleVars, answer, spent>>

\* Rule 3: retry once, only if the CLI wrote a row since the top of the cycle.
RetryWithNewer(r) ==
  /\ pc[r] = "rereading"
  /\ topExpiry[r] # Epoch /\ db.expiry # topExpiry[r]
  /\ ~AlreadyBurned(db.expiry)
  /\ seed' = [seed EXCEPT ![r] = db]
  /\ retried' = [retried EXCEPT ![r] = TRUE]
  /\ Goto(r, "posting")
  /\ UNCHANGED <<envVars, tokens, cached, forced, burnVars, gate, forcedCycle, topExpiry,
                 answer, spent>>

\* The row is unchanged, burned, or (at any time) unreadable.
GiveUp(r) ==
  /\ pc[r] = "rereading"
  /\ Fail(r)
  /\ UNCHANGED <<envVars, tokens, cached, forced, burnVars, cycleVars, answer, spent>>

\* The request's future is dropped at an await: at the gate or before a 200.
CancelBefore200(r) ==
  /\ pc[r] \in {"waiting", "posting"}
  /\ Leave(r)
  /\ gate' = gate \ {r}
  /\ UNCHANGED <<envVars, tokens, cached, forced, burnVars, spent>>

\* Dropped while the body is read: the drop guard burns, then the gate opens.
CancelAfter200(r) ==
  /\ pc[r] = "reading"
  /\ Burn(seed[r].expiry)
  /\ Leave(r)
  /\ gate' = gate \ {r}
  /\ UNCHANGED <<envVars, tokens, cached, forced, spent>>

\* The caller is done with the credential, or with the error.
Return(r) ==
  /\ pc[r] \in {"served", "failed"}
  /\ Leave(r)
  /\ UNCHANGED <<envVars, tokens, cached, forced, burnVars, gate, spent>>

\* The runtime answered 403 to the credential served.
Invalidate(r) ==
  /\ pc[r] = "served"
  /\ forced' = TRUE
  /\ Leave(r)
  /\ UNCHANGED <<envVars, tokens, cached, burnVars, gate, spent>>

\* The Kiro CLI logs in or refreshes: a fresh token, perhaps an expiry that
\* collides with an older one or that the parser cannot use.
CliWritesRow ==
  /\ tokens < MaxToken
  /\ tokens' = tokens + 1
  /\ \E expiry \in {Epoch} \cup {now + l : l \in CliLifetimes} :
       db' = [expiry |-> expiry, token |-> tokens', minted |-> FALSE]
  /\ UNCHANGED <<now, cached, forced, burnVars, gate, pc, cycleVars, answer, spent>>

Tick ==
  /\ now < MaxTime
  /\ now' = now + 1
  /\ UNCHANGED <<db, tokens, cached, forced, burnVars, gate, pc, cycleVars, answer, spent>>

-----------------------------------------------------------------------------
Init ==
  /\ now = 1
  /\ \E expiry \in InitialExpiries :
       db = [expiry |-> expiry, token |-> 1, minted |-> FALSE]
  /\ tokens = 1
  /\ cached = NoCredential
  /\ forced = FALSE
  /\ burned = {} /\ burnedUnparsable = FALSE
  /\ gate = {}
  /\ pc = [r \in Requests |-> "idle"]
  /\ forcedCycle = [r \in Requests |-> FALSE]
  /\ seed = [r \in Requests |-> NoCredential]
  /\ topExpiry = [r \in Requests |-> Epoch]
  /\ retried = [r \in Requests |-> FALSE]
  /\ answer = [r \in Requests |-> NoCredential]
  /\ spent = {}

\* What the task running r does by itself once r has been asked for.
Progress(r) ==
  \/ DatabaseUnreadable(r) \/ ServeDatabase(r) \/ ServeMinted(r)
  \/ StartRefresh(r) \/ RefuseBurnedSeed(r)
  \/ FailBefore200(r) \/ See200(r) \/ CompleteRefresh(r) \/ FailAfter200(r)
  \/ RetryWithNewer(r) \/ GiveUp(r)

Cancel(r) == CancelBefore200(r) \/ CancelAfter200(r)

Call(r) == ServeCached(r) \/ JoinGate(r) \/ Return(r) \/ Invalidate(r)

Next ==
  \/ \E r \in Requests : Call(r) \/ EnterGate(r) \/ Progress(r) \/ Cancel(r)
  \/ CliWritesRow
  \/ Tick

Spec == Init /\ [][Next]_vars

\* A task that can run does run, and both halves of the exchange end within
\* REFRESH_TIMEOUT.  tokio's Mutex grants the gate in FIFO order, which gives
\* each waiter the gate if it keeps coming free.
Fairness ==
  \A r \in Requests : WF_vars(Progress(r)) /\ SF_vars(EnterGate(r))

FairSpec == Spec /\ Fairness

-----------------------------------------------------------------------------
Labels == {"idle", "waiting", "deciding", "posting", "reading", "rereading",
           "served", "failed"}

\* Every variable has its type; in particular the sentinel never enters the
\* burned set (source.rs, the comment on "burned").
TypeOK ==
  /\ now \in Nat /\ tokens \in Nat
  /\ db \in Credential /\ cached \in Credential
  /\ forced \in BOOLEAN
  /\ burned \subseteq Nat \ {Epoch} /\ burnedUnparsable \in BOOLEAN
  /\ gate \subseteq Requests
  /\ pc \in [Requests -> Labels]
  /\ forcedCycle \in [Requests -> BOOLEAN]
  /\ seed \in [Requests -> Credential]
  /\ topExpiry \in [Requests -> Nat]
  /\ retried \in [Requests -> BOOLEAN]
  /\ answer \in [Requests -> Credential]
  /\ spent \subseteq Nat

Exchanging(r) == pc[r] \in {"posting", "reading"}

\* Rule 3, the reason for the whole mechanism: a refresh token that this
\* process knows to be spent is never on the wire again, whatever the CLI
\* writes, whichever expiries collide and whoever is cancelled.
NoReplay == \A r \in Requests : pc[r] = "posting" => seed[r].token \notin spent

\* The gate is held by exactly the call that is inside its cycle.
GateHeld ==
  /\ \A r \in Requests :
       r \in gate <=> pc[r] \in {"deciding", "posting", "reading", "rereading"}
  /\ \A r, s \in gate : r = s

TokensIssued ==
  /\ db.token \in 1 .. tokens
  /\ cached.token \in 1 .. tokens \/ cached = NoCredential
  /\ \A r \in Requests : Exchanging(r) => seed[r].token \in 1 .. tokens
  /\ spent \subseteq 1 .. tokens
  /\ tokens <= MaxToken + 1
  /\ \A r \in Requests :
       pc[r] = "reading" /\ seed[r].token \in spent => tokens <= MaxToken

\* Every copy of a spent token carries an expiry that is burned, or that the
\* exchange still being read is about to burn.
SpentIsMarked ==
  \A c \in {db, cached} : c.token \in spent =>
    \/ AlreadyBurned(c.expiry)
    \/ \E r \in Requests : pc[r] = "reading" /\ seed[r].expiry = c.expiry

\* Two copies of one token with different expiries: the older is burned.
CopiesAreMarked ==
  /\ cached.token = db.token => cached.expiry = db.expiry \/ AlreadyBurned(db.expiry)
  /\ \A r \in Requests : Exchanging(r) =>
       \A c \in {db, cached} :
         c.token = seed[r].token => c.expiry = seed[r].expiry \/ AlreadyBurned(c.expiry)

\* While a cycle goes on nothing minted here and still valid is cached,
\* except in a forced cycle that has not read the database yet.
NothingValidMinted ==
  \A r \in gate :
    pc[r] # "deciding" \/ ~forcedCycle[r] => ~(cached.minted /\ Valid(cached))

\* The cache's books balance: with NoReplay, the inductive reason why a seed
\* identified by nothing but its expiry is enough to keep rule 3.
BooksBalance ==
  GateHeld /\ TokensIssued /\ SpentIsMarked /\ CopiesAreMarked /\ NothingValidMinted

\* A refresh starts only if it has to: while a credential minted here is
\* still valid, no request exchanges anything, forced or not, waiting at the
\* gate or not (coalescing and the bound on a forced cycle).
ExchangeOnlyWhenNeeded ==
  [][ (\E r \in Requests : pc[r] # "posting" /\ pc'[r] = "posting")
        => ~(cached.minted /\ Valid(cached)) ]_vars

\* The burn decision is made once, when an attempt ends, and turns only on
\* whether a 200 had arrived: an attempt that saw one burns its seed on
\* every way out, cancellation included, and nothing else burns anything.
BurnIffSeen200 ==
  [][ LET ended  == {r \in Requests : pc[r] = "reading" /\ pc'[r] # "reading"}
          marked == {seed[r].expiry : r \in ended}
      IN /\ burned' = burned \cup (marked \ {Epoch})
         /\ burnedUnparsable' = (burnedUnparsable \/ Epoch \in marked) ]_vars

\* Rule 1 never hands the cycle back to a credential whose refresh token was
\* already exchanged: tokens are numbered as they are issued, and the cache
\* never goes back to one issued before the one it holds.
NeverHandedBack == [][ cached'.token >= cached.token ]_cached

\* A request that waits at the gate is served, fails or is dropped.
WaitingEnds ==
  \A r \in Requests : pc[r] = "waiting" ~> pc[r] \in {"served", "failed", "idle"}

\* The credential cache is a client of the endpoint that exchanges one token
\* at a time and never one it knows to be spent.
Exchanges == INSTANCE ExchangeOnce WITH
  Tokens    <- 1 .. (MaxToken + 1),
  inFlight  <- {seed[r].token : r \in {q \in Requests : Exchanging(q)}},
  exchanged <- spent

ExchangesOnce == Exchanges!Spec
=============================================================================

---------------------------- MODULE UsageSummary ----------------------------
(***************************************************************************)
(* The in-memory usage summary behind GET /v1/usage (server/usage.rs): one *)
(* set of counters for the process and one per catalog model, changed      *)
(* together under one lock, and a guard per request that reports exactly   *)
(* one outcome, at the latest when it is dropped.  Token counts are        *)
(* abstracted to whether the guard holds a snapshot; durations and error   *)
(* kinds are left out.                                                     *)
(***************************************************************************)
EXTENDS Integers, FiniteSets, FiniteSetsExt

CONSTANTS
  Requests,   \* the requests that may come in
  Models,     \* the models of the catalog
  Retries     \* the retry counts a request may report

VARIABLES
  total,      \* State.total
  models,     \* State.models
  guard,      \* each RequestUsageGuard: "none", "open", or the outcome it reported
  model,      \* RequestUsageGuard.model_index
  snapshot    \* does RequestUsageGuard.usage hold tokens?

vars == <<total, models, guard, model, snapshot>>

Outcomes == {"completed", "failed", "cancelled"}

NoCounts == [started |-> 0, inFlight |-> 0, completed |-> 0, failed |-> 0, cancelled |-> 0,
             tokens |-> 0, retries |-> 0]

\* Counters::begin.
Started(c) == [c EXCEPT !.started = @ + 1, !.inFlight = @ + 1]

\* Counters::terminal.
Ended(c, outcome, tokens, retries) ==
  [c EXCEPT !.inFlight  = Max({0, @ - 1}),
            !.completed = @ + (IF outcome = "completed" THEN 1 ELSE 0),
            !.failed    = @ + (IF outcome = "failed" THEN 1 ELSE 0),
            !.cancelled = @ + (IF outcome = "cancelled" THEN 1 ELSE 0),
            !.tokens    = @ + (IF tokens THEN 1 ELSE 0),
            !.retries   = @ + retries]

Init ==
  /\ total = NoCounts
  /\ models = [m \in Models |-> NoCounts]
  /\ guard = [r \in Requests |-> "none"]
  /\ model \in [Requests -> Models]
  /\ snapshot = [r \in Requests |-> FALSE]

\* The request's model is resolved and its guard created.
Begin(r) ==
  /\ guard[r] = "none"
  /\ guard' = [guard EXCEPT ![r] = "open"]
  /\ total' = Started(total)
  /\ models' = [models EXCEPT ![model[r]] = Started(@)]
  /\ UNCHANGED <<model, snapshot>>

\* A transition that counts a cancelled request for the process only.
TransitionTotalOnly(r, outcome, tokens, retries) ==
  IF guard[r] = "open"
  THEN /\ guard' = [guard EXCEPT ![r] = outcome]
       /\ snapshot' = [snapshot EXCEPT ![r] = tokens]
       /\ total' = Ended(total, outcome, tokens, retries)
       /\ models' = IF outcome = "cancelled" THEN models
                    ELSE [models EXCEPT ![model[r]] = Ended(@, outcome, tokens, retries)]
       /\ UNCHANGED model
  ELSE UNCHANGED vars

\* complete(), fail() and drop(): the first outcome is the one that counts.
Transition(r, outcome, tokens, retries) ==
  IF guard[r] = "open"
  THEN /\ guard' = [guard EXCEPT ![r] = outcome]
       /\ snapshot' = [snapshot EXCEPT ![r] = tokens]
       /\ total' = Ended(total, outcome, tokens, retries)
       /\ models' = [models EXCEPT ![model[r]] = Ended(@, outcome, tokens, retries)]
       /\ UNCHANGED model
  ELSE UNCHANGED vars

\* update(): the snapshot is replaced, never added to.
Update(r, tokens) ==
  /\ snapshot' = [snapshot EXCEPT ![r] = tokens]
  /\ UNCHANGED <<total, models, guard, model>>

Next == \E r \in Requests :
  \/ Begin(r)
  \/ \E tokens \in BOOLEAN :
       \/ Update(r, tokens)
       \/ \E outcome \in Outcomes, retries \in Retries : Transition(r, outcome, tokens, retries)

Spec == Init /\ [][Next]_vars

-----------------------------------------------------------------------------
Counts == [started : Nat, inFlight : Nat, completed : Nat, failed : Nat, cancelled : Nat,
           tokens : Nat, retries : Nat]

TypeOK ==
  /\ total \in Counts /\ models \in [Models -> Counts]
  /\ guard \in [Requests -> {"none", "open"} \cup Outcomes]
  /\ model \in [Requests -> Models]
  /\ snapshot \in [Requests -> BOOLEAN]

Balances(c) == c.started = c.inFlight + c.completed + c.failed + c.cancelled

\* Every request that was counted in is counted out exactly once, however it
\* ended, for the process and for each model.
Balanced == Balances(total) /\ \A m \in Models : Balances(models[m])

Open == {r \in Requests : guard[r] = "open"}

\* What the summary shows in flight is what is in flight.
InFlightIsOpen ==
  /\ total.inFlight = Cardinality(Open)
  /\ \A m \in Models : models[m].inFlight = Cardinality({r \in Open : model[r] = m})

\* The rows of the models add up to the row of the process.
RowsAddUp ==
  \A f \in DOMAIN total : total[f] = MapThenSumSet(LAMBDA m : models[m][f], Models)
=============================================================================

---------------------------- MODULE ExchangeOnce ----------------------------
(***************************************************************************)
(* What kiro-trust-auth promises the OIDC endpoint, with no cache, no      *)
(* database, no expiry and no burned set (design spec, section 3.3, rule   *)
(* 3): exchanges of refresh tokens happen one at a time, and a token that  *)
(* an exchange is known to have spent is never presented again.            *)
(***************************************************************************)
CONSTANT Tokens    \* every refresh token the endpoint may ever issue

VARIABLES
  inFlight,     \* the refresh tokens presented and not yet settled
  exchanged     \* the tokens known to be spent

vars == <<inFlight, exchanged>>

Init == inFlight = {} /\ exchanged = {}

\* Present an unspent token; no other exchange is under way.
Present(t) ==
  /\ inFlight = {}
  /\ t \notin exchanged
  /\ inFlight' = {t}
  /\ UNCHANGED exchanged

\* The endpoint answers 200 and replaces the token presented.
Replace ==
  /\ inFlight # {}
  /\ exchanged' = exchanged \cup inFlight
  /\ UNCHANGED inFlight

\* The exchange ends: completed, failed or abandoned by its caller.
Settle == inFlight' = {} /\ UNCHANGED exchanged

Next == (\E t \in Tokens : Present(t)) \/ Replace \/ Settle

Spec == Init /\ [][Next]_vars
=============================================================================

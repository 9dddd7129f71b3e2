# kiro-trust: a verification development in TLA+

kiro-trust is a local HTTP server that speaks the Anthropic Messages API to its
clients and the Kiro runtime's protocol to its upstream.  It keeps no state on
disk except one local token file; everything that is hard about it happens in
memory, between tasks that may be cancelled at any `.await`: one credential
shared by every request, one retry loop inside another, a response state machine
fed with arbitrary fragments, and a usage summary that has to be right whichever
way a request ends.

The modules here are written from the Rust source under `src/crates`.  Source
references below are `file:line`, relative to that directory.

## 1. The system and its parts

| part | state it keeps | operations | interacts with |
|---|---|---|---|
| credential cache, `kiro-trust-auth/src/source.rs` | cached pair, `forced` flag, set of burned expiries, the gate (an async mutex) | `identity`, `with_token`, `invalidate`, the burn guard's `drop` | the Kiro CLI's database (read), the OIDC token endpoint (`refresh.rs`), every request |
| runtime client, `kiro-trust-kiro/src/client.rs` | per call: attempts, `refreshed`; per request: completed posts | `generate` | the credential cache (twice per attempt), the runtime |
| message handler and pump, `kiro-trust/src/server/{messages,pump}.rs` | per request: permit, replay flag, pump, buffered output | `post_messages`, `prime`, `next`, the body's poll, its `drop` | runtime client, translator, limiter, usage summary |
| response translator, `kiro-trust-protocol/src/translate/response.rs` | text, tag and stop-sequence buffers, budget, open block | `push`, `finish` | called by the pump |
| usage summary, `kiro-trust/src/server/usage.rs` | counters for the process and per model; a guard per request | `begin`, `update`, `complete`, `fail`, `drop`, `snapshot` | called by the handler and by the body |
| event decoder and parser, `kiro-trust-protocol/src/eventstream.rs` | frame buffer, the tool call being assembled | `push`, `next_frame`, `parse`, `finish` | called by the pump |
| connection guard, `kiro-trust/src/listener.rs` | connection permits, a header deadline per connection | `accept`, `poll_read`, `disarm` | hyper, the router's middleware |
| server life cycle, `kiro-trust/src/serve.rs`, `token.rs` | the local token file | start, bind, signal, drain | file system, listener |
| request translation, `kiro-trust-protocol/src/translate/{request,normalize,content,history,tools,tool_names,schema}.rs` | per request: the messages between the passes, the map of shortened names, the count of pictures | `build_payload`, `sanitize_schema` | called by the handler; its map of names by the translator |
| catalog, `kiro-trust-protocol/src/catalog.rs` | none (a table) | `resolve`, `resolve_effort`, `models`, `catalog_index` | request translation, usage summary, `/v1/models` |
| credential database reader, `kiro-trust-auth/src/db.rs` | none (one read is several SELECTs) | `read_identity_center` | the Kiro CLI, which writes; the credential cache, `audit`, `doctor`, `serve` |
| configuration and commands, `kiro-trust/src/{config,audit,doctor,env_cmd,exec_cmd}.rs` | none | `from_args`, `audit`, `doctor`, `env`, `exec` | the database reader, the token file, a running `serve` |

Left out for good, with the reason, in `PROJECT.json`: router and small routes, the
TLS, DNS and destination checks, logging and the `models` command, the token estimate
and the wire formats, developer tooling.

What makes the parts hard, and what would be correct:

* **Credential cache.**  An IAM Identity Center refresh token works once.  The
  database is only read, so after one refresh it holds a spent token until the
  CLI signs in again.  Requests race for the gate, the CLI rewrites the row under
  them, a call may be dropped before or after the endpoint has rotated the token,
  and expiries (the key of the burned set) may collide or be unparsable.
  *Correct:* a spent token is never presented again; there is at most one
  exchange at a time and none that a cached pair would have made needless; a seed
  is burned exactly when a 200 was seen; a waiter is always answered.
* **Handler and client.**  Two loops retry; a permit must come back on every
  path; what is counted must be what the client was told; a replay must be
  invisible; a failure that arrives together with output must not be lost.
* **Client on the cache.**  One attempt takes its identity and its token from two
  cycles of the credential cache, between which the CLI may write and another
  request may refresh; the flag a 403 sets belongs to the process, not to the
  request.  *Correct:* the retry of a 403 does not repeat the rejected credential,
  the two halves of an attempt come in order, no forced cycle is left owing, and an
  answer that says "do not retry" is never retried, whatever its status.
* **Request translation.**  Ten passes over the messages, each undoing an assumption
  of the one before: merging parts uses and results, inserting separates what
  merging joined, the history pairs up what the client did not.  *Correct:* the turns
  sent alternate, a result follows its use, nothing the client wrote is lost or
  doubled, every name comes back.
* **Diagnostics.**  `audit` and `doctor` repeat decisions of `serve` in code of their
  own, from a database that is read one SELECT at a time while the CLI writes it.
  *Correct:* what they say is what `serve` does; rows of two sign-ins in one
  credential are superseded.
* **Translator.**  Deltas are cut anywhere, tags and stop sequences straddle
  them, blocks of four kinds alternate, a stop may latch in the middle of an
  event.  *Correct:* the emitted stream is well formed after every event, the
  text does not depend on the cuts, the budget holds, nothing follows a stop.
* **Event decoder and parser.**  The body of a response is cut into reads
  anywhere; the buffer is drained lazily; one tool call comes in fragments with
  and without ids.  *Correct:* the frames taken do not depend on the cuts, the
  buffer stays bounded, a fragment ends up in one call, of the id it names, and a
  body cut inside a frame is never taken for a complete one.
* **Connection guard and life cycle.**  A permit is taken before a connection
  exists and returned by whoever drops it last; the header deadline races the first
  request; start-up may fail after the token file was written; instances overlap
  in a restart.  *Correct:* no permit is lost, a served connection is never cut and
  one that only trickles always is, no token is readable during a drain or left
  after a clean end, and a signalled instance ends.

## 2. Modules

| module | what it is |
|---|---|
| `ExchangeOnce` | abstract: a client of a token endpoint that holds one usable token at a time and presents each once |
| `TokenSource` | `source.rs` and the outcomes of `refresh.rs`; implements `ExchangeOnce` |
| `TokenSourceProofs` | theorems about `TokenSource` |
| `MCTokenSource` | symmetry for TLC |
| `AnthropicStream` | what a streaming client makes of the events: the protocol automaton |
| `ResponseTranslator` | `response.rs`; drives `AnthropicStream` with what it emits |
| `MCResponseTranslator` | alphabets, tags, deltas and stop sequences for TLC |
| `KiroClient` | `generate_inner` of `client.rs` |
| `UpstreamErrors` | what an answer of the runtime means (`kiro-trust-kiro/src/error.rs`, `server/error.rs`) |
| `KiroRuntime` | composes `KiroClient` with `TokenSource` and `UpstreamErrors`; two cycles per attempt |
| `MCKiroRuntime` | one answer of each kind, symmetry |
| `KiroRuntimeProofs` | theorems about `KiroRuntime` |
| `Catalog` | `catalog.rs` |
| `ToolSchema` | `translate/schema.rs` (a recursive function on schemas) |
| `RequestTranslation` | the checks of `post_messages` and `build_payload`, a pass or a turn of its loop an action; extends `Catalog` and `ToolSchema` |
| `MCRequestTranslation` | conversations, schemas, tools and model ids for TLC |
| `RequestProofs` | theorems about `RequestTranslation`, `Catalog` and `ToolSchema` |
| `KiroDb` | `db.rs`: the read, one SELECT an action |
| `Configuration` | `config.rs`, `locate.rs`, the extra CA of `policy.rs` |
| `Commands` | `serve` up to its token file, `audit`, `doctor`, `env`, `exec`, beside a CLI that signs in; extends `KiroDb` and `Configuration` |
| `MCCommands` | machines and rows for TLC |
| `CommandsProofs` | theorems about `Commands` and the read of the database |
| `UsageSummary` | `usage.rs` |
| `Messages` | `messages.rs` and `pump.rs`; composes `KiroClient` and `UsageSummary` by `INSTANCE` |
| `MCMessages` | symmetry for TLC |
| `FrameDecoder` | the decoder of `eventstream.rs`: buffer, lazy drain, frame checks (operators on a decoder) |
| `EventParser` | the parser of `eventstream.rs`: tool fragments joined to calls (operators on an accumulator) |
| `EventStream` | the frame loop of `Pump::next`; composes `FrameDecoder` and `EventParser` |
| `MCEventStream` | wires for TLC |
| `EventStreamProofs` | theorems about `EventStream` |
| `GuardedListener` | `listener.rs`, with what of axum and hyper it needs |
| `Serve` | `serve.rs` and `token.rs`, for several instances; composes `GuardedListener` |
| `ServeProofs` | theorems about `Serve` and its listener |
| `ResponseTranslatorProofs` | theorems about `ResponseTranslator` |
| `MessagesProofs` | theorems about `Messages` and the `UsageSummary` it drives |

How state and actions correspond to the code:

* **TokenSource.**  One process per request: `JoinGate` (the unlocked check of
  the cache and the queue for the mutex), `EnterGate` (lock, `forced.swap`, second
  check), then the reads, the exchange and the ends of `current()` one action per
  await.  `See200` is the store to `past_200` in `refresh.rs`; what may follow it
  is the new pair, an unusable body, or cancellation.  `CliWritesRow` is external:
  the CLI writes a fresh refresh token with every row.  Time is a counter, an
  expiry a number, 0 the unparsable one.
* **ResponseTranslator.**  `tr` is the struct; `tr.client` is what the emitted
  events have made of the client's parser.  One action per upstream event and one
  for the end of the stream; each is the whole of `push` or `finish`, including
  the block switches and the final `finish` of an event that latches a stop.
  Characters are model values of a five-letter alphabet.
* **KiroClient.**  One action per await of `generate_inner`: `identity`,
  `headers`, the post, the body (or the invalidation) of an answer, the pause.
  `attempts`, `refreshed` and `progress` are the code's variables.
* **KiroRuntime.**  `Generate`, `Ask` and `EnterGate` start a cycle of `TokenSource`,
  `TakeIdentity` and `TakeToken` end one; every other step of the cache (`Elsewhere`)
  is the cache's own.  `reply` is the answer as `UpstreamErrors` sees it: status,
  exception header, markers of the body, `Retry-After`.  `Invalidate` and
  `StayForbidden` are the two ways of a 403, `Retry` and `GiveUp` the retry policy,
  `Drop` the client that goes away at any await.  `rejected` and `overtaken` are
  history: what the 403 was for, and whether another request's cycle took the flag.
* **RequestTranslation.**  `stage` names the pass, `msgs` is what the pass has still
  to look at, `out` what it has made.  `Reject` is every early refusal, `Route` the
  catalog, `ConvertTools`, `Textualize`, `NormalizeRoles`, `MergeRun`, `StartWithUser`,
  `Alternate`, `Split`, `HistoryUser`, `HistoryAssistant`, `PlaceSystemPrompt` and
  `Finish` the passes of `build_payload`; `RefuseImages` leaves them where the code
  returns an error.  A text is the sequence of pieces it was put together from, each
  with its place in the request, so that order and loss can be seen.
* **Catalog, ToolSchema.**  Pure operators; an id is a record of how it is spelled, a
  schema a record of the keywords the code treats differently.
* **KiroDb, Commands.**  `rows` is the database, `SelectNext` one SELECT (the second
  spelling of a key is a second one), `RefuseRow` and `MakeCredential` the ends of a
  read.  `Begin` is a command's start: what can be refused from the flags is refused
  there; `Conclude` writes the `report`.  `SignIn`, `WriteRecord`, `CliRefresh` and a
  SELECT that fails are external.  `report` keeps what was said of the present rows,
  so that two commands can be compared.
* **Messages.**  `pc` follows a request through the awaits of `post_messages` and
  the polls of the response body.  One read of the upstream (`Reads`) brings
  output or not, the end, a failure or a break, the last two possibly after output
  of the same read; `Chunks` is `Pump::next` with its order of precedence.  `wire`
  is what has been handed to the connection.  `Disconnect` drops the handler's
  future or the body at any await, which drops the permit and the usage guard.
* **EventStream.**  What the upstream sends is a fixed sequence of frames, `wire`;
  a byte is its position in that sequence, so the buffer is an interval
  (`decoder.base`, `decoder.start`, `decoder.arrived`) and a frame is in front of
  the decoder exactly when it begins at the read position.  Anything else there
  fails the prelude's checksum, as it does in the code up to the strength of CRC-32.
  `Read` is one poll of the body and `push`; `NoFrame`, `BadFrame` and `Deliver`,
  `DeliverAndStop`, `GiveUp` are the ways one turn of the loop can go.  A payload
  is its kind and, for a tool fragment, which fields it has; a fragment is named by
  the frame that brought it.  The loop has one await, the read; its turns are
  separate actions because the properties look between them.
* **GuardedListener.**  `free` is the semaphore, `acceptor` the place of `accept()`
  in its loop, `conn` a record per connection.  `Parse` is one poll of hyper: it
  looks at the deadline, reads, completes the request and enters the router, whose
  outermost layer disarms.  `Cut` is the deadline's error, and hyper's drop of the
  connection.  Sending, answering and noticing a cut are external.
* **Serve.**  `pc` follows `run()`; `Signal` is the shutdown future, whose removal
  of the file and start of the drain's clock have no await between them;
  `StopAccepting` is axum's, which leaves `accept()` wherever it waits.  `Remove` is
  `remove_token_file`, which asks whether this instance wrote a file but not whose
  file is there.  `Die` is a kill, or a signal before the handlers are installed.
* **UsageSummary.**  `Transition` is `complete`, `fail` and the destructor, one
  critical section each; the first outcome counts.

## 3. Runs

Every property is also checked against a mutant of the model, a plausible bug of
the code that breaks it; the mutated forms stand next to the originals.

| run | instance | shows |
|---|---|---|
| `token_source` | 2 requests, 2 CLI rows, expiries 0-3, colliding and unparsable ones included | no replay, coalescing, books that balance, refinement of `ExchangeOnce` |
| `token_source_fair` | the same with one lifetime for everybody, fairness | the database never hands back a spent credential; every waiter is answered |
| `translator` | 5 events of any kind, one 2-character stop sequence, budget of 8 characters | well-formed stream, nothing past the budget, cuts |
| `translator_late` | deltas that end a thought and go on in text, no stop sequence, a budget of four characters | **violation**, finding 1 |
| `messages` | 2 requests, 1 permit, 2 models, 2 attempts | permits, usage, honesty of outcomes, replay, bounds |
| `messages_fair` | 2 requests, 1 permit, fairness | every request ends |
| `event_stream` | every body of three tool fragments of 21 forms; 31 longer ones of frames of 3 to 5 bytes, some unsound; reads of up to 4 bytes; a cap of two fragments | frames independent of the cuts, bounded buffer, no fragment lost or shared, honest end |
| `server` | 2 instances, 2 clients, 1 connection permit, fairness | permits, deadline, token file, drain |
| `server_restart` | 2 instances, 1 client | **violation**, finding 2 |
| `request` | every conversation of up to 3 messages over 11 turns, and of 4 where the assistant speaks second and the user last (text, blank, nothing, document, thinking, one or two uses, results in and out of order, an unknown role), tools that are long, cached or the server's, 17 schemas, every model id; limits of 4, 3 and 2 | alternation, results behind their uses, nothing lost, pictures, names, schemas, routing |
| `kiro_runtime` | 2 requests, 2 attempts, 1 row of the CLI, 5 answers, tokens of 2 ticks | a rejected credential is replaced, identity before token, no forced cycle left, final answers are final |
| `commands` | 26 machines that differ from a good one in one or two ways, 7 databases, one more sign-in | `audit` and `doctor` say what `serve` does, and what of it binds `env` and `exec`; a mixed credential is superseded |

Why the bounds are enough.  Two requests give every race there is at the gate and
the limiter: one inside, one outside (a third only waits as the second does, and
the theorems hold for any number).  Four expiries let a row be older than, equal
to, and newer than the pair minted here, and let one of them be unparsable.  Three
refresh tokens allow two exchanges, the fewest that can replay one.  The alphabet
has tags of two characters sharing the first, as the real ones do, and a stop
sequence that may lie across a delta, a tag and a block; five events suffice to
open, cut, continue and end every combination of two buffers.  Two attempts are
the fewest that distinguish the last one from the others, for the client's loop
and, by the replay, twice over.  Three fragments are the fewest that interleave two
calls (a, b, a) and the fewest by which a call is extended after another one's
opening; frames of three to five bytes against reads of up to four put every cut
before, in and after a prelude, and let one read complete no frame, one or two; the
drain needs more than half of the buffer to be taken, which six frames reach more
than once.  Two instances and one permit give a restart, a failed bind and a client
that must wait for a permit; an instance is started once, which is every instance,
because a later start is another one.

Four messages are the fewest in which a use, its result and the message that merges
or parts them all lie in the history; limits of 4, 3 and 2 are each exceeded by one
request of the run.  In `kiro_runtime` two attempts give one retry after a 403, two
requests the other cycle that may take its flag, and one CLI row the sign-in between
identity and token; the answers are one per branch of the code, and a pause of 61 s
is the first that is not made.  In `commands` a read is at most six SELECTs, and one
sign-in, with one refresh of its token, can fall between any two of them; a third
sign-in would be to the second what the second is to the first.

Fairness.  `token_source_fair`: weak fairness on the steps of the request inside
the gate (each await has a deadline: the database read is local, the exchange has
`REFRESH_TIMEOUT`), and strong fairness on entering it (tokio's mutex is FIFO).
`messages_fair`: weak fairness on the handler's steps (every await of it has a
deadline: 10 s to connect, 30 s to the header, 60 s at most to pause, 120 s to
prime), on the end of a stream that has begun to show output (the runtime ends
what it starts), and on the body's polls, where the client reads on or goes away;
nobody is assumed to go away otherwise, and the runtime is not assumed to ever
show anything.
`server`: weak fairness on `Elapse` and `Cut` (tokio's timers fire and hyper reads
from a connection that has no request in hand), on `StopAccepting` (axum selects
on the signal) and on `DrainDeadline` (a spawned timer that exits the process).
Clients, handlers and the operator are free to do nothing.

## 4. Findings

1. *Text after a thought that exhausts the budget is delivered whole*
   (`response.rs:308`): the thought latches the stop, `take_text` of the same delta
   then neither charges nor cuts.
2. *The second removal of the token file is not harmless in a restart*
   (`serve.rs:159`, comment at `serve.rs:155-157`).  The listener is dropped when
   the drain begins, so a successor can write its file and bind within the next ten
   seconds; when the drain ends, the predecessor removes the successor's file.

Further observations made while modelling, which no run checks:

* A refreshed pair may lose to the row it came from (`source.rs:222`): "strictly later
  wins" assumes that a refresh extends the life, `refresh.rs:80` accepts any positive
  `expiresIn`.  `NoReplay` holds all the same; the row's access token is served.
* `finish` emits thinking after a stop sequence (`response.rs:624`), contrary to its
  comment at 618-621; and the cut follows the order of the list of stop sequences
  (`response.rs:237`), so that `ab` with stops `b`, `a` is cut at `b` in one delta and
  at `a` in two.
* `--runtime-region` cannot help a credential none of whose regions is served: the
  credential is refused before the flag is looked at (`serve.rs:30-36`, `db.rs:195-203`,
  message at `error.rs:22`).  `AuditIsServe` covers that `audit` says so too.
* A failing SELECT is read as a missing row (`.ok().flatten()`); `AuthError::Query` is
  never made.  A row left under the first spelling of a key shadows a newer one under
  the second.
* A read that finds the token record of one sign-in and the registration of another
  mixes them.  It is superseded only because the CLI is taken to write the token
  record last; were it first, the mixed credential could stay, because equal expiries
  keep the cached one.
* Request B's cycle may take the flag that request A's 403 set, and A's fast path may
  then serve the rejected credential again, which spends A's only retry (`overtaken`).
* A body of a 200 that cannot be read is a final transport error.  A 4xx that the code
  has no case for ignores the capacity marker, although section 5.6 of the design
  gives it precedence.
* Tool results under a role the API does not have survive orphaned; two such or other
  not plain messages of one role get an `(empty)` turn between them instead of being
  merged (section 5.3.3).  Uses in a user's message and results in an assistant's are
  lost; those are not among the inputs of the run.
* Pictures of the history outside tool results are neither counted nor checked, and
  those in orphaned results, or where tools are left out, are dropped silently
  (section 5.5).
* An `anyOf` of several alternatives of which none is singled out becomes its first, also
  where that is null (`schema.rs:100-109`): a parameter that may be left out then can be
  nothing but null.  The rule is documented, and `SchemaIsFit` claims no more (`IsWanted`).
* An `anyOf` or `allOf` that brings its own `properties` may leave names in `required`
  that are no longer there.
* `doctor` looks at the kind and the mode of the token file and never opens it, as
  section 4.6 of the design says: a file of mode 0200 or of another owner is `ok` to it
  and exit 1 to `env` and `exec`.  `DoctorIsServe` therefore claims no more of the file
  than that a missing one is one that cannot be handed out.
* `env` prints a `--listen` that `exec` and `serve` would refuse; an explicit token with
  blanks around it can never be presented.

* `BindFails` removes the file by its path too: a second instance started by
  mistake overwrites the first one's token file and then removes it, although it is
  its own bind that failed.
* A signal that comes before the shutdown future is first polled, after the file is
  written, kills the process and leaves the file (`Die`).
* Tool input is accumulated per run of fragments, not per id (`eventstream.rs:443-456`).
  Section 5.4 of the design says that `toolUseEvent` frames "accumulate `input` fragments
  per `toolUseId` until `stop`"; the parser holds one call at a time and hands it out when
  a fragment of another id comes, which the plan it was written from has too
  (`docs/plans/v0.1.0.md:1944`).  Fragments that alternate between two ids (a, b, a), which
  are among the bodies of `event_stream`, so yield two calls with the id a, each with a
  part of the input.  `FragmentsAccounted` is about what does hold: no fragment that names
  its call is lost, shared or given to another id.
* A fragment without id and name that comes when no call is open, with `stop`,
  yields a call with an empty id; without `stop` its text stays in the accumulator
  until the next call clears it.
* A tool fragment that is not JSON is skipped silently, with its part of the input.
* An object as input is compared with the cap alone, but a frame cannot bring more
  than 4 MiB and the cap is 16 MiB; only text can reach it.

## 5. Proofs

TLC checks instances; the theorems hold for every value of the constants.

**TokenSource** (`TokenSourceProofs`, from `ConstantsAssumption`: expiries and
lifetimes are natural numbers, and the endpoint grants at least one unit).  `NoReplay` alone is not inductive: that a
token is not presented twice depends on how a spent token is recognised, which is
by the expiry of its credential.  The invariant `IInv = TypeOK /\ BooksBalance /\
NoReplay` says why this is enough.  Only the holder of the gate exchanges; every
stored copy of a spent token carries a burned expiry, up to the burn the exchange
being read still owes; and no unmarked copy of the token being exchanged lies
under another expiry, so that one burn marks all copies.  Results: `TypeCorrect`,
`NeverReplays`, `BooksAlwaysBalance`, `RefreshesOnlyWhenNeeded`, `BurnsIffSeen200`
and the refinement `Implements`.  Two facts about the environment enter: the CLI
writes a fresh refresh token with every row, and "spent" means that this process
has seen a 200.  An exchange committed by the endpoint whose answer never arrives
is outside the claim, as it is in the code (there is nothing to see).

`NeverGoesBack` is `NeverHandedBack` under a hypothesis of its own, `RefreshesOutlive`: a
token obtained here lives at least as long as one that the CLI obtained at that time.
The code does not enforce it; it is what one issuer with one lifetime gives, and every
run of the cache that is about the order of credentials has it.  It is needed: with
tokens of the CLI's that live longer, TLC has the CLI sign in while an exchange is under
way, the token obtained served and rejected, and the next cycle then prefers a row that
expires later.  `InOrder` is inductive with `IInv`: what is cached expires no earlier than
a row it is not older than, what is being exchanged is not older than what is cached, and
a row that has changed since a cycle looked at it is newer than the cache.  By it a row
that wins over the cache (`ServedRowIsNewer`) or replaces it has the later token.

**ResponseTranslator** (`ResponseTranslatorProofs`, from `TranslatorAssumption`: texts are
strings, tags and stop sequences are not empty, the budget is positive).  Two invariants,
one on top of the other.

`Inv` is about the events.  `StreamInStep` compares the client's view with the
struct only between events; inside an event `Working(s)` holds: client and
translator agree on the open block and the index, and the client has not been told the
end.  Each operator of the module has a lemma that it keeps `Working`; the `finish` of
an event that latches a stop turns it into the state after the end.  Nothing is used
of texts or tags.  Results: `StaysInStep`, `StopsAreFinal`.

`DataInv` is about the texts.  `raw` is the text received; `Scan[raw]` says what a
scanner that saw all of it at once would show, what it would hold back in front of a
possible tag, and on which side of the tag it would be.  `DataInv` says that the struct is
there: its buffer and its side are those of `Scan[raw]`, the text shown and the text
pending are together what `Scan[raw]` shows (`Follows`), or, once a stop has latched, the
text shown is a beginning of it that is cut where the stop says (`Done`), and what was
delivered has been charged (`Charged`).  One step of it is one delta, and a delta may end
anywhere in a tag; `DeltasDoNotMatter` is the theorem for that: scanning a piece and then
the next with what was held back is scanning both at once.  `Scan` is a function on
strings by recursion on their length; that such a function exists, and that a claim holds
of all strings, is proved from the well-foundedness of the naturals, the claim taking the
form of the set of the strings of which it is true (`ByLength`).  Results: `AlwaysStands`,
`DeliveredIsCharged`, `TextIsAStart`, `TextIsCutAlways`.  The last has the hypothesis
`SingleStop`, at most one stop sequence: with several the code looks for them in the
order of the list, so `TextIsCut` is false of it (see the observations in section 4).
`TextIsAStart` holds for any list.

**Messages and UsageSummary** (`MessagesProofs`, from `MessagesAssumption`: finitely many
requests and models, a natural number of permits, at least one attempt).  A step changes one request
and leaves the others alone, so the invariant is a statement about one request
and two shared parts:

* `InStage` lists, for each place of `pc`, what may have been counted and told;
* `PumpInStep` says that the snapshot is the one of the current pump, that a
  streaming request is primed before anything is shown, and that a pump that has
  ended has no failure to surface, which is why the end of a message never
  overtakes a failure that arrived in the same read;
* `PostsInStep` gives each of the two calls of the client its own budget;
* `PermitsKept` ties the free permits to the requests that own one;
* `CountInv` is the summary's own, and every step of the handler is an operation of the
  summary (`ServedUsage`).

`Balanced` is not inductive because the in-flight counter is decremented with
saturation: at zero a report would be counted out without having been counted in.
`InFlightIsOpen` excludes it: a guard that reports is open, so the counters it touches
are positive.  That the rows of the models add up to the row of the process is a sum over
a set of any size: `BySubset` is the induction over the finite sets, `SumChanges` says
what a sum becomes when one of its terms does, and `StartedCounts` and `EndedCounts` what
one report adds to each field of the two rows it touches.

Results: `TypeCorrect`, `PermitsAreConserved`, `OutcomesAreHonest`,
`SnapshotsAreCurrent`, `PostsAreBounded`, `ReplaysAreUnseen`, `LastWordsAreLast`,
`SummaryStaysConsistent`, the refinement `UsesSummary`, and `SummaryIsConsistent` for the
operations of the summary in whatever order they are called.  The client is proved
about only as far as the handler needs it; the credential cycles behind it are not
part of this module yet.

**EventStream** (`EventStreamProofs`, from `StreamAssumption` on the limits,
`WireAssumption`: every frame begins where the previous one ends, none is shorter
than a prelude, and a length that passes the prelude's checks is the frame's, and
`IdAssumption`: a made-up id is nobody else's).  The argument is about positions
only.  `FramesInStep` says that the decoder stands at the end of the last frame
taken; hence the only frame that can be in front of it is the next one, and it is
taken iff it has arrived in full.  `BufferBounded` needs one fact more: when
`next_frame` has nothing yet, less than a frame is pending, so at the next `push`
either what has been taken is more than half of the buffer and goes, or the buffer
is at most twice what is pending.  `Accounted` is about the fragments: each call, those
handed out and the one being assembled, is made of its `Own` fragments in the order they
came, no two share one, and each that names its call is in one, unless an object took its
place (`AllOwn`, `AllKept`); not that one call has them all.  A frame does one of three
things to a call, it adds a fragment (`FragmentAdded`), replaces the input (`ReplacedBy`)
or hands the call out (`HandedOut`), and `ParseAccounts` puts them together; that the
fragment `frames + 1` is in no call yet is what keeps them apart.  Results: `TypeCorrect`,
`BufferIsBounded`, `CutsDoNotMatter`, `EndsAreHonest`, `CapAlwaysHolds`,
`FragmentsAreAccounted`.

**RequestTranslation** (`RequestProofs`, from `RequestsAssumption`: the messages of a
request are a sequence of messages with a role, whose contents, pieces and pictures are
sequences).  The passes are a pipeline, so each property of the payload is an invariant of
what is on its way, and the invariants stand on one another:

* `IInv` is about roles and lengths: which roles are left, that what is done alternates,
  that the history is as far as the messages.  It gives `HistoryAlternates`
  (`AlternationTheorem`).
* `BInv` is about shape.  Each of `MergeRun`, `StartWithUser`, `Alternate` and `Split` does
  one of three things to the whole of the messages (`Whole`, done and to do): nothing, one
  synthetic message more (`Inserts`), or one message where a run of plain ones was
  (`Joins`).  Everything below needs to be proved of these two only (`Shaped`).  At the end
  each turn of the history is `TurnAt` of its message.
* `PInv` keeps `Paired`: a result stands right behind a message that has its use.  An
  insertion keeps it because it goes between messages of one role, a join because plain
  messages have no results.  With the lemmas about `Reorder` (the results come in the order
  of the uses, none is lost or doubled, `TakeShape`) it gives `ResultsAnswerUses`
  (`AnswersTheorem`); where two uses of one turn have the same id, the order is not
  claimed.  `PlainOthers` is in the property itself: a result under a role the API does not
  have is not looked at by `Textualize`.
* `CInv` counts the pictures that have gone by (`Earlier`) and gives `PicturesCounted`
  (`PicturesTheorem`).
* `UInv` says that no pass loses the name of a use, `TInv` that the map of names remembers
  every long name that went out, `Fits` what the entries are: the tools in their order and
  a cache point behind each that asked for it.  Together they give `ToolsRoundTrip`
  (`ToolsTheorem`), for `ProperTools` requests: uses only in an assistant's messages, and
  no name that already looks like a shortened one.
* `SInv` is about what is said.  `Heard` are the pieces of a text that the client wrote,
  in their order, and the uses that became text; `Value` is what a message says, its texts
  and its results.  Before every pass the messages say what the request said.  At the end
  the turns say the same pieces, but a turn's results stand before or behind its text and in
  the order of the uses, so that only the places are where they were (`Alike`); because the
  pieces of a message carry its number, and the numbers rise from turn to turn
  (`FlatRises`), the order of the messages is kept.  This is `NothingLost`
  (`LostTheorem`), for `WellWritten` requests: uses are an assistant's and results are not,
  every piece carries the number of its message, and none poses as a use.  All requests of
  the run are; without the first condition the claim is false, because a use in a user's
  message and a result in an assistant's are not passed on by the code (section 4).

Results besides: `Invariance`, `BaseInvariance`, `SaidInvariance`.

**ToolSchema** (in `RequestProofs`, from `SchemasAssumption`: the schemas considered are
closed under parameters and branches, and among any of them one holds none of the others,
which is what a finite JSON text gives; and from `RequestsAssumption`, by which the tools of a
request have such schemas).  `Sanitized` is a recursion through a schema's parameters and
branches, and nothing can be said of it before it is known to be a function.
`SanitizesAlike` shows that two functions that do what `sanitize_schema` does on sets closed
under nesting agree where both are defined, because among the schemas they disagree on one
holds no other; `SanitizedIs` puts them together to one on all schemas, because among
the schemas it would leave out one again holds no other.  Then one level suffices:
`RewrittenIs` says that a schema is clean if what became of its parameters and branches is,
case by case of `Chosen` (an enum made of enums, the only branch that is not null, the
first) and item by item of `allOf` (`MergedIsClean`), and `SanitizedIsClean` is
the induction.  `CleanAtEveryDepth` states it without the bound of three levels that
`SchemaIsFit` has; `SchemaTheorem` adds, by `Fits`, that the schemas sent are those of the
callable tools in their order, and that a parameter that `IsWanted` is kept and not null
(`WantedStays`).

**Catalog** (in `RequestProofs`, from no assumption at all: the table is the code's).
`RowsAre` is what is used of the nine rows: no two are of one model, and the tier is one of
three.  `IdsAre` takes every spelling of a row's ids to its SKU, hence a SKU is found in one row only
(`RowIsFound`) and every alias leads back to its row and tier (`AliasesLeadBack`).
`SlotIs` is the induction over the table behind `catalog_index`: the rows before a row fill
the slots before it (`SlotsAre`), so the slot of a tier lists that tier.  `RInv` is the
invariant: behind `Route`, the routing kept with the request is that of its own model id.
Nothing is assumed of the id, so `RouteTheorem` is about every id a client may send, while
the run has the spellings of the catalog's own ids.

**Commands and KiroDb** (`CommandsProofs`, from `RowsAssumption`: the rows at the start
stem from one complete sign-in; and `SetupsAssumption`, the type of the machines).
`CalmWalk` follows a read that nothing disturbs and says that what it has found is what a
function of the rows (`RowsFound`) says; then its result is `ReadOf`, and every remembered
answer of a command is its answer to `ReadOf` (`ReportInv`).  So two commands are compared
by what they make of one result, case by case of the errors.  The mixed credential is the
other half: `LoginInv` says which rows are of which sign-in while one is being written,
`GotInv` that a read whose token is of the newest sign-in has found nothing older.  It
needs that the CLI writes the token record last and the reader reads it first; nothing is
said of how often or when the CLI signs in.  Results: `AuditIsAlwaysServe`,
`DoctorIsAlwaysServe`, `MixedIsAlwaysSuperseded`.

**KiroRuntime** (`KiroRuntimeProofs`, from `CacheAssumption`, which is the cache's own
`ConstantsAssumption`).  `UsesTheCache` is a refinement: every behaviour of the client on
the cache is a behaviour of `TokenSource`, so that its theorems hold for the composition.  `ForcedTheorem` needs
`Credentialed`: a request on its way after a 403 remembers a real credential, which is
what it leaves behind when its client goes.  `FinalTheorem` follows from the
classification and the two exits of an answered call.

`PairsTheorem` and `ReplacedTheorem` are what the two cycles of an attempt make of the
cache, and rest on `NeverGoesBack`'s invariant and so on `RefreshesOutlive` (TLC refutes
`PairInOrder` without it).  `SameCache` carries the cache's invariants over.  `AttemptInv`
says, for each request, which credential it holds at which stage: answer, identity and
rejected credential are none of them newer than the cache, and the token posted is the
one answered.  The cache only goes on (`CachedSteps`) and an answer is what is cached at
that moment (`AnswerSteps`), so that the second cycle cannot answer with less than the
first.  `RenewedInv` follows a 403: as long as nobody else's cycle has taken the flag,
the flag is still set for the request, or the request is in the cycle it was set for, or
the cache holds a credential that was obtained here or is newer than the rejected one;
and what the request has been answered since is such a credential.

**Serve** (`ServeProofs`, from `ListenerAssumption`: finitely many connections, at least
one permit, `Nobody` is no instance).  The permits of an instance are free, in the hand
of `accept()` or in a connection, and each step moves one at most (`Balanced`); that
needs `OffUnlessServing`, because an accept loop that starts or is left must not hold a
permit twice.  `Disarmed` says that a served connection has no deadline, `TokenOwned`
that the file is only ever that of an instance that wrote it and has not been
signalled.  Results: `Typing`, `Bounded`, `NeverCut`, `TokenGone`.

Type correctness is a theorem (`TypeCorrect`, `Typing`) where there is one, and not
checked again by a run.

Only model-checked: liveness (`WaitingEnds`, `RequestsEnd`, `SignalEnds`,
`HalfOpenEnds`).  Every invariant and every action property of the passing runs is stated by
a theorem.

How the inductions over data are made.  The induction theorems of the library take an
operator as a parameter, which the installed provers cannot instantiate.  The proofs use
its first-order facts instead: the claim is a set, of the numbers, strings, sequences or
subsets for which it holds, and the set is everything, because the least element outside
of it leads to a contradiction (`UpTheNaturals`, `ByLength`, `BySequence`, `BySubset`; for
schemas `SchemasAssumption` itself).
Recursive functions are proved to exist the same way before anything is said of them.
`SelectSeq` of the standard module is opaque to the provers; the models use `Keep`,
the same filter as a concatenation of pieces.

## 6. Plan

Done: credential cache, response translator, handler and pump, usage summary, event
decoder and parser, runtime client on the cache, connection guard and life cycle,
request translation with catalog and schemas, database reader and commands (model, runs,
proofs); configuration (model, runs).  In this order:

1. The usage numbers and the folded `Message` of the translator.
2. The keep-alive timeout that cancels `Pump::next` in the middle
   (`messages.rs:477`); the router and its small routes.

Out of the prover's reach, and left to TLC: liveness under fairness, and `ENABLED`.

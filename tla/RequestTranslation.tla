------------------------- MODULE RequestTranslation -------------------------
(***************************************************************************)
(* The way of a client's request to the payload sent to the runtime:       *)
(* parse_request and the checks of post_messages, catalog::resolve, and    *)
(* build_payload with its passes over the messages (translate/*.rs).  One  *)
(* action is one pass, or one turn of a pass's loop; where the code keeps  *)
(* a vector per pass, "msgs" is what the pass still has to look at and     *)
(* "out" what it has produced.  The admission and the credential read that *)
(* post_messages does in between are in Messages.                          *)
(*                                                                         *)
(* A text is the sequence of the pieces it was put together from, a piece  *)
(* being <<kind, id, position in the request>>.  A tool result's pieces    *)
(* are its texts; a block of a kind the code does not know has one piece,  *)
(* the text it is named by.                                                *)
(***************************************************************************)
EXTENDS Catalog, ToolSchema

CONSTANTS
  Requests,      \* the requests considered
  MaxMessages,   \* MAX_MESSAGES
  MaxTools,      \* MAX_TOOLS
  MaxImages      \* MAX_IMAGES_PER_REQUEST

Roles      == {"user", "assistant", "other"}
IsMessage(m) == m = [role |-> m.role, content |-> m.content]

WellMade(m) ==
  IsMessage(m) /\ IsSeq(m.content) /\ \A b \in ToSet(m.content) : IsSeq(b.pieces) /\ IsSeq(b.images)

ASSUME LimitAssumption == MaxImages \in Nat

ASSUME RequestsAssumption ==
  \A r \in Requests :
    /\ IsSeq(r.messages) /\ \A m \in ToSet(r.messages) : WellMade(m) /\ m.role \in Roles
    /\ IsSeq(r.tools) /\ \A t \in ToSet(r.tools) : t.schema \in Schemas

VARIABLES
  request,    \* the request
  stage,      \* the pass under way, "sent" or "refused"
  resolved,   \* what the catalog routed the model to
  effort,     \* the effort sent, NoEffort if none
  entries,    \* the tool entries of the payload
  names,      \* the long names in ToolNameMap
  msgs, out,  \* the messages still to pass, and those passed
  last,       \* the message that becomes the current one
  images,     \* the request-scoped image count
  history,    \* the turns of the payload
  current     \* its current message

vars == <<request, stage, resolved, effort, entries, names, msgs, out, last, images,
          history, current>>

Nothing == <<>>

-----------------------------------------------------------------------------
Block(kind, id, name, pieces, pictures) ==
  [kind |-> kind, id |-> id, name |-> name, pieces |-> pieces, images |-> pictures]

Piece(kind, id) == <<kind, id, 0>>
Blank           == Piece("text", "")
TextBlock(text) == Block("text", "", "", text, <<>>)
Says(role, text) == [role |-> role, content |-> <<TextBlock(<<text>>)>>]

SyntheticEmpty    == Piece("synthetic", "(empty)")
SyntheticContinue == Piece("synthetic", "Continue")

IsToolUse(b)    == b.kind \in {"tool_use", "server_tool_use"}
IsToolResult(b) == b.kind \in {"tool_result", "tool_search_tool_result"}
Skipped == {"thinking", "redacted_thinking", "tool_use", "tool_result", "image", "tool_reference",
            "server_tool_use", "tool_search_tool_result"}

IsEmpty(text) == text \in {<<>>, <<Blank>>}

ExtractText(content) ==
  FlattenSeq([i \in DOMAIN content |-> IF content[i].kind \in Skipped THEN <<>>
                                       ELSE content[i].pieces])

ToolUses(content)   == Keep(content, IsToolUse)
ToolUseIds(content) == [i \in DOMAIN ToolUses(content) |-> ToolUses(content)[i].id]

\* A picture that is a URL is passed over; "bad" stands for a media type, a
\* base64 text or a size that is not accepted.
Pictures(block)  == Keep(block.images, LAMBDA p : p[2] # "url")
Attached(blocks) == FlattenSeq([i \in DOMAIN blocks |-> Pictures(blocks[i])])
\* Counted per message.
ErrorPerMessage(blocks) ==
  \/ \E i \in DOMAIN Attached(blocks) : Attached(blocks)[i][2] = "bad"
  \/ Len(Attached(blocks)) > MaxImages

ImageError(blocks) ==
  \/ \E i \in DOMAIN Attached(blocks) : Attached(blocks)[i][2] = "bad"
  \/ images + Len(Attached(blocks)) > MaxImages

\* scan_tool_result: a result says that its pictures are with the message.
Result(b) ==
  LET text == b.pieces \o (IF Pictures(b) = <<>> THEN <<>> ELSE <<Piece("notice", "attached")>>)
  IN [id |-> b.id, text |-> IF IsEmpty(text) THEN <<Piece("synthetic", "(empty result)")>> ELSE text]

ResultBlocks(content) == Keep(content, IsToolResult)
Results(content) == [i \in DOMAIN ResultBlocks(content) |-> Result(ResultBlocks(content)[i])]

\* reorder_tool_results: each use takes its first result left, the others follow.
Take(s, id) ==
  IF \E i \in DOMAIN s.rest : s.rest[i].id = id
  THEN LET i == CHOOSE i \in DOMAIN s.rest :
                  s.rest[i].id = id /\ \A j \in 1..(i - 1) : s.rest[j].id # id
       IN [ordered |-> Append(s.ordered, s.rest[i]), rest |-> RemoveAt(s.rest, i)]
  ELSE s

Reorder(results, ids) ==
  LET taken[n \in 0..Len(ids)] ==
        IF n = 0 THEN [ordered |-> <<>>, rest |-> results] ELSE Take(taken[n - 1], ids[n])
      end == taken[Len(ids)]
  IN IF Len(results) <= 1 \/ ids = <<>> THEN results ELSE end.ordered \o end.rest

-----------------------------------------------------------------------------
(* Tools.  A name is <<"plain" | "long" | "short", text>>: a long one goes *)
(* out under its short form.                                               *)

Shorten(name) == IF name[1] = "long" THEN <<"short", name[2]>> ELSE name
Remember(known, used) == known \cup {n \in used : n[1] = "long"}
Restore(known, name) ==
  IF name[1] = "short" /\ <<"long", name[2]>> \in known THEN <<"long", name[2]>> ELSE name

Callable(tools) == Keep(tools, LAMBDA t : ~t.server)

CachePoint == [kind |-> "cache"]
Converted(t) == [kind |-> "tool", name |-> Shorten(t.name),
                 schema |-> EnsureObjectRoot(Sanitized[t.schema])]

\* The cache points behind all tools.
CachePointsLast(tools) ==
  LET cached == Keep(tools, LAMBDA t : t.cached)
  IN [i \in DOMAIN tools |-> Converted(tools[i])] \o [i \in DOMAIN cached |-> CachePoint]

\* apply_tool_cache_points after convert_tools.
ToolEntries(tools) ==
  FlattenSeq([i \in DOMAIN tools |->
    <<Converted(tools[i])>> \o (IF tools[i].cached THEN <<CachePoint>> ELSE <<>>)])

-----------------------------------------------------------------------------
(* Normalization.                                                          *)

AsResultText(b) == TextBlock(<<Piece("result", b.id)>> \o b.pieces)

TextualizeAll(m) ==
  [m EXCEPT !.content = [i \in DOMAIN @ |->
     IF IsToolUse(@[i]) THEN TextBlock(<<Piece("use", @[i].id)>>)
     ELSE IF IsToolResult(@[i]) THEN AsResultText(@[i]) ELSE @[i]]]

\* The uses of any message before.
EarlierIds(seq, i) == UNION {ToSet(ToolUseIds(seq[k].content)) : k \in 1..(i - 1)}

\* The uses of the message right before, if an assistant said it.
PrecedingIds(seq, i) ==
  IF i > 1 /\ seq[i - 1].role = "assistant" THEN ToSet(ToolUseIds(seq[i - 1].content)) ELSE {}

TextualizeOrphans(seq, i) ==
  IF seq[i].role # "user" THEN seq[i]
  ELSE [seq[i] EXCEPT !.content = [k \in DOMAIN @ |->
          IF IsToolResult(@[k]) /\ @[k].id \notin PrecedingIds(seq, i)
          THEN AsResultText(@[k]) ELSE @[k]]]

IsPlainText(m) == \A i \in DOMAIN m.content : m.content[i].kind = "text"

\* The messages merge_adjacent_same_role takes together, and what it joins them to;
\* the first is without regard to what the later ones hold.
RunOfRole(seq, n) == IsPlainText(seq[1]) /\ \A i \in 1..n : seq[i].role = seq[1].role

RunOf(seq, n) == \A i \in 1..n : IsPlainText(seq[i]) /\ seq[i].role = seq[1].role

Joined(run) ==
  [role    |-> run[1].role,
   content |-> <<TextBlock(FlattenSeq([i \in DOMAIN run |->
                   (IF i = 1 THEN <<>> ELSE <<Piece("newline", "")>>) \o ExtractText(run[i].content)]))>>]

Opposite(role) == IF role = "assistant" THEN "user" ELSE "assistant"

-----------------------------------------------------------------------------
Init ==
  /\ request \in Requests
  /\ stage = "parse"
  /\ resolved = Nothing /\ effort = NoEffort
  /\ entries = <<>> /\ names = {}
  /\ msgs = request.messages /\ out = <<>> /\ last = Nothing
  /\ images = 0 /\ history = <<>> /\ current = Nothing

\* parse_request and max_tokens, then the model.
Refusable ==
  \/ request.messages = <<>> \/ Len(request.messages) > MaxMessages
  \/ Len(request.tools) > MaxTools
  \/ request.max_tokens = 0
  \/ ~Known(request.model)

Reject ==
  /\ stage = "parse" /\ Refusable
  /\ stage' = "refused"
  /\ UNCHANGED <<request, resolved, effort, entries, names, msgs, out, last, images, history, current>>

Route ==
  /\ stage = "parse" /\ ~Refusable
  /\ stage' = "tools"
  /\ resolved' = Resolve(request.model, request.beta)
  /\ effort' = ResolveEffort(resolved'.levels, request.effort,
                             request.thinking \/ resolved'.thinking)
  /\ UNCHANGED <<request, entries, names, msgs, out, last, images, history, current>>

ConvertTools ==
  LET callable == Callable(request.tools)
  IN /\ stage = "tools"
     /\ stage' = "textualize"
     /\ entries' = ToolEntries(callable)
     /\ names' = Remember({}, {t.name : t \in ToSet(callable)})
     /\ UNCHANGED <<request, resolved, effort, msgs, out, last, images, history, current>>

\* Orphaned results if there are tools, all tool content if there are none.
Textualize ==
  /\ stage = "textualize"
  /\ stage' = "roles"
  /\ msgs' = [i \in DOMAIN msgs |->
                IF entries = <<>> THEN TextualizeAll(msgs[i]) ELSE TextualizeOrphans(msgs, i)]
  /\ UNCHANGED <<request, resolved, effort, entries, names, out, last, images, history, current>>

NormalizeRoles ==
  /\ stage = "roles"
  /\ stage' = "merge"
  /\ msgs' = [i \in DOMAIN msgs |-> [msgs[i] EXCEPT !.role = IF @ = "other" THEN "user" ELSE @]]
  /\ UNCHANGED <<request, resolved, effort, entries, names, out, last, images, history, current>>

MergeRun ==
  /\ stage = "merge"
  /\ \E n \in DOMAIN msgs :
       /\ n > 1 => RunOf(msgs, n)
       /\ n < Len(msgs) => ~RunOf(msgs, n + 1)
       /\ out' = Append(out, IF n = 1 THEN msgs[1] ELSE Joined(SubSeq(msgs, 1, n)))
       /\ msgs' = SubSeq(msgs, n + 1, Len(msgs))
  /\ UNCHANGED <<request, stage, resolved, effort, entries, names, last, images, history, current>>

\* Without the empty turn in front.
StartAsIs ==
  /\ stage = "merge" /\ msgs = <<>>
  /\ stage' = "alternate"
  /\ msgs' = out /\ out' = <<>>
  /\ UNCHANGED <<request, resolved, effort, entries, names, last, images, history, current>>

StartWithUser ==
  /\ stage = "merge" /\ msgs = <<>>
  /\ stage' = "alternate"
  /\ msgs' = (IF out[1].role # "user" THEN <<Says("user", SyntheticEmpty)>> ELSE <<>>) \o out
  /\ out' = <<>>
  /\ UNCHANGED <<request, resolved, effort, entries, names, last, images, history, current>>

Alternate ==
  LET m == msgs[1]
  IN /\ stage = "alternate" /\ msgs # <<>>
     /\ out' = Append(IF out # <<>> /\ Last(out).role = m.role
                      THEN Append(out, Says(Opposite(m.role), SyntheticEmpty)) ELSE out, m)
     /\ msgs' = Tail(msgs)
     /\ UNCHANGED <<request, stage, resolved, effort, entries, names, last, images, history, current>>

\* split_messages; the messages left are the history's.
Split ==
  /\ stage = "alternate" /\ msgs = <<>>
  /\ stage' = "history"
  /\ IF Last(out).role = "assistant"
     THEN msgs' = out /\ last' = Says("user", SyntheticContinue)
     ELSE msgs' = Front(out) /\ last' = Last(out)
  /\ out' = <<>>
  /\ UNCHANGED <<request, resolved, effort, entries, names, images, history, current>>

-----------------------------------------------------------------------------
Turn(role, text, uses, results) ==
  [role |-> role, text |-> text, uses |-> uses, results |-> results]

\* The uses of the turn before, in the order they were made.
UsesBefore(i) ==
  IF i > 1 /\ msgs[i - 1].role = "assistant" THEN ToolUseIds(msgs[i - 1].content) ELSE <<>>

\* build_history: the pictures in results are counted, and not attached.
HistoryUser ==
  LET i      == Len(history) + 1
      blocks == ResultBlocks(msgs[i].content)
  IN /\ stage = "history" /\ i <= Len(msgs) /\ msgs[i].role = "user"
     /\ ~ImageError(blocks)
     /\ images' = images + Len(Attached(blocks))
     /\ history' = Append(history, Turn("user", ExtractText(msgs[i].content), <<>>,
                                        Reorder(Results(msgs[i].content), UsesBefore(i))))
     /\ UNCHANGED <<request, stage, resolved, effort, entries, names, msgs, out, last, current>>

HistoryAssistant ==
  LET i    == Len(history) + 1
      uses == ToolUses(msgs[i].content)
  IN /\ stage = "history" /\ i <= Len(msgs) /\ msgs[i].role = "assistant"
     /\ names' = Remember(names, {u.name : u \in ToSet(uses)})
     /\ history' = Append(history, Turn("assistant", ExtractText(msgs[i].content),
                            [k \in DOMAIN uses |-> [id |-> uses[k].id, name |-> Shorten(uses[k].name)]],
                            <<>>))
     /\ UNCHANGED <<request, stage, resolved, effort, entries, msgs, out, last, images, current>>

PlaceSystemPrompt ==
  /\ stage = "history" /\ Len(history) = Len(msgs)
  /\ stage' = "current"
  /\ history' = (IF request.system
                 THEN <<Turn("user", <<Piece("synthetic", "system")>>, <<>>, <<>>),
                        Turn("assistant", <<Piece("synthetic", "ack")>>, <<>>, <<>>)>>
                 ELSE <<>>) \o history
  /\ UNCHANGED <<request, resolved, effort, entries, names, msgs, out, last, images, current>>

\* scan_current_message and the rest of build_payload.
Pictured(content) == Keep(content, LAMBDA b : IsToolResult(b) \/ b.kind = "image")

Finish ==
  LET text    == ExtractText(last.content)
      results == Reorder(Results(last.content), UsesBefore(Len(msgs) + 1))
  IN /\ stage = "current" /\ ~ImageError(Pictured(last.content))
     /\ stage' = "sent"
     /\ images' = images + Len(Attached(Pictured(last.content)))
     /\ current' = [text     |-> IF IsEmpty(text) /\ results = <<>> THEN <<SyntheticContinue>> ELSE text,
                    results  |-> results,
                    images   |-> Attached(Pictured(last.content)),
                    tools    |-> entries]
     /\ UNCHANGED <<request, resolved, effort, entries, names, msgs, out, last, history>>

RefuseImages ==
  LET i == Len(history) + 1
  IN /\ \/ /\ stage = "history" /\ i <= Len(msgs) /\ msgs[i].role = "user"
           /\ ImageError(ResultBlocks(msgs[i].content))
        \/ stage = "current" /\ ImageError(Pictured(last.content))
     /\ stage' = "refused"
     /\ UNCHANGED <<request, resolved, effort, entries, names, msgs, out, last, images, history, current>>

Done == stage \in {"sent", "refused"} /\ UNCHANGED vars

Next ==
  \/ Reject \/ Route \/ ConvertTools \/ Textualize \/ NormalizeRoles
  \/ MergeRun \/ StartWithUser \/ Alternate \/ Split
  \/ HistoryUser \/ HistoryAssistant \/ PlaceSystemPrompt
  \/ Finish \/ RefuseImages \/ Done

Spec == Init /\ [][Next]_vars
-----------------------------------------------------------------------------
(* Properties.                                                             *)

Turns == Append(history, Turn("user", current.text, <<>>, current.results))

Gathered(seq, Part(_)) == FlattenSeq([i \in DOMAIN seq |-> Part(seq[i])])

\* HistoryAlternates: what is sent starts with a user's turn and alternates up to the current message,
\* whatever roles, empty messages and tool turns the client mixed (normalize.rs).
Alternates(seq) ==
  \A i \in DOMAIN seq : seq[i].role = IF i = 1 THEN "user" ELSE Opposite(seq[i - 1].role)

HistoryAlternates == stage = "sent" => Alternates(Turns)

ResultIds(turn) == [k \in DOMAIN turn.results |-> turn.results[k].id]
UseIds(turn)    == [k \in DOMAIN turn.uses |-> turn.uses[k].id]

\* The runtime sees a tool result only right after the assistant's turn that made
\* the use, in the order of the uses, and no tool content at all without tools:
\* the passes that merge, insert and split may not part the two (normalize.rs,
\* history.rs).  Results under a role the API does not know are left as they are.
ResultsAnswerUses ==
  (stage = "sent" /\ \A m \in ToSet(request.messages) : m.role # "other" \/ IsPlainText(m)) =>
    \A i \in DOMAIN Turns :
      LET answered == ResultIds(Turns[i])
          made     == IF i = 1 THEN <<>> ELSE UseIds(Turns[i - 1])
      IN /\ ToSet(answered) \subseteq ToSet(made)
         /\ IsInjective(answered) /\ IsInjective(made) => answered = Keep(made, LAMBDA id : id \in ToSet(answered))
         /\ entries = <<>> => UseIds(Turns[i]) = <<>> /\ answered = <<>>

\* What was written in the request is in the payload, once and in the order of the
\* messages, be it a text, a result or, where tools are left out, the text a use
\* was turned into (normalize.rs, content.rs, history.rs).
NothingLost ==
  LET Written(b) == IF IsToolResult(b) \/ b.kind \notin Skipped THEN b.pieces ELSE <<>>
      Said(m)    == Gathered(m.content, Written)
      Text(r)    == r.text
      Shown(t)   == t.text \o Gathered(t.results, Text)
      Real(p)    == p[3] > 0
      said == Keep(Gathered(request.messages, Said), Real)
      sent == Keep(Gathered(Turns, Shown), Real)
      Made(m)    == ToolUseIds(m.content)
      Told(t)    == LET marks == Keep(t.text, LAMBDA p : p[1] = "use")
                    IN UseIds(t) \o [k \in DOMAIN marks |-> marks[k][2]]
  IN stage = "sent" =>
       /\ ToSet(sent) = ToSet(said) /\ Len(sent) = Len(said)
       /\ \A j, k \in DOMAIN sent : j < k => sent[j][3] <= sent[k][3]
       /\ Gathered(Turns, Told) = Gathered(request.messages, Made)

\* The pictures sent are those of the current message and of its results; with those
\* in the results of earlier users' messages, which are counted and not sent, they
\* are never more than the limit, and none is one that is not accepted (content.rs).
PicturesCounted ==
  LET Forwarded(m) == IF m.role = "user" THEN Attached(ResultBlocks(m.content)) ELSE <<>>
      earlier == Gathered(msgs, Forwarded)
      shown   == Attached(Pictured(last.content))
  IN stage = "sent" =>
       /\ current.images = shown
       /\ \A p \in ToSet(shown) \cup ToSet(earlier) : p[2] \notin {"bad", "url"}
       /\ images = Len(shown) + Len(earlier)
       /\ images <= MaxImages

\* Every tool the client can be asked to call goes out under a name the runtime
\* takes and comes back under its own, in the history's uses too; a cache point
\* stands right behind the tool that asked for it, server tools being left out
\* (tools.rs, tool_names.rs).
ToolsRoundTrip ==
  LET isTool(e) == e.kind = "tool"
      tools     == Keep(current.tools, isTool)
      callable  == Callable(request.tools)
      Named(m)  == LET uses == ToolUses(m.content) IN [k \in DOMAIN uses |-> uses[k].name]
      Back(t)   == [k \in DOMAIN t.uses |-> Restore(names, t.uses[k].name)]
      Out(t)    == [k \in DOMAIN t.uses |-> t.uses[k].name]
      Behind(i) == Len(Keep(SubSeq(current.tools, 1, i), isTool))
  IN stage = "sent" =>
       /\ [i \in DOMAIN tools |-> Restore(names, tools[i].name)] = [i \in DOMAIN callable |-> callable[i].name]
       /\ \A n \in {t.name : t \in ToSet(tools)} \cup ToSet(Gathered(Turns, Out)) : n[1] # "long"
       /\ entries # <<>> => Gathered(Turns, Back) = Gathered(request.messages, Named)
       /\ {Behind(i) : i \in {j \in DOMAIN current.tools : ~isTool(current.tools[j])}}
            = {i \in DOMAIN callable : callable[i].cached}

Parts(s) == {s.properties[name] : name \in DOMAIN s.properties}
Within(s) == LET one == Parts(s)
                 two == UNION {Parts(p) : p \in one}
             IN {s} \cup one \cup two \cup UNION {Parts(p) : p \in two}

\* Sanitizing leaves the type of such a schema alone.
IsBare(s) == s.anyOf = <<>> /\ s.allOf = <<>>

\* A parameter that is no null, nor picked to be one among its alternatives: the
\* first of them, or the only one of its kind, is not null.
IsWanted(s) ==
  /\ IsReal(s) /\ s.allOf = <<>> /\ \A b \in ToSet(s.anyOf) : IsBare(b)
  /\ s.anyOf # <<>> => \E i \in DOMAIN s.anyOf :
       /\ IsReal(s.anyOf[i])
       /\ i = 1 \/ \A j \in DOMAIN s.anyOf \ {i} : IsNull(s.anyOf[j])

\* A tool's schema is an object the runtime takes, clean at every depth; a schema
\* that had no alternatives has kept its parameters, also those named like a
\* keyword, and what was optional has not become null (schema.rs).
SchemaIsFit ==
  LET tools == Keep(entries, LAMBDA e : e.kind = "tool")
      asked == Callable(request.tools)
  IN stage = "textualize" =>
       \A i \in DOMAIN tools :
         LET given == asked[i].schema
             sent  == tools[i].schema
         IN /\ sent.type = "object"
            /\ \A s \in Within(sent) : s.unsupported = {} /\ IsBare(s)
            /\ IsBare(given) /\ given.type \in {"", "object"} =>
                 /\ DOMAIN sent.properties = DOMAIN given.properties
                 /\ \A name \in DOMAIN given.properties :
                      IsWanted(given.properties[name]) => IsReal(sent.properties[name])

\* The metadata, the usage slot and the listing agree with the routing: the model
\* echoed to the client leads back to the same SKU and tier, each routable tier has
\* its slot, every alias is routed to the tier that lists it, whoever asks for a
\* context that is sold apart gets it, and an effort sent is one the model has
\* (catalog.rs).
RouteIsStable ==
  stage = "tools" =>
    LET info == Models[CatalogIndex(resolved.key) + 1]
    IN /\ CatalogIndex(resolved.key) < Len(Models)
       /\ info.key = resolved.key /\ info.kiro = resolved.kiro /\ info.id = resolved.anthropic
       /\ Resolve(resolved.anthropic, FALSE).key = resolved.key
       /\ \A alias \in info.aliases : Resolve(alias, FALSE).key = resolved.key
       /\ SupportsKiroModel(resolved.kiro)
       /\ \A id \in ListModels : Known(id)
       /\ (Rows[resolved.key[1]].tier = "both" /\ (request.beta \/ request.model.suffix)) => resolved.key[2]
       /\ effort \in {NoEffort} \cup ToSet(resolved.levels)
=============================================================================

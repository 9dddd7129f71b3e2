----------------------------- MODULE EventParser -----------------------------
(***************************************************************************)
(* The event parser (kiro-trust-protocol, eventstream.rs): one frame may   *)
(* yield no event, one, or two, because the fragments of a tool call are   *)
(* joined here.  A payload is abstracted to the kind of event it is and,   *)
(* for a tool fragment, to which fields it has.  A fragment is named by    *)
(* the number of the frame that brought it: the name of a call is the      *)
(* number of the fragment that gave it, its input a sequence of fragments. *)
(***************************************************************************)
EXTENDS Integers, Sequences

CONSTANTS
  Ids,             \* the tool use ids of the upstream
  NoId,            \* an absent or empty one
  MaxToolInput     \* MAX_TOOL_INPUT_BYTES

\* Malformed JSON is skipped in tool, metadata and metering events, and an
\* error in the others.
Kinds == {"tool", "plain", "failure", "malformed", "skipped"}

Payloads ==
  [kind : Kinds, id : Ids \cup {NoId}, name : {"absent", "empty", "given"},
   input : {"none", "text", "object"}, length : Nat, stop : BOOLEAN]

NoName == 0

Idle == [id |-> NoId, name |-> NoName, input |-> <<>>, length |-> 0]

\* The UUID made up for a call whose first fragment, number n, has no id.
Uuid(n) == <<n>>

\* What parse() makes of one frame: the events and the accumulator.
Result(status, events, tool) == [status |-> status, events |-> events, tool |-> tool]

\* A fragment opens a call: with a new id, or without one but with a name.
Opens(tool, v) ==
  IF v.id # NoId THEN v.id # tool.id ELSE tool.id = NoId /\ v.name # "absent"

\* An opening that keeps what the accumulator holds.
ReopenedCall(tool, n, v) ==
  [tool EXCEPT !.id = IF v.id # NoId THEN v.id ELSE Uuid(n)]

OpenedCall(tool, n, v) == [Idle EXCEPT !.id = IF v.id # NoId THEN v.id ELSE Uuid(n)]

Current(tool, n, v) == IF Opens(tool, v) THEN OpenedCall(tool, n, v) ELSE tool

\* The call that an opening fragment closes: nobody, or one that has an id.
Flushed(tool, v) == IF Opens(tool, v) /\ tool.id # NoId THEN <<tool>> ELSE <<>>

Named(tool, n, v) == IF v.name = "given" THEN [tool EXCEPT !.name = n] ELSE tool

\* Text is appended, an object replaces what was there.
OverCap(tool, v) ==
  \/ v.input = "text" /\ tool.length + v.length > MaxToolInput
  \/ v.input = "object" /\ v.length > MaxToolInput

Extended(tool, n, v) ==
  CASE v.input = "text" ->
         [tool EXCEPT !.input = Append(@, n), !.length = @ + v.length]
    [] v.input = "object" -> [tool EXCEPT !.input = <<n>>, !.length = v.length]
    [] OTHER -> tool

\* tool_use(): the fragment in frame n.
ToolUse(tool, n, v) ==
  LET current == Named(Current(tool, n, v), n, v)
      extended == Extended(current, n, v)
  IN IF OverCap(current, v) THEN Result("error", <<>>, Idle)
     ELSE IF v.stop THEN Result("events", Append(Flushed(tool, v), extended), Idle)
     ELSE Result("events", Flushed(tool, v), extended)

\* parse(): the events that are not tool calls carry nothing of interest.
Parse(tool, n, v) ==
  CASE v.kind = "tool" -> ToolUse(tool, n, v)
    [] v.kind = "malformed" -> Result("error", <<>>, tool)
    [] v.kind = "failure" -> Result("failure", <<>>, tool)
    [] OTHER -> Result("events", <<>>, tool)

\* finish(): the call in flight at the end of the stream.
Finish(tool) == IF tool.id = NoId THEN <<>> ELSE <<tool>>
==============================================================================

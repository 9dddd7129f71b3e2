-------------------------- MODULE AnthropicStream --------------------------
(***************************************************************************)
(* What a streaming client makes of the events it receives (anthropic.rs,  *)
(* StreamEvent; design spec, section 5.4): one message_start, content      *)
(* blocks numbered from 0 that open, take deltas of their own kind and     *)
(* close before the next one opens, then message_delta and message_stop.   *)
(* A client is a record [phase, open, blocks]; an event it cannot place    *)
(* leaves it "confused" for good.                                          *)
(***************************************************************************)
EXTENDS Integers

BlockKinds == {"text", "thinking", "redacted_thinking", "tool_use"}

Phases == {"waiting", "message", "closing", "done", "confused"}

Client == [phase : Phases, open : BlockKinds \cup {"none"}, blocks : Nat]

NewClient == [phase |-> "waiting", open |-> "none", blocks |-> 0]

Confused(c) == [c EXCEPT !.phase = "confused"]

MessageStart(c) ==
  IF c.phase = "waiting" THEN [c EXCEPT !.phase = "message"] ELSE Confused(c)

ContentBlockStart(c, index, kind) ==
  IF c.phase = "message" /\ c.open = "none" /\ index = c.blocks
  THEN [c EXCEPT !.open = kind, !.blocks = @ + 1]
  ELSE Confused(c)

ContentBlockDelta(c, index, kind) ==
  IF c.phase = "message" /\ c.open = kind /\ index = c.blocks - 1 THEN c ELSE Confused(c)

ContentBlockStop(c, index) ==
  IF c.phase = "message" /\ c.open # "none" /\ index = c.blocks - 1
  THEN [c EXCEPT !.open = "none"]
  ELSE Confused(c)

MessageDelta(c) ==
  IF c.phase = "message" /\ c.open = "none" THEN [c EXCEPT !.phase = "closing"] ELSE Confused(c)

MessageStop(c) ==
  IF c.phase = "closing" THEN [c EXCEPT !.phase = "done"] ELSE Confused(c)
=============================================================================

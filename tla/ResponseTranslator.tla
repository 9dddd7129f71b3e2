------------------------- MODULE ResponseTranslator -------------------------
(***************************************************************************)
(* The response state machine of kiro-trust-protocol (translate/           *)
(* response.rs): Kiro events in, Anthropic streaming events out.  It       *)
(* extracts thinking tags from the text, cuts the text at a stop sequence, *)
(* charges everything to one output budget and keeps the content blocks in *)
(* order, whatever the boundaries of the upstream deltas.                  *)
(*                                                                         *)
(* "tr" is the ResponseTranslator; tr.client is what has been emitted, as  *)
(* the client's parser sees it, and tr.late whether something was emitted  *)
(* although a stop had latched before.  Text is a sequence of characters;  *)
(* tool inputs and redacted data only count, so they are lengths; message  *)
(* ids, names, signatures' values and usage numbers are left out.          *)
(***************************************************************************)
EXTENDS AnthropicStream, Sequences, FiniteSetsExt

CONSTANTS
  Characters,     \* the alphabet
  OpenTag,        \* OPEN_TAG, "<thinking>"
  CloseTag,       \* CLOSE_TAG, "</thinking>"
  StopSequences,  \* the client's non-empty stop sequences, in its order
  Budget,         \* effective_max_tokens
  Texts,          \* contents of assistantResponse events
  Thoughts,       \* texts of reasoningContent events
  Opaques,        \* lengths of tool inputs and of redacted data
  MaxEvents       \* bound: upstream events consumed

CharsPerToken == 4   \* kirocc's estimate

String == Seq(Characters)

ASSUME TranslatorAssumption ==
  /\ OpenTag \in String \ {<<>>} /\ CloseTag \in String \ {<<>>}
  /\ StopSequences \in Seq(String \ {<<>>})
  /\ Budget \in Nat \ {0}
  /\ Texts \subseteq String \ {<<>>} /\ Thoughts \subseteq String
  /\ Opaques \subseteq Nat
  /\ MaxEvents \in Nat

VARIABLES
  tr,      \* the translator
  raw,     \* history: the assistant text consumed so far
  events   \* how many upstream events were consumed

vars == <<tr, raw, events>>

-----------------------------------------------------------------------------
(* Limits.                                                                 *)

Latch(s, reason) ==
  IF s.localStop = "none" THEN [s EXCEPT !.localStop = reason] ELSE s

\* apply_max_tokens: what fits is kept; the last token's worth latches.
ApplyMaxTokens(s, x) ==
  LET room    == Max({0, CharsPerToken * Budget - s.chars})
      kept    == SubSeq(x, 1, Min({Len(x), room}))
      charged == [s EXCEPT !.chars = @ + Len(kept)]
  IN [self |-> IF (s.chars + Len(x)) \div CharsPerToken < Budget
               THEN charged ELSE Latch(charged, "max_tokens"),
      out  |-> kept]

\* Opaque content is charged, but never stops the response.
AccountOpaqueOnly(s, n) == [s EXCEPT !.chars = @ + n]

AccountOpaque(s, n) ==
  LET charged == [s EXCEPT !.chars = @ + n]
  IN IF charged.chars \div CharsPerToken >= Budget THEN Latch(charged, "max_tokens") ELSE charged

\* Where p occurs in x.
Places(p, x) ==
  {i \in 1 .. (Len(x) - Len(p) + 1) : SubSeq(x, i, i + Len(p) - 1) = p}

\* One character fewer than the longest stop sequence.
StopMaxKeep == Max({0} \cup {Len(StopSequences[i]) - 1 : i \in DOMAIN StopSequences})

ShortKeep == Max({0} \cup {Len(StopSequences[i]) - 2 : i \in DOMAIN StopSequences})

\* apply_stop_filter: the first sequence of the client's list that occurs in
\* what is held back cuts there; otherwise a possible prefix is held back.
StopFilterKeeping(s, x, keep) ==
  LET held == s.pending \o x
      hits == {i \in DOMAIN StopSequences : Places(StopSequences[i], held) # {}}
  IN IF hits # {}
     THEN [self |-> Latch([s EXCEPT !.pending = <<>>], "stop_sequence"),
           out  |-> SubSeq(held, 1, Min(Places(StopSequences[Min(hits)], held)) - 1)]
     ELSE LET split == Max({0, Len(held) - keep})
          IN [self |-> [s EXCEPT !.pending = SubSeq(held, split + 1, Len(held))],
              out  |-> SubSeq(held, 1, split)]

\* The hold-back is one character short.
StopFilterShort(s, x) == StopFilterKeeping(s, x, ShortKeep)

ApplyStopFilter(s, x) == StopFilterKeeping(s, x, StopMaxKeep)

-----------------------------------------------------------------------------
(* Thinking tags.                                                          *)

\* partial_tag_suffix: the longest suffix that a tag may continue.
PartialTagSuffix(x, tag) ==
  Max({0} \cup {n \in 1 .. Min({Len(tag) - 1, Len(x)}) :
                  SubSeq(x, Len(x) - n + 1, Len(x)) = SubSeq(tag, 1, n)})

Told(inside, x, rest) ==
  IF inside THEN [rest EXCEPT !.think = x \o @] ELSE [rest EXCEPT !.text = x \o @]

TagSeen(rest) == [rest EXCEPT !.seen = TRUE]

\* The loop of parse_tags over the buffer x.
Scan[x \in String] ==
  [inside \in BOOLEAN |->
     LET tag == IF inside THEN CloseTag ELSE OpenTag
         at  == Places(tag, x)
     IN IF at # {}
        THEN Told(inside, SubSeq(x, 1, Min(at) - 1),
                  TagSeen(Scan[SubSeq(x, Min(at) + Len(tag), Len(x))][~inside]))
        ELSE LET cut == Len(x) - PartialTagSuffix(x, tag)
             IN Told(inside, SubSeq(x, 1, cut),
                     [text |-> <<>>, think |-> <<>>, buf |-> SubSeq(x, cut + 1, Len(x)),
                      inside |-> inside, seen |-> FALSE])]

\* A tag that opens suppresses reasoning events from then on.
ParseTags(s, x) ==
  LET scan == Scan[s.buf \o x][s.inside]
  IN [self |-> [s EXCEPT !.buf = scan.buf, !.inside = scan.inside,
                         !.suppress = @ \/ scan.seen],
      text |-> scan.text, think |-> scan.think]

-----------------------------------------------------------------------------
(* Emission.                                                               *)

EnsureStarted(s) ==
  IF s.started THEN s
  ELSE [s EXCEPT !.started = TRUE, !.client = MessageStart(@)]

CloseActive(s) ==
  IF s.active = "none" THEN s
  ELSE [s EXCEPT !.active = "none", !.client = ContentBlockStop(@, s.index)]

\* A block that is opened while the previous one is still open.
SwitchWithoutClosing(s, kind) ==
  IF s.active = kind THEN s
  ELSE [s EXCEPT !.index = @ + 1, !.active = kind,
                 !.client = ContentBlockStart(@, s.index + 1, kind)]

SwitchBlock(s, kind) ==
  IF s.active = kind THEN s
  ELSE LET c == CloseActive(s)
       IN [c EXCEPT !.index = @ + 1, !.active = kind,
                    !.client = ContentBlockStart(@, c.index + 1, kind)]

\* emit_text and emit_thinking.
Emit(s, kind, x) ==
  IF x = <<>> THEN s
  ELSE LET b == SwitchBlock(EnsureStarted(s), kind)
       IN [b EXCEPT !.client = ContentBlockDelta(@, b.index, kind)]

\* A block that opens and closes at once: a tool call, redacted thinking.
EmitWhole(s, kind) ==
  LET b == CloseActive(EnsureStarted(s))
      i == b.index + 1
      o == ContentBlockStart(b.client, i, kind)
      d == IF kind = "tool_use" THEN ContentBlockDelta(o, i, kind) ELSE o
  IN [b EXCEPT !.index = i, !.client = ContentBlockStop(d, i)]

\* Something is emitted from s although s has already latched a stop.
IsLate(s, x) == s.late \/ (s.localStop # "none" /\ x # <<>>)

\* take_thinking, then emit_thinking.
Think(s, x) ==
  LET c == ApplyMaxTokens(s, x)
  IN Emit([c.self EXCEPT !.thinking = @ \o c.out, !.late = IsLate(s, c.out)], "thinking", c.out)

\* take_text, then emit_text: the budget is charged only if nothing latched.
Say(s, x) ==
  LET f == ApplyStopFilter(s, x)
      c == IF f.out # <<>> /\ f.self.localStop = "none"
           THEN ApplyMaxTokens(f.self, f.out) ELSE f
  IN Emit([c.self EXCEPT !.text = @ \o c.out, !.late = IsLate(s, c.out)], "text", c.out)

\* finish: the partial tag buffer.
FlushTags(s) ==
  LET f == [s EXCEPT !.buf = <<>>]
  IN IF s.buf # <<>> /\ s.inside THEN Think(f, s.buf)
     ELSE IF s.buf # <<>> /\ s.localStop = "none" THEN Say(f, s.buf)
     ELSE f

\* finish: the stop-sequence hold-back.
FlushPending(s) ==
  LET f == [s EXCEPT !.pending = <<>>]
      c == ApplyMaxTokens(f, s.pending)
  IN IF s.pending = <<>> \/ s.localStop # "none" THEN f
     ELSE Emit([c.self EXCEPT !.text = @ \o c.out], "text", c.out)

Finish(s) ==
  IF s.finished THEN s
  ELSE LET f == CloseActive(FlushPending(FlushTags(EnsureStarted([s EXCEPT !.finished = TRUE]))))
       IN [f EXCEPT !.client = MessageStop(MessageDelta(@))]

\* A latched stop ends the message in the same push.
FinishIfStopped(s) == IF s.localStop # "none" THEN Finish(s) ELSE s

-----------------------------------------------------------------------------
(* push, one action per upstream event, and the end of the stream.         *)

Open == ~tr.finished /\ ~tr.failed

Consume == events < MaxEvents /\ events' = events + 1

AssistantResponse(content) ==
  /\ Consume
  /\ Open /\ tr.localStop = "none"
  /\ LET p == ParseTags(tr, content)
         t == IF p.think # <<>> THEN Think(p.self, p.think) ELSE p.self
         s == IF p.text # <<>> THEN Say(t, p.text) ELSE t
     IN tr' = FinishIfStopped(s)
  /\ raw' = raw \o content

\* redactedContent wins over the text of the same event.
RedactedContent(n) ==
  /\ Consume
  /\ Open
  /\ tr' = FinishIfStopped(EmitWhole(AccountOpaque(tr, n), "redacted_thinking"))
  /\ UNCHANGED raw

ReasoningContent(text, signed) ==
  /\ Consume
  /\ Open /\ ~tr.suppress
  /\ LET t == IF text # <<>> /\ tr.localStop = "none" THEN Think(tr, text) ELSE tr
         s == IF signed /\ t.active = "thinking"
              THEN [t EXCEPT !.client = ContentBlockDelta(@, t.index, "thinking")] ELSE t
     IN tr' = FinishIfStopped(s)
  /\ UNCHANGED raw

ToolUse(n) ==
  /\ Consume
  /\ Open /\ tr.localStop = "none"
  /\ tr' = FinishIfStopped(EmitWhole([AccountOpaque(tr, n) EXCEPT !.toolUsed = TRUE], "tool_use"))
  /\ UNCHANGED raw

\* InvalidState and Exception: nothing is emitted, the failure is kept.
UpstreamFailure ==
  /\ Consume
  /\ Open
  /\ tr' = [tr EXCEPT !.failed = TRUE]
  /\ UNCHANGED raw

\* Pump::next at the end of the body calls finish, unless a failure or a
\* local stop outranks it.
EndOfStream ==
  /\ ~tr.failed /\ tr.localStop = "none" /\ ~tr.finished
  /\ tr' = Finish(tr)
  /\ UNCHANGED <<raw, events>>

-----------------------------------------------------------------------------
NewTranslator ==
  [text |-> <<>>, thinking |-> <<>>, toolUsed |-> FALSE, localStop |-> "none",
   pending |-> <<>>, chars |-> 0, inside |-> FALSE, buf |-> <<>>, suppress |-> FALSE,
   started |-> FALSE, index |-> -1, active |-> "none", finished |-> FALSE,
   failed |-> FALSE, client |-> NewClient, late |-> FALSE]

Init == tr = NewTranslator /\ raw = <<>> /\ events = 0

Push ==
  \/ \E content \in Texts : AssistantResponse(content)
  \/ \E n \in Opaques : RedactedContent(n) \/ ToolUse(n)
  \/ \E text \in Thoughts, signed \in BOOLEAN : ReasoningContent(text, signed)
  \/ UpstreamFailure

\* The response is over: its translator is read no further.
Over == ~Open /\ UNCHANGED vars

Next == Push \/ EndOfStream \/ Over

Spec == Init /\ [][Next]_vars
-----------------------------------------------------------------------------
\* The stream is well formed after every event, over every mix of text,
\* thinking, tags, tool calls, redaction and early stops: the client is never
\* confused, and it and the translator agree on the open block and its index.
StreamInStep ==
  tr.client = [phase  |-> IF ~tr.started THEN "waiting"
                          ELSE IF tr.finished THEN "done" ELSE "message",
               open   |-> tr.active,
               blocks |-> tr.index + 1]

\* The pump drops the upstream as soon as a local stop has latched and calls
\* nothing more (pump.rs, next), so the push that latches must also have ended
\* the message.
StoppedIsFinished == tr.localStop # "none" => tr.finished

\* Until a stop latches, everything delivered was charged and the budget is not
\* used up: no mix of deltas slips past the limit and goes on.
ChargedUntilStop ==
  tr.localStop = "none" =>
    /\ Len(tr.text) + Len(tr.thinking) <= tr.chars
    /\ tr.chars \div CharsPerToken < Budget

\* The text of a response once its tags are taken out, in one piece.
Visible(x) ==
  LET scan == Scan[x][FALSE]
  IN scan.text \o (IF scan.inside THEN <<>> ELSE scan.buf)

Stops(x) == UNION {Places(StopSequences[i], x) : i \in DOMAIN StopSequences}

CutAtStop(x) == IF Stops(x) = {} THEN x ELSE SubSeq(x, 1, Min(Stops(x)) - 1)

\* Tags and stop sequences are found across delta boundaries: whatever the
\* deltas, the text is the visible text of the whole response, cut at the
\* first stop sequence in it, and nothing held back is lost at the end.  A
\* budget that runs out may end it earlier, never beyond that cut.
TextIsCut ==
  LET whole == Visible(raw)
      held  == tr.pending \o (IF tr.inside THEN <<>> ELSE tr.buf)
  IN CASE tr.localStop = "none"          -> /\ tr.text \o held = whole
                                            /\ Stops(tr.text \o tr.pending) = {}
                                            /\ tr.finished => held = <<>>
       [] tr.localStop = "stop_sequence" -> tr.text = CutAtStop(whole)
       [] tr.localStop = "max_tokens"    -> /\ Len(tr.text) <= Len(CutAtStop(whole))
                                            /\ tr.text = SubSeq(CutAtStop(whole), 1, Len(tr.text))

\* Once a local stop has latched, nothing more is emitted, be it the budget that
\* latched it or a stop sequence (response.rs, the comment in finish; section 5.4).
NothingAfterStop == ~tr.late
=============================================================================

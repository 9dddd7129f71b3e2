---------------------- MODULE ResponseTranslatorProofs ----------------------
(***************************************************************************)
(* The response translator, for every text, every tag, every list of stop  *)
(* sequences and every budget.                                             *)
(*                                                                         *)
(* The form of the stream: between two upstream events the client agrees   *)
(* with the translator (Agrees); inside an event it does so step by step   *)
(* (Working), each step being a lemma.  Only whether a text is empty       *)
(* matters for that.                                                       *)
(*                                                                         *)
(* The text: Scan is shown to be the function its recursion says           *)
(* (ScanIs), and to be incremental (DeltasDoNotMatter): what it makes of a *)
(* text does not depend on where the deltas cut it.  So after every event  *)
(* the translator stands where Scan of everything consumed stands          *)
(* (Stands): what was said and what is held back is its text (Follows), or *)
(* a stop has latched and what was said ends there, whatever comes later   *)
(* (Ends).                                                                 *)
(*                                                                         *)
(* The prover's induction theorems take an operator; induction is done     *)
(* here with a set of good elements instead, from the well-foundedness of  *)
(* the subset order on finite sets (LeastNat, UpTheNaturals, ByLength).    *)
(***************************************************************************)
EXTENDS ResponseTranslator, FiniteSetTheorems, SequenceTheorems, TLAPS

\* A record with exactly the fields of the translator.
IsTranslator(s) == s =
  [text |-> s.text, thinking |-> s.thinking, toolUsed |-> s.toolUsed, localStop |-> s.localStop,
   pending |-> s.pending, chars |-> s.chars, inside |-> s.inside, buf |-> s.buf,
   suppress |-> s.suppress, started |-> s.started, index |-> s.index, active |-> s.active,
   finished |-> s.finished, failed |-> s.failed, client |-> s.client, late |-> s.late]

\* The fields that the emission of events depends on.
Shape(s) ==
  /\ IsTranslator(s)
  /\ s.index \in Int
  /\ s.active \in {"none", "text", "thinking"}
  /\ s.started \in BOOLEAN /\ s.finished \in BOOLEAN
  /\ ~s.started => s.active = "none"

ClientAt(s, phase) == [phase |-> phase, open |-> s.active, blocks |-> s.index + 1]

\* In the middle of an event: the message is started or not, but not over.
Working(s) ==
  /\ Shape(s)
  /\ s.client = ClientAt(s, IF s.started THEN "message" ELSE "waiting")

\* Between two events.
Agrees(s) ==
  /\ Shape(s)
  /\ s.finished => s.started /\ s.active = "none"
  /\ s.client = ClientAt(s, IF ~s.started THEN "waiting"
                            ELSE IF s.finished THEN "done" ELSE "message")

Inv == Agrees(tr) /\ StoppedIsFinished

\* r is s but for what the limits and the tags keep.
Kept(r, s) ==
  /\ IsTranslator(r)
  /\ r.index = s.index /\ r.active = s.active /\ r.started = s.started
  /\ r.finished = s.finished /\ r.client = s.client

\* r is s but for the index and what the client has seen.
Moved(r, s, index, client) ==
  /\ IsTranslator(r) /\ r.index = index /\ r.client = client
  /\ r.active = s.active /\ r.started = s.started
  /\ r.finished = s.finished /\ r.localStop = s.localStop

-----------------------------------------------------------------------------
(* Limits and tags emit nothing.                                           *)

\* A step that emits nothing leaves client and translator in agreement.
LEMMA KeptWorks ==
  ASSUME NEW s, NEW r, Working(s), Kept(r, s)
  PROVE  Working(r)
  BY DEF Working, Shape, Kept, ClientAt

\* Latching a stop emits nothing.
LEMMA LatchKeeps ==
  ASSUME NEW s, Shape(s), NEW reason
  PROVE  Kept(Latch(s, reason), s) /\ Shape(Latch(s, reason))
  BY SMT DEF Latch, Kept, Shape, IsTranslator

\* Charging the budget emits nothing.
LEMMA MaxTokensKeeps ==
  ASSUME NEW s, Shape(s), NEW x
  PROVE  Kept(ApplyMaxTokens(s, x).self, s)
<1> DEFINE room    == Max({0, CharsPerToken * Budget - s.chars})
           kept    == SubSeq(x, 1, Min({Len(x), room}))
           charged == [s EXCEPT !.chars = @ + Len(kept)]
           cond    == (s.chars + Len(x)) \div CharsPerToken < Budget
<1>1. ApplyMaxTokens(s, x).self = IF cond THEN charged ELSE Latch(charged, "max_tokens")
  BY DEF ApplyMaxTokens
<1>2. Kept(charged, s) /\ Shape(charged)
  <2> HIDE DEF kept
  <2> QED BY DEF Kept, Shape, IsTranslator
<1> HIDE DEF charged, cond
<1>3. Kept(Latch(charged, "max_tokens"), charged)
  BY <1>2, LatchKeeps
<1> QED BY <1>1, <1>2, <1>3 DEF Kept

\* So does charging a tool input or redacted data.
LEMMA OpaqueKeeps ==
  ASSUME NEW s, Shape(s), NEW n
  PROVE  Kept(AccountOpaque(s, n), s)
<1> DEFINE charged == [s EXCEPT !.chars = @ + n]
<1>1. AccountOpaque(s, n) \in {charged, Latch(charged, "max_tokens")}
  BY DEF AccountOpaque
<1>2. Kept(charged, s) /\ Shape(charged)
  BY DEF Kept, Shape, IsTranslator
<1> HIDE DEF charged
<1>3. Kept(Latch(charged, "max_tokens"), charged)
  BY <1>2, LatchKeeps
<1> QED BY <1>1, <1>2, <1>3 DEF Kept

\* Filtering the stop sequences emits nothing.
LEMMA StopFilterKeeps ==
  ASSUME NEW s, Shape(s), NEW x
  PROVE  Kept(ApplyStopFilter(s, x).self, s)
<1> DEFINE held  == s.pending \o x
           hits  == {i \in DOMAIN StopSequences : Places(StopSequences[i], held) # {}}
           empty == [s EXCEPT !.pending = <<>>]
           split == Max({0, Len(held) - StopMaxKeep})
           later == [s EXCEPT !.pending = SubSeq(held, split + 1, Len(held))]
<1>1. ApplyStopFilter(s, x).self = IF hits # {} THEN Latch(empty, "stop_sequence") ELSE later
  BY DEF ApplyStopFilter, StopFilterKeeping
<1>2. Kept(empty, s) /\ Shape(empty)
  BY DEF Kept, Shape, IsTranslator
<1>3. Kept(later, s)
  <2> DEFINE rest == SubSeq(held, split + 1, Len(held))
  <2>1. later = [s EXCEPT !.pending = rest]
    OBVIOUS
  <2> HIDE DEF rest, later
  <2> QED BY <2>1 DEF Kept, Shape, IsTranslator
<1> HIDE DEF empty, later, hits
<1>4. Kept(Latch(empty, "stop_sequence"), empty)
  BY <1>2, LatchKeeps
<1> QED BY <1>1, <1>2, <1>3, <1>4 DEF Kept

\* Looking for tags emits nothing.
LEMMA TagsKeep ==
  ASSUME NEW s, Shape(s), NEW x
  PROVE  Kept(ParseTags(s, x).self, s)
<1> DEFINE scan     == Scan[s.buf \o x][s.inside]
           rest     == scan.buf
           inTag    == scan.inside
           suppress == s.suppress \/ scan.seen
<1>1. ParseTags(s, x).self = [s EXCEPT !.buf = rest, !.inside = inTag, !.suppress = suppress]
  BY DEF ParseTags
<1> HIDE DEF scan, rest, inTag, suppress
<1> QED BY <1>1 DEF Kept, Shape, IsTranslator

\* Recording a thought emits nothing.
LEMMA ThoughtKept ==
  ASSUME NEW t, IsTranslator(t), NEW v, NEW w
  PROVE  LET r == [t EXCEPT !.thinking = v, !.late = w]
         IN Kept(r, t)
<1> DEFINE u == [t EXCEPT !.thinking = v]
           r == [u EXCEPT !.late = w]
<1>1. IsTranslator(u)
  BY DEF IsTranslator
<1>2. [t EXCEPT !.thinking = v, !.late = w] = r
  OBVIOUS
<1>3. u.index = t.index /\ u.active = t.active /\ u.started = t.started /\ u.finished = t.finished
        /\ u.client = t.client /\ u.localStop = t.localStop
  BY DEF IsTranslator
<1> HIDE DEF u
<1>4. IsTranslator(r)
  BY <1>1 DEF IsTranslator
<1>5. r.index = u.index /\ r.active = u.active /\ r.started = u.started /\ r.finished = u.finished
        /\ r.client = u.client /\ r.localStop = u.localStop
  BY <1>1 DEF IsTranslator
<1> HIDE DEF r
<1> QED BY <1>2, <1>3, <1>4, <1>5 DEF Kept

\* Recording text emits nothing.
LEMMA TextKept ==
  ASSUME NEW t, IsTranslator(t), NEW v, NEW w
  PROVE  LET r == [t EXCEPT !.text = v, !.late = w]
         IN Kept(r, t)
<1> DEFINE u == [t EXCEPT !.text = v]
           r == [u EXCEPT !.late = w]
<1>1. IsTranslator(u)
  BY DEF IsTranslator
<1>2. [t EXCEPT !.text = v, !.late = w] = r
  OBVIOUS
<1>3. u.index = t.index /\ u.active = t.active /\ u.started = t.started /\ u.finished = t.finished
        /\ u.client = t.client /\ u.localStop = t.localStop
  BY DEF IsTranslator
<1> HIDE DEF u
<1>4. IsTranslator(r)
  BY <1>1 DEF IsTranslator
<1>5. r.index = u.index /\ r.active = u.active /\ r.started = u.started /\ r.finished = u.finished
        /\ r.client = u.client /\ r.localStop = u.localStop
  BY <1>1 DEF IsTranslator
<1> HIDE DEF r
<1> QED BY <1>2, <1>3, <1>4, <1>5 DEF Kept

\* A block that opens and closes at once moves the index and nothing else.
LEMMA BlockCounted ==
  ASSUME NEW t, IsTranslator(t), NEW v, NEW w
  PROVE  Moved([t EXCEPT !.index = v, !.client = w], t, v, w)
<1> DEFINE u == [t EXCEPT !.index = v]
           r == [u EXCEPT !.client = w]
<1>1. /\ IsTranslator(u) /\ u.index = v
      /\ u.active = t.active /\ u.started = t.started
      /\ u.finished = t.finished /\ u.localStop = t.localStop
  BY DEF IsTranslator
<1>2. [t EXCEPT !.index = v, !.client = w] = r
  OBVIOUS
<1> HIDE DEF u
<1>3. /\ IsTranslator(r) /\ r.index = u.index /\ r.client = w
      /\ r.active = u.active /\ r.started = u.started
      /\ r.finished = u.finished /\ r.localStop = u.localStop
  BY <1>1 DEF IsTranslator
<1> HIDE DEF r
<1> QED BY <1>1, <1>2, <1>3 DEF Moved

-----------------------------------------------------------------------------
(* Emission, one lemma per operator.                                       *)

\* A client in a message with no block open takes the next block.
LEMMA BlockOpens ==
  ASSUME NEW n \in Int, NEW kind
  PROVE  ContentBlockStart([phase |-> "message", open |-> "none", blocks |-> n], n, kind)
           = [phase |-> "message", open |-> kind, blocks |-> n + 1]
<1> DEFINE c == [phase |-> "message", open |-> "none", blocks |-> n]
<1>1. ContentBlockStart(c, n, kind) = [c EXCEPT !.open = kind, !.blocks = n + 1]
  BY DEF ContentBlockStart
<1> QED BY <1>1

\* The message is started at most once.
LEMMA StartWorks ==
  ASSUME NEW s, Working(s)
  PROVE  LET r == EnsureStarted(s)
         IN Working(r) /\ r.started /\ r.finished = s.finished /\ r.localStop = s.localStop
<1> SUFFICES ASSUME ~s.started
             PROVE  LET r == EnsureStarted(s)
                    IN Working(r) /\ r.started /\ r.finished = s.finished /\ r.localStop = s.localStop
  BY DEF EnsureStarted
<1>1. MessageStart(s.client) = ClientAt(s, "message")
  BY DEF Working, MessageStart, ClientAt
<1>2. EnsureStarted(s) = [s EXCEPT !.started = TRUE, !.client = ClientAt(s, "message")]
  BY <1>1 DEF EnsureStarted
<1> QED BY <1>2 DEF Working, Shape, IsTranslator, ClientAt

\* Closing leaves no block open, and the client has seen it close.
LEMMA CloseWorks ==
  ASSUME NEW s, Working(s)
  PROVE  LET r == CloseActive(s)
         IN /\ Working(r) /\ r.active = "none" /\ r.started = s.started
            /\ r.finished = s.finished /\ r.localStop = s.localStop /\ r.index = s.index
<1>1. CASE s.active = "none"
  BY <1>1 DEF CloseActive
<1>2. CASE s.active # "none"
  <2>1. s.started
    BY <1>2 DEF Working, Shape
  <2>2. ContentBlockStop(s.client, s.index) = [phase |-> "message", open |-> "none", blocks |-> s.index + 1]
    BY <1>2, <2>1 DEF Working, Shape, ContentBlockStop, ClientAt
  <2>3. CloseActive(s) = [s EXCEPT !.active = "none",
           !.client = [phase |-> "message", open |-> "none", blocks |-> s.index + 1]]
    BY <1>2, <2>2 DEF CloseActive
  <2> DEFINE m == [phase |-> "message", open |-> "none", blocks |-> s.index + 1]
             no == "none"
             u == [s EXCEPT !.active = no]
             r == [u EXCEPT !.client = m]
  <2> HIDE DEF m, no
  <2>4. /\ IsTranslator(u) /\ u.active = no /\ u.started = s.started
        /\ u.finished = s.finished /\ u.localStop = s.localStop /\ u.index = s.index
    BY DEF Working, Shape, IsTranslator
  <2> HIDE DEF u
  <2>5. /\ IsTranslator(r) /\ r.active = no /\ r.client = m /\ r.started = s.started
        /\ r.finished = s.finished /\ r.localStop = s.localStop /\ r.index = s.index
    BY <2>4 DEF IsTranslator
  <2>6. CloseActive(s) = r
    BY <2>3 DEF m, no, u
  <2> HIDE DEF r
  <2> QED BY <2>1, <2>5, <2>6 DEF Working, Shape, ClientAt, m, no
<1> QED BY <1>1, <1>2

\* Switching closes what is open and opens the next index.
LEMMA SwitchWorks ==
  ASSUME NEW s, Working(s), s.started, NEW kind \in {"text", "thinking"}
  PROVE  LET r == SwitchBlock(s, kind)
         IN /\ Working(r) /\ r.started /\ r.active = kind
            /\ r.finished = s.finished /\ r.localStop = s.localStop
<1>1. CASE s.active = kind
  BY <1>1 DEF SwitchBlock
<1>2. CASE s.active # kind
  <2> DEFINE c == CloseActive(s)
  <2>1. /\ Working(c) /\ c.active = "none" /\ c.started
        /\ c.finished = s.finished /\ c.localStop = s.localStop
    BY CloseWorks
  <2>2. SwitchBlock(s, kind) =
          [c EXCEPT !.index = @ + 1, !.active = kind,
                    !.client = ContentBlockStart(@, c.index + 1, kind)]
    BY <1>2 DEF SwitchBlock
  <2> HIDE DEF c
  <2>3. ContentBlockStart(c.client, c.index + 1, kind)
          = [phase |-> "message", open |-> kind, blocks |-> c.index + 2]
    <3>1. c.client = [phase |-> "message", open |-> "none", blocks |-> c.index + 1]
      BY <2>1 DEF Working, ClientAt
    <3>2. c.index \in Int /\ (c.index + 1) + 1 = c.index + 2
      BY <2>1 DEF Working, Shape
    <3> QED BY <3>1, <3>2, BlockOpens
  <2>4. SwitchBlock(s, kind) =
          [c EXCEPT !.index = c.index + 1, !.active = kind,
                    !.client = [phase |-> "message", open |-> kind, blocks |-> c.index + 2]]
    BY <2>2, <2>3
  <2> DEFINE i == c.index + 1
  <2>5. c.index + 2 = i + 1 /\ i \in Int
    BY <2>1 DEF Working, Shape
  <2>6. SwitchBlock(s, kind) =
          [c EXCEPT !.index = i, !.active = kind,
                    !.client = [phase |-> "message", open |-> kind, blocks |-> i + 1]]
    BY <2>4, <2>5
  <2> HIDE DEF i
  <2> QED BY <2>1, <2>5, <2>6 DEF Working, Shape, IsTranslator, ClientAt
<1> QED BY <1>1, <1>2

\* A delta goes to an open block of its own kind.
LEMMA EmitWorks ==
  ASSUME NEW s, Working(s), NEW kind \in {"text", "thinking"}, NEW x
  PROVE  LET r == Emit(s, kind, x)
         IN /\ Working(r) /\ r.finished = s.finished /\ r.localStop = s.localStop
            /\ s.started => r.started
<1>1. CASE x = <<>>
  BY <1>1 DEF Emit
<1>2. CASE x # <<>>
  <2> DEFINE b == SwitchBlock(EnsureStarted(s), kind)
  <2>1. /\ Working(b) /\ b.started /\ b.active = kind
        /\ b.finished = s.finished /\ b.localStop = s.localStop
    BY StartWorks, SwitchWorks
  <2>2. Emit(s, kind, x) = [b EXCEPT !.client = ContentBlockDelta(@, b.index, kind)]
    BY <1>2 DEF Emit
  <2> HIDE DEF b
  <2>3. ContentBlockDelta(b.client, b.index, kind) = b.client
    BY <2>1 DEF Working, Shape, ContentBlockDelta, ClientAt
  <2>4. Emit(s, kind, x) = [b EXCEPT !.client = b.client]
    BY <2>2, <2>3
  <2> QED BY <2>1, <2>4 DEF Working, Shape, IsTranslator, ClientAt
<1> QED BY <1>1, <1>2

\* A tool call or a redacted block opens, holds what it holds and closes.
LEMMA WholeWorks ==
  ASSUME NEW s, Working(s), NEW kind \in {"redacted_thinking", "tool_use"}
  PROVE  LET r == EmitWhole(s, kind)
         IN Working(r) /\ r.finished = s.finished /\ r.localStop = s.localStop
<1> DEFINE b == CloseActive(EnsureStarted(s))
           i == b.index + 1
           o == ContentBlockStart(b.client, i, kind)
           d == IF kind = "tool_use" THEN ContentBlockDelta(o, i, kind) ELSE o
<1>1. /\ Working(b) /\ b.active = "none" /\ b.started
      /\ b.finished = s.finished /\ b.localStop = s.localStop
  BY StartWorks, CloseWorks
<1>2. EmitWhole(s, kind) = [b EXCEPT !.index = i, !.client = ContentBlockStop(d, i)]
  BY DEF EmitWhole
<1> HIDE DEF b
<1>3. i \in Int /\ b.client = [phase |-> "message", open |-> "none", blocks |-> i]
  BY <1>1 DEF Working, Shape, ClientAt
<1> HIDE DEF i
<1>4. o = [phase |-> "message", open |-> kind, blocks |-> i + 1]
  BY <1>3, BlockOpens
<1> HIDE DEF o
<1>5. d = [phase |-> "message", open |-> kind, blocks |-> i + 1]
  BY <1>3, <1>4 DEF ContentBlockDelta
<1> HIDE DEF d
<1>6. ContentBlockStop(d, i) = [phase |-> "message", open |-> "none", blocks |-> i + 1]
  BY <1>3, <1>5 DEF ContentBlockStop
<1>7. EmitWhole(s, kind) =
        [b EXCEPT !.index = i, !.client = [phase |-> "message", open |-> "none", blocks |-> i + 1]]
  BY <1>2, <1>6
<1> DEFINE m == [phase |-> "message", open |-> "none", blocks |-> i + 1]
           r == [b EXCEPT !.index = i, !.client = m]
<1> HIDE DEF m
<1>8. Moved(r, b, i, m)
  <2>1. IsTranslator(b)
    BY <1>1 DEF Working, Shape
  <2> QED BY <2>1, BlockCounted, Zenon
<1>9. EmitWhole(s, kind) = r
  BY <1>7 DEF m
<1> HIDE DEF r
<1>10. r.client = ClientAt(r, "message")
  BY <1>1, <1>8 DEF ClientAt, m, Moved
<1>11. Shape(r)
  BY <1>1, <1>3, <1>8 DEF Shape, Working, Moved
<1> QED BY <1>1, <1>8, <1>9, <1>10, <1>11 DEF Working, Moved

\* A thought is charged, cut and emitted in step.
LEMMA ThinkWorks ==
  ASSUME NEW s, Working(s), NEW x
  PROVE  /\ Working(Think(s, x)) /\ Think(s, x).finished = s.finished
         /\ s.started => Think(s, x).started
<1> DEFINE c    == ApplyMaxTokens(s, x)
           t    == c.self
           all  == t.thinking \o c.out
           late == IsLate(s, c.out)
           b    == [t EXCEPT !.thinking = all, !.late = late]
<1>1. Think(s, x) = Emit(b, "thinking", c.out)
  BY DEF Think
<1>2. Kept(t, s)
  BY MaxTokensKeeps DEF Working
<1> HIDE DEF c, t, all, late
<1>3. Kept(b, s)
  <2>1. IsTranslator(t)
    BY <1>2 DEF Kept
  <2>2. Kept(b, t)
    BY <2>1, ThoughtKept, Zenon
  <2> HIDE DEF b
  <2> QED BY <1>2, <2>2 DEF Kept
<1> HIDE DEF b
<1>4. Working(b)
  BY <1>3, KeptWorks
<1> QED BY <1>1, <1>3, <1>4, EmitWorks DEF Kept

\* Text is filtered, charged unless a stop has latched, cut and emitted in step.
LEMMA SayWorks ==
  ASSUME NEW s, Working(s), NEW x
  PROVE  /\ Working(Say(s, x)) /\ Say(s, x).finished = s.finished
         /\ s.started => Say(s, x).started
<1> DEFINE f    == ApplyStopFilter(s, x)
           c    == IF f.out # <<>> /\ f.self.localStop = "none"
                   THEN ApplyMaxTokens(f.self, f.out) ELSE f
           t    == c.self
           all  == t.text \o c.out
           late == IsLate(s, c.out)
           b    == [t EXCEPT !.text = all, !.late = late]
<1>1. Say(s, x) = Emit(b, "text", c.out)
  BY DEF Say
<1>2. Kept(f.self, s)
  BY StopFilterKeeps DEF Working
<1> HIDE DEF f
<1>3. Working(f.self)
  BY <1>2, KeptWorks
<1>4. Kept(ApplyMaxTokens(f.self, f.out).self, f.self)
  BY <1>3, MaxTokensKeeps DEF Working
<1>5. Kept(t, s)
  <2>1. CASE f.out # <<>> /\ f.self.localStop = "none"
    BY <1>2, <1>4, <2>1 DEF Kept
  <2>2. CASE ~(f.out # <<>> /\ f.self.localStop = "none")
    BY <1>2, <2>2
  <2> QED BY <2>1, <2>2
<1> HIDE DEF c, t, all, late
<1>6. Kept(b, s)
  <2>1. IsTranslator(t)
    BY <1>5 DEF Kept
  <2>2. Kept(b, t)
    BY <2>1, TextKept, Zenon
  <2> HIDE DEF b
  <2> QED BY <1>5, <2>2 DEF Kept
<1> HIDE DEF b
<1>7. Working(b)
  BY <1>6, KeptWorks
<1> QED BY <1>1, <1>6, <1>7, EmitWorks DEF Kept

-----------------------------------------------------------------------------
(* finish.                                                                 *)

\* What is left of the tags is flushed in step.
LEMMA FlushTagsWorks ==
  ASSUME NEW s, Working(s)
  PROVE  /\ Working(FlushTags(s)) /\ FlushTags(s).finished = s.finished
         /\ s.started => FlushTags(s).started
<1> DEFINE f == [s EXCEPT !.buf = <<>>]
<1>1. Kept(f, s)
  BY DEF Working, Shape, Kept, IsTranslator
<1>2. FlushTags(s) \in {Think(f, s.buf), Say(f, s.buf), f}
  BY DEF FlushTags
<1> HIDE DEF f
<1>3. Working(f) /\ f.finished = s.finished /\ f.started = s.started
  BY <1>1, KeptWorks DEF Kept
<1> QED BY <1>2, <1>3, ThinkWorks, SayWorks

\* What was held back for a stop sequence is flushed in step.
LEMMA FlushPendingWorks ==
  ASSUME NEW s, Working(s)
  PROVE  /\ Working(FlushPending(s)) /\ FlushPending(s).finished = s.finished
         /\ s.started => FlushPending(s).started
<1> DEFINE f   == [s EXCEPT !.pending = <<>>]
           c   == ApplyMaxTokens(f, s.pending)
           t   == c.self
           all == t.text \o c.out
           b   == [t EXCEPT !.text = all]
<1>1. Kept(f, s)
  BY DEF Working, Shape, Kept, IsTranslator
<1>2. FlushPending(s) \in {f, Emit(b, "text", c.out)}
  BY DEF FlushPending
<1> HIDE DEF f
<1>3. Working(f) /\ f.finished = s.finished /\ f.started = s.started
  BY <1>1, KeptWorks DEF Kept
<1>4. Kept(t, f)
  BY <1>3, MaxTokensKeeps DEF Working
<1> HIDE DEF c, t, all
<1>5. Kept(b, t)
  BY <1>4 DEF Kept, IsTranslator
<1> HIDE DEF b
<1>6. Working(b) /\ b.finished = s.finished /\ b.started = s.started
  BY <1>3, <1>4, <1>5, KeptWorks DEF Kept
<1> QED BY <1>2, <1>3, <1>6, EmitWorks

\* Finishing closes the last block and ends the message.
LEMMA FinishAgrees ==
  ASSUME NEW s, Working(s), ~s.finished
  PROVE  Agrees(Finish(s)) /\ Finish(s).finished
<1> DEFINE u == [s EXCEPT !.finished = TRUE]
           v == EnsureStarted(u)
           w == FlushPending(FlushTags(v))
           f == CloseActive(w)
<1>1. Working(u) /\ u.finished
  <2>1. /\ IsTranslator(u) /\ u.finished = TRUE
        /\ u.index = s.index /\ u.active = s.active /\ u.started = s.started /\ u.client = s.client
    <3>1. IsTranslator(s)
      BY DEF Working, Shape
    <3> DEFINE over == TRUE
               r    == [s EXCEPT !.finished = over]
    <3> HIDE DEF over
    <3>2. /\ IsTranslator(r) /\ r.finished = over
          /\ r.index = s.index /\ r.active = s.active /\ r.started = s.started /\ r.client = s.client
      BY <3>1 DEF IsTranslator
    <3>3. u = r /\ over = TRUE
      BY DEF over
    <3> HIDE DEF r, u
    <3> QED BY <3>2, <3>3
  <2> HIDE DEF u
  <2> QED BY <2>1 DEF Working, Shape, ClientAt
<1>2. Finish(s) = [f EXCEPT !.client = MessageStop(MessageDelta(@))]
  BY DEF Finish
<1> HIDE DEF u
<1>3. Working(v) /\ v.started /\ v.finished
  BY <1>1, StartWorks
<1> HIDE DEF v
<1>4. Working(w) /\ w.started /\ w.finished
  BY <1>3, FlushTagsWorks, FlushPendingWorks
<1> HIDE DEF w
<1>5. Working(f) /\ f.active = "none" /\ f.started /\ f.finished
  BY <1>4, CloseWorks
<1> HIDE DEF f
<1> DEFINE c == [phase |-> "done", open |-> "none", blocks |-> f.index + 1]
           r == [f EXCEPT !.client = c]
<1>6. MessageStop(MessageDelta(f.client)) = c
  <2>1. f.client = [phase |-> "message", open |-> "none", blocks |-> f.index + 1]
    BY <1>5 DEF Working, ClientAt
  <2>2. MessageDelta(f.client) = [phase |-> "closing", open |-> "none", blocks |-> f.index + 1]
    BY <2>1 DEF MessageDelta
  <2> QED BY <2>2 DEF MessageStop
<1>7. Finish(s) = r
  BY <1>2, <1>6
<1> HIDE DEF c
<1>8. /\ IsTranslator(r) /\ r.client = c /\ r.finished = f.finished
      /\ r.index = f.index /\ r.active = f.active /\ r.started = f.started
  <2>1. IsTranslator(f)
    BY <1>5 DEF Working, Shape
  <2> QED BY <2>1 DEF IsTranslator
<1> HIDE DEF r
<1> QED BY <1>5, <1>7, <1>8 DEF Agrees, Working, Shape, ClientAt, c

\* An event that latches a stop has also ended the message.
LEMMA FinishIfStoppedAgrees ==
  ASSUME NEW s, Working(s), ~s.finished
  PROVE  LET r == FinishIfStopped(s)
         IN Agrees(r) /\ (r.localStop # "none" => r.finished)
<1>1. CASE s.localStop = "none"
  BY <1>1 DEF FinishIfStopped, Agrees, Working
<1>2. CASE s.localStop # "none"
  BY <1>2, FinishAgrees DEF FinishIfStopped
<1> QED BY <1>1, <1>2

-----------------------------------------------------------------------------
(* The events.                                                             *)

\* While the message is open, what is between two events is Working.
LEMMA OpenWorks ==
  ASSUME Inv, Open
  PROVE  Working(tr) /\ ~tr.finished /\ tr.localStop = "none"
BY DEF Inv, Agrees, Working, Open, StoppedIsFinished

\* The new translator and the new client agree.
LEMMA InitAgrees == Init => Inv
<1> SUFFICES ASSUME Init PROVE Inv
  OBVIOUS
<1>1. tr = NewTranslator
  BY DEF Init
<1>2. Shape(tr)
  BY <1>1 DEF NewTranslator, Shape, IsTranslator
<1>3. tr.client = ClientAt(tr, "waiting") /\ ~tr.started /\ ~tr.finished /\ tr.localStop = "none"
  BY <1>1 DEF NewTranslator, NewClient, ClientAt
<1> QED BY <1>2, <1>3 DEF Inv, Agrees, StoppedIsFinished

\* Every upstream event, and the end of the stream, keeps the invariant.
LEMMA NextAgrees == Inv /\ [Next]_vars => Inv'
<1> SUFFICES ASSUME Inv, [Next]_vars PROVE Inv'
  OBVIOUS
<1>1. ASSUME NEW s, Working(s), ~s.finished, tr' = FinishIfStopped(s) PROVE Inv'
  BY <1>1, FinishIfStoppedAgrees DEF Inv, Agrees, Shape, IsTranslator, ClientAt, StoppedIsFinished
<1>2. ASSUME NEW content, AssistantResponse(content) PROVE Inv'
  <2> DEFINE p == ParseTags(tr, content)
             t == IF p.think # <<>> THEN Think(p.self, p.think) ELSE p.self
             s == IF p.text # <<>> THEN Say(t, p.text) ELSE t
  <2>1. Working(tr) /\ ~tr.finished
    BY <1>2, OpenWorks DEF AssistantResponse
  <2>2. tr' = FinishIfStopped(s)
    BY <1>2 DEF AssistantResponse
  <2>3. Kept(p.self, tr)
    BY <2>1, TagsKeep DEF Working
  <2> HIDE DEF p
  <2>4. Working(p.self) /\ ~p.self.finished
    BY <2>1, <2>3, KeptWorks DEF Kept
  <2>5. Working(t) /\ ~t.finished
    BY <2>4, ThinkWorks
  <2> HIDE DEF t
  <2>6. Working(s) /\ ~s.finished
    BY <2>5, SayWorks
  <2> HIDE DEF s
  <2> QED BY <1>1, <2>2, <2>6
<1>3. ASSUME NEW n, RedactedContent(n) PROVE Inv'
  <2> DEFINE a == AccountOpaque(tr, n)
             s == EmitWhole(a, "redacted_thinking")
  <2>1. Working(tr) /\ ~tr.finished
    BY <1>3, OpenWorks DEF RedactedContent
  <2>2. tr' = FinishIfStopped(s)
    BY <1>3 DEF RedactedContent
  <2>3. Kept(a, tr)
    BY <2>1, OpaqueKeeps DEF Working
  <2> HIDE DEF a
  <2>4. Working(a) /\ ~a.finished
    BY <2>1, <2>3, KeptWorks DEF Kept
  <2>5. Working(s) /\ ~s.finished
    BY <2>4, WholeWorks
  <2> HIDE DEF s
  <2> QED BY <1>1, <2>2, <2>5
<1>4. ASSUME NEW text, NEW signed, ReasoningContent(text, signed) PROVE Inv'
  <2> DEFINE t == IF text # <<>> /\ tr.localStop = "none" THEN Think(tr, text) ELSE tr
             d == [t EXCEPT !.client = ContentBlockDelta(@, t.index, "thinking")]
             s == IF signed /\ t.active = "thinking" THEN d ELSE t
  <2>1. Working(tr) /\ ~tr.finished
    BY <1>4, OpenWorks DEF ReasoningContent
  <2>2. tr' = FinishIfStopped(s)
    BY <1>4 DEF ReasoningContent
  <2>3. Working(t) /\ ~t.finished
    BY <2>1, ThinkWorks
  <2> HIDE DEF t
  <2>4. ASSUME t.active = "thinking" PROVE Working(d) /\ ~d.finished
    <3>1. ContentBlockDelta(t.client, t.index, "thinking") = t.client
      BY <2>3, <2>4 DEF Working, Shape, ClientAt, ContentBlockDelta
    <3>2. d = [t EXCEPT !.client = t.client]
      BY <3>1
    <3>3. Kept(d, t)
      BY <2>3, <3>2 DEF Kept, Working, Shape, IsTranslator
    <3> HIDE DEF d
    <3> QED BY <2>3, <3>3, KeptWorks DEF Kept
  <2> HIDE DEF d
  <2>5. Working(s) /\ ~s.finished
    BY <2>3, <2>4
  <2> HIDE DEF s
  <2> QED BY <1>1, <2>2, <2>5
<1>5. ASSUME NEW n, ToolUse(n) PROVE Inv'
  <2> DEFINE a == AccountOpaque(tr, n)
             u == [a EXCEPT !.toolUsed = TRUE]
             s == EmitWhole(u, "tool_use")
  <2>1. Working(tr) /\ ~tr.finished
    BY <1>5, OpenWorks DEF ToolUse
  <2>2. tr' = FinishIfStopped(s)
    BY <1>5 DEF ToolUse
  <2>3. Kept(a, tr)
    BY <2>1, OpaqueKeeps DEF Working
  <2> HIDE DEF a
  <2>4. Kept(u, a)
    <3>1. IsTranslator(a)
      BY <2>3 DEF Kept
    <3>2. ASSUME NEW used PROVE Kept([a EXCEPT !.toolUsed = used], a)
      BY <3>1 DEF Kept, IsTranslator
    <3> QED BY <3>2
  <2> HIDE DEF u
  <2>5. Working(u) /\ ~u.finished
    BY <2>1, <2>3, <2>4, KeptWorks DEF Kept
  <2>6. Working(s) /\ ~s.finished
    BY <2>5, WholeWorks
  <2> HIDE DEF s
  <2> QED BY <1>1, <2>2, <2>6
<1>6. ASSUME UpstreamFailure PROVE Inv'
  <2>1. tr' = [tr EXCEPT !.failed = TRUE]
    BY <1>6 DEF UpstreamFailure
  <2>2. /\ IsTranslator(tr') /\ tr'.localStop = tr.localStop /\ tr'.client = tr.client
        /\ tr'.index = tr.index /\ tr'.active = tr.active /\ tr'.started = tr.started
        /\ tr'.finished = tr.finished
    BY <2>1 DEF Inv, Agrees, Shape, IsTranslator
  <2> QED BY <2>2 DEF Inv, Agrees, Shape, ClientAt, StoppedIsFinished, IsTranslator
<1>7. ASSUME EndOfStream PROVE Inv'
  <2>1. Working(tr) /\ ~tr.finished
    BY <1>7, OpenWorks DEF EndOfStream, Open
  <2>2. Agrees(Finish(tr)) /\ Finish(tr).finished /\ tr' = Finish(tr)
    BY <1>7, <2>1, FinishAgrees DEF EndOfStream
  <2> QED BY <2>2 DEF Inv, Agrees, Shape, IsTranslator, ClientAt, StoppedIsFinished
<1>8. ASSUME UNCHANGED vars PROVE Inv'
  BY <1>8 DEF vars, Inv, Agrees, Shape, IsTranslator, ClientAt, StoppedIsFinished
<1> QED BY <1>2, <1>3, <1>4, <1>5, <1>6, <1>7, <1>8 DEF Next, Push, Over

\* The invariant holds in every reachable state.
THEOREM AlwaysAgrees == Spec => []Inv
<1> QED BY InitAgrees, NextAgrees, PTL DEF Spec

\* After every upstream event, for every text, tag, stop sequence and budget,
\* the emitted stream is well formed and the client and the translator agree
\* on the open block and its index.
THEOREM StaysInStep == Spec => []StreamInStep
<1>1. Inv => StreamInStep
  BY DEF Inv, Agrees, StreamInStep, ClientAt
<1> QED BY <1>1, AlwaysAgrees, PTL

\* The event that latches a local stop also ends the message, so the pump may
\* drop the upstream without another call.
THEOREM StopsAreFinal == Spec => []StoppedIsFinished
<1>1. Inv => StoppedIsFinished
  BY DEF Inv
<1> QED BY <1>1, AlwaysAgrees, PTL

-----------------------------------------------------------------------------
(* Strings, and the recursion of Scan.                                     *)

\* A set of naturals that is not empty has a least element.
LEMMA LeastNat ==
  ASSUME NEW T \in SUBSET Nat, T # {}
  PROVE  \E n \in T : \A m \in T : n <= m
<1> DEFINE Prefixes == {0 .. m : m \in T}
<1>1. Prefixes \subseteq FiniteSubsetsOf(Nat) /\ Prefixes # {}
  <2>1. ASSUME NEW m \in T
        PROVE  0 .. m \in FiniteSubsetsOf(Nat)
    <3>1. IsFiniteSet(0 .. m)
      BY FS_Interval
    <3>2. 0 .. m \subseteq Nat
      OBVIOUS
    <3>3. QED
      BY <3>1, <3>2 DEF FiniteSubsetsOf
  <2>2. QED
    BY <2>1
<1> HIDE DEF Prefixes
<1>2. PICK least \in Prefixes :
        \A other \in Prefixes : ~ (<<other, least>> \in StrictSubsetOrdering(Nat))
  BY <1>1, FS_StrictSubsetOrderingWellFounded, WFMin
<1>3. PICK n \in T : least = 0 .. n
  BY <1>2 DEF Prefixes
<1>4. ASSUME NEW m \in T, m < n
      PROVE  FALSE
  <2>1. 0 .. m \in Prefixes
    BY DEF Prefixes
  <2>2. /\ 0 .. m \in SUBSET Nat /\ 0 .. n \in SUBSET Nat
        /\ 0 .. m \subseteq 0 .. n /\ 0 .. m # 0 .. n
    BY <1>4
  <2>3. <<0 .. m, 0 .. n>> \in StrictSubsetOrdering(Nat)
    BY <2>2 DEF StrictSubsetOrdering
  <2>4. QED
    BY <1>2, <1>3, <2>1, <2>3
<1>5. QED
  BY <1>4

\* The smallest element of a set of naturals.
LEMMA MinIs ==
  ASSUME NEW T \in SUBSET Nat, T # {}
  PROVE  Min(T) \in T /\ \A m \in T : Min(T) <= m
  BY LeastNat DEF Min

\* The largest element of a set of naturals that has a bound.
LEMMA MaxIs ==
  ASSUME NEW T \in SUBSET Nat, NEW b \in Nat, \A n \in T : n <= b, T # {}
  PROVE  Max(T) \in T /\ \A n \in T : n <= Max(T)
<1> DEFINE Below == {b - n : n \in T}
<1>1. Below \in SUBSET Nat /\ Below # {}
  <2>1. \A n \in T : b - n \in Nat
    OBVIOUS
  <2>2. QED
    BY <2>1
<1>2. PICK d \in Below : \A e \in Below : d <= e
  <2> HIDE DEF Below
  <2>1. QED
    BY <1>1, LeastNat
<1>3. PICK n \in T : d = b - n
  BY <1>2
<1>4. \A m \in T : m <= n
  BY <1>2, <1>3
<1>5. QED
  BY <1>4 DEF Max

\* Induction over the naturals and over the length of strings, with the set of
\* what satisfies the claim in the place of a predicate.
LEMMA UpTheNaturals ==
  ASSUME NEW Good, 0 \in Good, \A n \in Nat : n \in Good => n + 1 \in Good
  PROVE  Nat \subseteq Good
<1> SUFFICES ASSUME Nat \ Good # {}
             PROVE  FALSE
  OBVIOUS
<1>1. PICK n \in Nat \ Good : \A m \in Nat \ Good : n <= m
  BY LeastNat
<1>2. n - 1 \in Nat /\ n - 1 \in Good
  BY <1>1
<1>3. QED
  BY <1>1, <1>2

\* Induction over the length of a string: Good holds what satisfies the claim.
LEMMA ByLength ==
  ASSUME NEW Good,
         \A x \in String : (\A y \in String : Len(y) < Len(x) => y \in Good) => x \in Good
  PROVE  String \subseteq Good
<1> DEFINE Lengths == {Len(x) : x \in String \ Good}
<1> SUFFICES ASSUME String \ Good # {}
             PROVE  FALSE
  OBVIOUS
<1>1. Lengths \in SUBSET Nat /\ Lengths # {}
  <2>1. \A x \in String \ Good : Len(x) \in Nat
    BY DEF String
  <2>2. PICK x \in String \ Good : TRUE
    OBVIOUS
  <2>3. Len(x) \in Lengths
    OBVIOUS
  <2>4. \A n \in Lengths : n \in Nat
    BY <2>1
  <2> HIDE DEF Lengths
  <2>5. QED
    BY <2>3, <2>4
<1>2. PICK n \in Lengths : \A m \in Lengths : n <= m
  <2> HIDE DEF Lengths
  <2>1. QED
    BY <1>1, LeastNat
<1>3. PICK x \in String \ Good : Len(x) = n
  BY <1>2
<1>4. ASSUME NEW y \in String, Len(y) < Len(x)
      PROVE  y \in Good
  <2>1. Len(y) \in Nat /\ n \in Nat /\ Len(y) < n
    <3>1. y \in Seq(Characters)
      BY DEF String
    <3>2. QED
      BY <3>1, <1>1, <1>3, <1>4
  <2>2. Len(y) \notin Lengths
    <3> HIDE DEF Lengths
    <3>1. QED
      BY <1>1, <1>2, <2>1
  <2>3. QED
    BY <2>2
<1>5. QED
  BY <1>3, <1>4

TagFor(inside) == IF inside THEN CloseTag ELSE OpenTag

\* A tag is a string that is not empty.
LEMMA TagIs ==
  ASSUME NEW inside \in BOOLEAN
  PROVE  TagFor(inside) \in String /\ Len(TagFor(inside)) \in Nat \ {0}
  BY TranslatorAssumption DEF TagFor, String

\* A place of p in x, letter by letter.
LEMMA PlaceIs ==
  ASSUME NEW p \in String, NEW x \in String
  PROVE  /\ Len(x) \in Nat /\ Len(p) \in Nat /\ Places(p, x) \subseteq Int
         /\ Len(p) > 0 => Places(p, x) \in SUBSET (1 .. Len(x))
         /\ \A i : i \in Places(p, x) <=>
                     /\ i \in 1 .. (Len(x) - Len(p) + 1)
                     /\ \A j \in 1 .. Len(p) : x[i + j - 1] = p[j]
<1>1. Len(x) \in Nat /\ Len(p) \in Nat
  BY DEF String
<1>2. ASSUME NEW i \in 1 .. (Len(x) - Len(p) + 1)
      PROVE  SubSeq(x, i, i + Len(p) - 1) = p <=> \A j \in 1 .. Len(p) : x[i + j - 1] = p[j]
  <2> DEFINE s == SubSeq(x, i, i + Len(p) - 1)
  <2>1. s \in Seq(Characters) /\ Len(s) = Len(p) /\ \A j \in 1 .. Len(p) : s[j] = x[i + j - 1]
    BY <1>1 DEF String
  <2> HIDE DEF s
  <2>2. p \in Seq(Characters)
    BY DEF String
  <2>3. s = p <=> \A j \in 1 .. Len(p) : s[j] = p[j]
    BY <2>1, <2>2, SeqEqual
  <2>4. QED
    BY <2>1, <2>3 DEF s
<1>3. Places(p, x) = {i \in 1 .. (Len(x) - Len(p) + 1) : \A j \in 1 .. Len(p) : x[i + j - 1] = p[j]}
  BY <1>2 DEF Places
<1> HIDE DEF Places
<1>4. QED
  BY <1>1, <1>3

\* A piece of a string, letter by letter.
LEMMA PieceIs ==
  ASSUME NEW x \in String, NEW i \in Nat \ {0}, NEW j \in Int, j <= Len(x)
  PROVE  /\ SubSeq(x, i, j) \in String
         /\ Len(SubSeq(x, i, j)) = IF i <= j THEN j - i + 1 ELSE 0
         /\ \A k \in 1 .. (j - i + 1) : SubSeq(x, i, j)[k] = x[i + k - 1]
  BY DEF String

\* partial_tag_suffix is the longest suffix, shorter than the tag, that starts the tag.
LEMMA SuffixIs ==
  ASSUME NEW x \in String, NEW tag \in String, Len(tag) > 0
  PROVE  LET n == PartialTagSuffix(x, tag)
         IN /\ n \in 0 .. Len(x) /\ n < Len(tag)
            /\ \A j \in 1 .. n : x[Len(x) - n + j] = tag[j]
            /\ \A m \in 1 .. Len(x) :
                 m < Len(tag) /\ (\A j \in 1 .. m : x[Len(x) - m + j] = tag[j]) => m <= n
<1>1. Len(x) \in Nat /\ Len(tag) \in Nat
  BY DEF String
<1> DEFINE T == {m \in 1 .. Min({Len(tag) - 1, Len(x)}) :
                   SubSeq(x, Len(x) - m + 1, Len(x)) = SubSeq(tag, 1, m)}
<1>2. \A m : m \in 1 .. Min({Len(tag) - 1, Len(x)}) <=> m \in 1 .. Len(x) /\ m < Len(tag)
  <2>1. {Len(tag) - 1, Len(x)} \in SUBSET Nat /\ {Len(tag) - 1, Len(x)} # {}
    BY <1>1
  <2>2. /\ Min({Len(tag) - 1, Len(x)}) \in {Len(tag) - 1, Len(x)}
        /\ \A m \in {Len(tag) - 1, Len(x)} : Min({Len(tag) - 1, Len(x)}) <= m
    BY <2>1, MinIs
  <2>3. QED
    BY <1>1, <2>2
<1>3. \A m \in 1 .. Len(x) :
        m < Len(tag) => (m \in T <=> \A j \in 1 .. m : x[Len(x) - m + j] = tag[j])
  <2> SUFFICES ASSUME NEW m \in 1 .. Len(x), m < Len(tag)
               PROVE  SubSeq(x, Len(x) - m + 1, Len(x)) = SubSeq(tag, 1, m)
                      <=> \A j \in 1 .. m : x[Len(x) - m + j] = tag[j]
    BY <1>2
  <2> DEFINE a == SubSeq(x, Len(x) - m + 1, Len(x))
             b == SubSeq(tag, 1, m)
  <2>1. a \in Seq(Characters) /\ Len(a) = m /\ \A j \in 1 .. m : a[j] = x[Len(x) - m + j]
    BY <1>1 DEF String
  <2>2. b \in Seq(Characters) /\ Len(b) = m /\ \A j \in 1 .. m : b[j] = tag[j]
    BY <1>1 DEF String
  <2> HIDE DEF a, b
  <2>3. a = b <=> \A j \in 1 .. m : a[j] = b[j]
    BY <2>1, <2>2
  <2>4. QED
    BY <2>1, <2>2, <2>3 DEF a, b
<1>5. \A m \in T : m \in 1 .. Len(x) /\ m < Len(tag)
  BY <1>2
<1>4. {0} \cup T \in SUBSET Nat /\ (\A m \in {0} \cup T : m <= Len(x)) /\ {0} \cup T # {}
  <2> HIDE DEF T
  <2>1. QED
    BY <1>1, <1>5
<1>6. PartialTagSuffix(x, tag) = Max({0} \cup T)
  BY DEF PartialTagSuffix
<1> HIDE DEF T
<1>7. /\ PartialTagSuffix(x, tag) \in {0} \cup T
      /\ \A m \in {0} \cup T : m <= PartialTagSuffix(x, tag)
  BY <1>1, <1>4, <1>6, MaxIs
<1>8. QED
  BY <1>1, <1>3, <1>5, <1>7

\* One turn of the loop: what Scan makes of x when f is what it makes of the rest.
ScanStep(f, x) ==
  [inside \in BOOLEAN |->
     LET tag == IF inside THEN CloseTag ELSE OpenTag
         at  == Places(tag, x)
     IN IF at # {}
        THEN Told(inside, SubSeq(x, 1, Min(at) - 1),
                  TagSeen(f[SubSeq(x, Min(at) + Len(tag), Len(x))][~inside]))
        ELSE LET cut == Len(x) - PartialTagSuffix(x, tag)
             IN Told(inside, SubSeq(x, 1, cut),
                     [text |-> <<>>, think |-> <<>>, buf |-> SubSeq(x, cut + 1, Len(x)),
                      inside |-> inside, seen |-> FALSE])]

\* It looks at the rest only when a tag is there, and the rest is shorter.
LEMMA RestIsShorter ==
  ASSUME NEW x \in String, NEW inside \in BOOLEAN, Places(TagFor(inside), x) # {}
  PROVE  LET at   == Min(Places(TagFor(inside), x))
             rest == SubSeq(x, at + Len(TagFor(inside)), Len(x))
         IN /\ at \in Places(TagFor(inside), x) /\ at \in 1 .. Len(x)
            /\ \A i \in Places(TagFor(inside), x) : at <= i
            /\ rest \in String /\ Len(rest) < Len(x)
            /\ Len(rest) = Len(x) - at - Len(TagFor(inside)) + 1
<1> DEFINE tag == TagFor(inside)
           at  == Min(Places(tag, x))
<1>1. tag \in String /\ Len(tag) \in Nat \ {0} /\ Len(x) \in Nat
  BY TagIs, PlaceIs
<1> HIDE DEF tag
<1>2. Places(tag, x) \in SUBSET Nat /\ Places(tag, x) # {}
  <2>1. Places(tag, x) \in SUBSET (1 .. Len(x))
    BY <1>1, PlaceIs
  <2>2. QED
    BY <2>1 DEF tag
<1>3. at \in Places(tag, x) /\ \A i \in Places(tag, x) : at <= i
  BY <1>2, MinIs
<1> HIDE DEF at
<1>4. at \in 1 .. (Len(x) - Len(tag) + 1)
  BY <1>1, <1>3, PlaceIs
<1> DEFINE from == at + Len(tag)
           rest == SubSeq(x, from, Len(x))
<1>5. from \in Nat \ {0} /\ from <= Len(x) + 1 /\ Len(x) \in Int /\ Len(x) <= Len(x)
  BY <1>1, <1>4
<1> HIDE DEF from
<1>6. rest \in String /\ Len(rest) = Len(x) - from + 1
  <2>1. rest \in String /\ Len(rest) = IF from <= Len(x) THEN Len(x) - from + 1 ELSE 0
    BY <1>5, PieceIs
  <2>2. QED
    BY <2>1, <1>5
<1> HIDE DEF rest
<1>7. /\ at \in 1 .. Len(x) /\ Len(rest) < Len(x)
      /\ Len(rest) = Len(x) - at - Len(tag) + 1
  BY <1>1, <1>4, <1>6 DEF from
<1>8. QED
  BY <1>3, <1>6, <1>7 DEF rest, from, at, tag

\* A turn of the loop looks at shorter strings only.
LEMMA ScanStepIsLocal ==
  ASSUME NEW x \in String, NEW f, NEW g, \A y \in String : Len(y) < Len(x) => f[y] = g[y]
  PROVE  ScanStep(f, x) = ScanStep(g, x)
<1> DEFINE Part(h, inside) ==
     LET tag == IF inside THEN CloseTag ELSE OpenTag
         at  == Places(tag, x)
     IN IF at # {}
        THEN Told(inside, SubSeq(x, 1, Min(at) - 1),
                  TagSeen(h[SubSeq(x, Min(at) + Len(tag), Len(x))][~inside]))
        ELSE LET cut == Len(x) - PartialTagSuffix(x, tag)
             IN Told(inside, SubSeq(x, 1, cut),
                     [text |-> <<>>, think |-> <<>>, buf |-> SubSeq(x, cut + 1, Len(x)),
                      inside |-> inside, seen |-> FALSE])
<1>1. ASSUME NEW inside \in BOOLEAN
      PROVE  Part(f, inside) = Part(g, inside)
  <2>1. CASE Places(TagFor(inside), x) # {}
    <3> DEFINE rest == SubSeq(x, Min(Places(TagFor(inside), x)) + Len(TagFor(inside)), Len(x))
    <3>1. f[rest] = g[rest]
      BY <2>1, RestIsShorter
    <3> HIDE DEF rest
    <3>2. ASSUME NEW h
          PROVE  Part(h, inside) =
                 Told(inside, SubSeq(x, 1, Min(Places(TagFor(inside), x)) - 1), TagSeen(h[rest][~inside]))
      BY <2>1 DEF rest, TagFor
    <3> HIDE DEF Part
    <3>3. QED
      BY <3>1, <3>2
  <2>2. CASE Places(TagFor(inside), x) = {}
    BY <2>2 DEF TagFor
  <2>3. QED
    BY <2>1, <2>2
<1>2. \A h : ScanStep(h, x) = [inside \in BOOLEAN |-> Part(h, inside)]
  BY DEF ScanStep
<1> HIDE DEF Part
<1>3. QED
  BY <1>1, <1>2

\* Scan exists: it is put together from what solves its equation on the strings
\* of at most n characters, for every n.
Short(n) == {x \in String : Len(x) <= n}

SolvesUpTo(f, n) == f = [x \in Short(n) |-> ScanStep(f, x)]

\* Two functions that satisfy the recursion up to a length agree there.
LEMMA SolutionsAgree ==
  ASSUME NEW m \in Nat, NEW n \in Nat, NEW f, NEW g, SolvesUpTo(f, m), SolvesUpTo(g, n)
  PROVE  \A x \in Short(m) \cap Short(n) : f[x] = g[x]
<1> DEFINE Good == {x \in String : x \in Short(m) /\ x \in Short(n) => f[x] = g[x]}
<1>1. ASSUME NEW x \in String, \A y \in String : Len(y) < Len(x) => y \in Good
      PROVE  x \in Good
  <2>1. ASSUME x \in Short(m), x \in Short(n)
        PROVE  f[x] = g[x]
    <3>1. ASSUME NEW y \in String, Len(y) < Len(x)
          PROVE  y \in Short(m) /\ y \in Short(n)
      <4>1. Len(y) \in Nat /\ Len(x) \in Nat
        BY DEF String
      <4>2. QED
        BY <2>1, <3>1, <4>1 DEF Short
    <3>2. ScanStep(f, x) = ScanStep(g, x)
      BY <1>1, <3>1, ScanStepIsLocal
    <3>3. f[x] = ScanStep(f, x) /\ g[x] = ScanStep(g, x)
      BY <2>1 DEF SolvesUpTo
    <3>4. QED
      BY <3>2, <3>3
  <2>2. QED
    BY <2>1
<1>2. String \subseteq Good
  <2> HIDE DEF Good
  <2>1. QED
    BY <1>1, ByLength
<1>3. QED
  BY <1>2 DEF Short

\* What satisfies the recursion up to a length extends to strings one longer.
LEMMA OneLonger ==
  ASSUME NEW n \in Int, NEW f, \A x \in Short(n) : f[x] = ScanStep(f, x)
  PROVE  \E g : SolvesUpTo(g, n + 1)
<1> DEFINE g == [x \in Short(n + 1) |-> ScanStep(f, x)]
<1>1. ASSUME NEW x \in Short(n + 1)
      PROVE  ScanStep(g, x) = ScanStep(f, x)
  <2>1. ASSUME NEW y \in String, Len(y) < Len(x)
        PROVE  g[y] = f[y]
    <3>1. Len(y) \in Nat /\ Len(x) \in Nat
      BY DEF String, Short
    <3>2. y \in Short(n) /\ y \in Short(n + 1)
      BY <2>1, <3>1 DEF Short
    <3>3. QED
      BY <3>2
  <2>2. x \in String
    BY DEF Short
  <2> HIDE DEF g
  <2>3. QED
    BY <2>1, <2>2, ScanStepIsLocal
<1>2. g = [x \in Short(n + 1) |-> ScanStep(g, x)]
  <2>1. g = [x \in Short(n + 1) |-> ScanStep(f, x)]
    OBVIOUS
  <2> HIDE DEF g
  <2>2. QED
    BY <1>1, <2>1
<1>3. QED
  BY <1>2 DEF SolvesUpTo

\* For every length there is a function that satisfies the recursion up to it.
LEMMA SolutionsExist == \A n \in Nat : \E f : SolvesUpTo(f, n)
<1> DEFINE Good == {n \in Nat : \E f : SolvesUpTo(f, n)}
<1>1. 0 \in Good
  <2>1. ~ \E x : x \in Short(-1)
    BY DEF Short, String
  <2>2. \A f : \A x \in Short(-1) : f[x] = ScanStep(f, x)
    BY <2>1
  <2>3. -1 \in Int /\ -1 + 1 = 0
    OBVIOUS
  <2>4. \E g : SolvesUpTo(g, -1 + 1)
    BY <2>2, <2>3, OneLonger
  <2>5. QED
    BY <2>3, <2>4
<1>2. ASSUME NEW n \in Nat, n \in Good
      PROVE  n + 1 \in Good
  <2>1. PICK f : SolvesUpTo(f, n)
    BY <1>2
  <2>2. \A x \in Short(n) : f[x] = ScanStep(f, x)
    BY <2>1 DEF SolvesUpTo
  <2>3. n \in Int
    OBVIOUS
  <2>4. QED
    BY <2>2, <2>3, OneLonger
<1>3. Nat \subseteq Good
  <2> HIDE DEF Good
  <2>1. QED
    BY <1>1, <1>2, UpTheNaturals
<1>4. QED
  BY <1>3

\* The recursion of Scan defines it.
LEMMA ScanIs == \A x \in String : Scan[x] = ScanStep(Scan, x)
<1> DEFINE P(f) == f = [x \in String |-> ScanStep(f, x)]
           Upto(n) == CHOOSE f : SolvesUpTo(f, n)
           whole == [x \in String |-> Upto(Len(x))[x]]
<1>1. \A n \in Nat : SolvesUpTo(Upto(n), n)
  BY SolutionsExist
<1> HIDE DEF Upto
<1>2. ASSUME NEW x \in String
      PROVE  whole[x] = ScanStep(whole, x)
  <2>1. Len(x) \in Nat /\ x \in Short(Len(x))
    BY DEF String, Short
  <2>2. whole[x] = ScanStep(Upto(Len(x)), x)
    <3>1. Upto(Len(x))[x] = ScanStep(Upto(Len(x)), x)
      BY <1>1, <2>1 DEF SolvesUpTo
    <3>2. QED
      BY <3>1
  <2>3. ASSUME NEW y \in String, Len(y) < Len(x)
        PROVE  whole[y] = Upto(Len(x))[y]
    <3>1. Len(y) \in Nat /\ y \in Short(Len(y)) \cap Short(Len(x))
      BY <2>1, <2>3 DEF String, Short
    <3>2. Upto(Len(y))[y] = Upto(Len(x))[y]
      BY <1>1, <2>1, <3>1, SolutionsAgree
    <3>3. QED
      BY <3>2
  <2> HIDE DEF whole
  <2>4. ScanStep(whole, x) = ScanStep(Upto(Len(x)), x)
    BY <2>3, ScanStepIsLocal
  <2>5. QED
    BY <2>2, <2>4
<1>3. P(whole)
  <2>1. whole = [x \in String |-> whole[x]]
    OBVIOUS
  <2> HIDE DEF whole
  <2>2. whole = [x \in String |-> ScanStep(whole, x)]
    BY <1>2, <2>1
  <2>3. QED
    BY <2>2
<1>4. Scan = CHOOSE f : P(f)
  BY DEF Scan, ScanStep
<1>5. \E f : P(f)
  <2> HIDE DEF P, whole
  <2>1. QED
    BY <1>3
<1>6. P(Scan)
  <2> HIDE DEF P
  <2>1. QED
    BY <1>4, <1>5
<1>7. QED
  BY <1>6

-----------------------------------------------------------------------------
(* What Scan yields.                                                       *)

\* What the loop of parse_tags leaves and yields.
Scanned == [text : String, think : String, buf : String, inside : BOOLEAN, seen : BOOLEAN]

\* What is yielded when nothing precedes a suffix that a tag may continue.
Held(x, inside) == [text |-> <<>>, think |-> <<>>, buf |-> x, inside |-> inside, seen |-> FALSE]

\* Where a tag stands, Scan splits the string there.
LEMMA ScanFound ==
  ASSUME NEW x \in String, NEW inside \in BOOLEAN, Places(TagFor(inside), x) # {}
  PROVE  LET at == Min(Places(TagFor(inside), x))
         IN Scan[x][inside] =
              Told(inside, SubSeq(x, 1, at - 1),
                   TagSeen(Scan[SubSeq(x, at + Len(TagFor(inside)), Len(x))][~inside]))
<1>1. Scan[x][inside] = ScanStep(Scan, x)[inside]
  BY ScanIs
<1>2. CASE inside
  BY <1>1, <1>2 DEF ScanStep, TagFor
<1>3. CASE ~inside
  BY <1>1, <1>3 DEF ScanStep, TagFor
<1>4. QED
  BY <1>2, <1>3

\* Where none stands, all but a suffix that a tag may continue is yielded.
LEMMA ScanNone ==
  ASSUME NEW x \in String, NEW inside \in BOOLEAN, Places(TagFor(inside), x) = {}
  PROVE  LET cut == Len(x) - PartialTagSuffix(x, TagFor(inside))
         IN Scan[x][inside] =
              Told(inside, SubSeq(x, 1, cut), Held(SubSeq(x, cut + 1, Len(x)), inside))
<1>1. Scan[x][inside] = ScanStep(Scan, x)[inside]
  BY ScanIs
<1>2. CASE inside
  BY <1>1, <1>2 DEF ScanStep, TagFor, Held
<1>3. CASE ~inside
  BY <1>1, <1>3 DEF ScanStep, TagFor, Held
<1>4. QED
  BY <1>2, <1>3

\* Told and TagSeen, field by field.
LEMMA ToldIs ==
  ASSUME NEW inside \in BOOLEAN, NEW x \in String, NEW r \in Scanned
  PROVE  Told(inside, x, r) =
           [text |-> IF inside THEN r.text ELSE x \o r.text,
            think |-> IF inside THEN x \o r.think ELSE r.think,
            buf |-> r.buf, inside |-> r.inside, seen |-> r.seen]
<1> DEFINE y == x \o r.text
           z == x \o r.think
<1>1. Told(inside, x, r) = IF inside THEN [r EXCEPT !.think = z] ELSE [r EXCEPT !.text = y]
  BY DEF Told
<1> HIDE DEF y, z
<1>2. [r EXCEPT !.think = z] =
        [text |-> r.text, think |-> z, buf |-> r.buf, inside |-> r.inside, seen |-> r.seen]
  BY DEF Scanned
<1>3. [r EXCEPT !.text = y] =
        [text |-> y, think |-> r.think, buf |-> r.buf, inside |-> r.inside, seen |-> r.seen]
  BY DEF Scanned
<1>4. QED
  BY <1>1, <1>2, <1>3 DEF y, z

\* The mark of a tag changes one field.
LEMMA TagSeenIs ==
  ASSUME NEW r \in Scanned
  PROVE  TagSeen(r) =
           [text |-> r.text, think |-> r.think, buf |-> r.buf, inside |-> r.inside, seen |-> TRUE]
<1> DEFINE yes == TRUE
<1>1. TagSeen(r) = [r EXCEPT !.seen = yes]
  BY DEF TagSeen
<1> HIDE DEF yes
<1>2. [r EXCEPT !.seen = yes] =
        [text |-> r.text, think |-> r.think, buf |-> r.buf, inside |-> r.inside, seen |-> yes]
  BY DEF Scanned
<1>3. QED
  BY <1>1, <1>2 DEF yes

\* What comes out of Scan has five fields.
LEMMA ScannedIs ==
  ASSUME NEW r \in Scanned
  PROVE  /\ r.text \in String /\ r.think \in String /\ r.buf \in String
         /\ r.inside \in BOOLEAN /\ r.seen \in BOOLEAN
         /\ r = [text |-> r.text, think |-> r.think, buf |-> r.buf, inside |-> r.inside, seen |-> r.seen]
  BY DEF Scanned

\* The operators on what Scan yields keep its type.
LEMMA ToldType ==
  ASSUME NEW inside \in BOOLEAN, NEW x \in String, NEW r \in Scanned
  PROVE  Told(inside, x, r) \in Scanned /\ TagSeen(r) \in Scanned
<1>1. /\ r.text \in String /\ r.think \in String /\ r.buf \in String
      /\ r.inside \in BOOLEAN /\ r.seen \in BOOLEAN
  BY ScannedIs
<1>2. x \o r.text \in String /\ x \o r.think \in String
  BY <1>1 DEF String
<1>3. TagSeen(r) \in Scanned
  <2>1. TagSeen(r) = [text |-> r.text, think |-> r.think, buf |-> r.buf, inside |-> r.inside, seen |-> TRUE]
    BY TagSeenIs
  <2>2. QED
    BY <1>1, <2>1 DEF Scanned
<1> DEFINE y == IF inside THEN r.text ELSE x \o r.text
           z == IF inside THEN x \o r.think ELSE r.think
<1>4. y \in String /\ z \in String
  BY <1>1, <1>2
<1>5. Told(inside, x, r) = [text |-> y, think |-> z, buf |-> r.buf, inside |-> r.inside, seen |-> r.seen]
  BY ToldIs
<1> HIDE DEF y, z
<1>6. Told(inside, x, r) \in Scanned
  BY <1>1, <1>4, <1>5 DEF Scanned
<1>7. QED
  BY <1>3, <1>6

\* Nothing but text, thought and a rest comes out of a string.
LEMMA ScanType == \A x \in String : \A inside \in BOOLEAN : Scan[x][inside] \in Scanned
<1> DEFINE Good == {x \in String : \A inside \in BOOLEAN : Scan[x][inside] \in Scanned}
<1>1. ASSUME NEW x \in String, \A y \in String : Len(y) < Len(x) => y \in Good
      PROVE  x \in Good
  <2>1. ASSUME NEW inside \in BOOLEAN
        PROVE  Scan[x][inside] \in Scanned
    <3>1. CASE Places(TagFor(inside), x) # {}
      <4> DEFINE at   == Min(Places(TagFor(inside), x))
                 rest == SubSeq(x, at + Len(TagFor(inside)), Len(x))
                 pre  == SubSeq(x, 1, at - 1)
      <4>1. at \in 1 .. Len(x) /\ rest \in String /\ Len(rest) < Len(x)
        BY <3>1, RestIsShorter
      <4>2. Scan[x][inside] = Told(inside, pre, TagSeen(Scan[rest][~inside]))
        BY <3>1, ScanFound
      <4> HIDE DEF at, rest
      <4>3. Scan[rest][~inside] \in Scanned
        BY <1>1, <4>1
      <4>4. pre \in String
        BY <4>1, PieceIs
      <4> HIDE DEF pre
      <4>5. QED
        BY <4>2, <4>3, <4>4, ToldType
    <3>2. CASE Places(TagFor(inside), x) = {}
      <4> DEFINE cut == Len(x) - PartialTagSuffix(x, TagFor(inside))
                 pre == SubSeq(x, 1, cut)
                 suf == SubSeq(x, cut + 1, Len(x))
      <4>1. Len(x) \in Nat /\ cut \in 0 .. Len(x)
        <5>1. Len(x) \in Nat
          BY DEF String
        <5>2. PartialTagSuffix(x, TagFor(inside)) \in 0 .. Len(x)
          BY TagIs, SuffixIs
        <5>3. QED
          BY <5>1, <5>2
      <4>2. Scan[x][inside] = Told(inside, pre, Held(suf, inside))
        BY <3>2, ScanNone
      <4> HIDE DEF cut
      <4>3. pre \in String /\ suf \in String
        BY <4>1, PieceIs
      <4> HIDE DEF pre, suf
      <4>4. Held(suf, inside) \in Scanned
        <5>1. <<>> \in String
          BY DEF String
        <5>2. QED
          BY <4>3, <5>1 DEF Held, Scanned
      <4>5. QED
        BY <4>2, <4>3, <4>4, ToldType
    <3>3. QED
      BY <3>1, <3>2
  <2>2. QED
    BY <2>1
<1>2. String \subseteq Good
  <2> HIDE DEF Good
  <2>1. QED
    BY <1>1, ByLength
<1>3. QED
  BY <1>2

\* What two pieces yield, one scanned after the other.
Joined(r, t) ==
  [text |-> r.text \o t.text, think |-> r.think \o t.think, buf |-> t.buf,
   inside |-> t.inside, seen |-> IF r.seen THEN TRUE ELSE t.seen]

\* What the concatenation of two strings is.
LEMMA Concatenated ==
  ASSUME NEW x \in String, NEW y \in String
  PROVE  /\ x \o y \in String /\ Len(x) \in Nat /\ Len(y) \in Nat /\ Len(x \o y) = Len(x) + Len(y)
         /\ \A i \in 1 .. Len(x) : (x \o y)[i] = x[i]
         /\ \A i \in 1 .. Len(y) : (x \o y)[Len(x) + i] = y[i]
  BY DEF String

\* The empty text adds nothing.
LEMMA EmptyIsNeutral ==
  ASSUME NEW x \in String
  PROVE  <<>> \in String /\ x \o <<>> = x /\ <<>> \o x = x
  BY DEF String

\* Texts may be put together in either order.
LEMMA Associates ==
  ASSUME NEW x \in String, NEW y \in String, NEW z \in String
  PROVE  (x \o y) \o z = x \o (y \o z)
  BY DEF String

\* Two strings are equal when they agree at every place.
LEMMA SameString ==
  ASSUME NEW x \in String, NEW y \in String, Len(x) = Len(y), \A i \in 1 .. Len(x) : x[i] = y[i]
  PROVE  x = y
  BY SeqEqual DEF String

\* What is told first stays first.
LEMMA ToldJoined ==
  ASSUME NEW inside \in BOOLEAN, NEW x \in String, NEW r \in Scanned, NEW t \in Scanned
  PROVE  Joined(Told(inside, x, TagSeen(r)), t) = Told(inside, x, TagSeen(Joined(r, t)))
<1> DEFINE u == TagSeen(r)
           j == Joined(r, t)
           v == TagSeen(j)
<1>1. /\ r.text \in String /\ r.think \in String /\ t.text \in String /\ t.think \in String
      /\ t.buf \in String /\ t.inside \in BOOLEAN /\ r.seen \in BOOLEAN /\ t.seen \in BOOLEAN
  BY ScannedIs
<1>2. (x \o r.text) \o t.text = x \o (r.text \o t.text)
  BY <1>1, Associates
<1>3. (x \o r.think) \o t.think = x \o (r.think \o t.think)
  BY <1>1, Associates
<1>4. u \in Scanned /\ u = [text |-> r.text, think |-> r.think, buf |-> r.buf, inside |-> r.inside, seen |-> TRUE]
  BY TagSeenIs, ToldType
<1>5. j \in Scanned
  <2>1. r.text \o t.text \in String /\ r.think \o t.think \in String
    BY <1>1, Concatenated
  <2>2. QED
    BY <1>1, <2>1 DEF Joined, Scanned
<1>6. v \in Scanned /\ v = [text |-> r.text \o t.text, think |-> r.think \o t.think, buf |-> t.buf,
                            inside |-> t.inside, seen |-> TRUE]
  <2>1. v \in Scanned /\ v = [text |-> j.text, think |-> j.think, buf |-> j.buf, inside |-> j.inside, seen |-> TRUE]
    <3> HIDE DEF j
    <3>1. QED
      BY <1>5, TagSeenIs, ToldType
  <2>2. QED
    BY <2>1 DEF Joined
<1> HIDE DEF u, v, j
<1> DEFINE yes == TRUE
<1>7. Told(inside, x, u) =
        [text |-> IF inside THEN r.text ELSE x \o r.text,
         think |-> IF inside THEN x \o r.think ELSE r.think,
         buf |-> r.buf, inside |-> r.inside, seen |-> yes]
  BY <1>4, ToldIs
<1>8. Told(inside, x, v) =
        [text |-> IF inside THEN r.text \o t.text ELSE x \o (r.text \o t.text),
         think |-> IF inside THEN x \o (r.think \o t.think) ELSE r.think \o t.think,
         buf |-> t.buf, inside |-> t.inside, seen |-> yes]
  BY <1>6, ToldIs
<1>9. Joined(Told(inside, x, u), t) = Told(inside, x, v)
  <2> DEFINE text  == (IF inside THEN r.text ELSE x \o r.text) \o t.text
             think == (IF inside THEN x \o r.think ELSE r.think) \o t.think
             seen  == IF yes THEN TRUE ELSE t.seen
  <2>1. seen = yes
    OBVIOUS
  <2>2. text = IF inside THEN r.text \o t.text ELSE x \o (r.text \o t.text)
    BY <1>2
  <2>3. think = IF inside THEN x \o (r.think \o t.think) ELSE r.think \o t.think
    BY <1>3
  <2>4. Joined(Told(inside, x, u), t) =
          [text |-> text, think |-> think, buf |-> t.buf, inside |-> t.inside, seen |-> seen]
    <3> HIDE DEF yes
    <3>1. QED
      BY <1>7 DEF Joined
  <2> HIDE DEF text, think, seen, yes
  <2>5. QED
    BY <1>8, <2>1, <2>2, <2>3, <2>4
<1>10. QED
  BY <1>9 DEF u, v, j

\* What is held back at the end of a piece is told with the next one.
LEMMA ToldHeld ==
  ASSUME NEW inside \in BOOLEAN, NEW x \in String, NEW y \in String, NEW t \in Scanned
  PROVE  Joined(Told(inside, x, Held(y, inside)), t) = Told(inside, x, t)
<1> DEFINE h == Held(y, inside)
<1>1. t.text \in String /\ t.think \in String /\ t.seen \in BOOLEAN
  BY ScannedIs
<1>2. <<>> \o t.text = t.text /\ <<>> \o t.think = t.think
  BY <1>1, EmptyIsNeutral
<1>3. x \o <<>> = x /\ <<>> \in String
  BY EmptyIsNeutral
<1>4. h \in Scanned /\ h = [text |-> <<>>, think |-> <<>>, buf |-> y, inside |-> inside, seen |-> FALSE]
  BY <1>3 DEF Held, Scanned
<1> HIDE DEF h
<1>5. Told(inside, x, h) =
        [text |-> IF inside THEN <<>> ELSE x, think |-> IF inside THEN x ELSE <<>>,
         buf |-> y, inside |-> inside, seen |-> h.seen]
  <2>1. Told(inside, x, h) =
          [text |-> IF inside THEN h.text ELSE x \o h.text,
           think |-> IF inside THEN x \o h.think ELSE h.think,
           buf |-> h.buf, inside |-> h.inside, seen |-> h.seen]
    BY <1>4, ToldIs
  <2>2. h.text = <<>> /\ h.think = <<>> /\ h.buf = y /\ h.inside = inside
    BY <1>4
  <2>3. QED
    BY <1>3, <2>1, <2>2
<1>6. Told(inside, x, t) =
        [text |-> IF inside THEN t.text ELSE x \o t.text,
         think |-> IF inside THEN x \o t.think ELSE t.think,
         buf |-> t.buf, inside |-> t.inside, seen |-> t.seen]
  BY ToldIs
<1>7. Joined(Told(inside, x, h), t) = Told(inside, x, t)
  <2>1. Joined(Told(inside, x, h), t) =
          [text |-> (IF inside THEN <<>> ELSE x) \o t.text,
           think |-> (IF inside THEN x ELSE <<>>) \o t.think,
           buf |-> t.buf, inside |-> t.inside, seen |-> IF h.seen THEN TRUE ELSE t.seen]
    BY <1>5 DEF Joined
  <2>2. (IF h.seen THEN TRUE ELSE t.seen) = t.seen
    BY <1>4
  <2>3. QED
    BY <1>2, <1>6, <2>1, <2>2
<1>8. QED
  BY <1>7 DEF h

\* Two texts told one after the other are told as one.
LEMMA ToldTwice ==
  ASSUME NEW inside \in BOOLEAN, NEW x \in String, NEW y \in String, NEW t \in Scanned
  PROVE  Told(inside, x, Told(inside, y, t)) = Told(inside, x \o y, t)
<1> DEFINE u == Told(inside, y, t)
<1>1. t.text \in String /\ t.think \in String
  BY ScannedIs
<1>2. (x \o y) \o t.text = x \o (y \o t.text)
  BY <1>1, Associates
<1>3. (x \o y) \o t.think = x \o (y \o t.think)
  BY <1>1, Associates
<1>4. u \in Scanned /\ x \o y \in String
  BY ToldType, Concatenated
<1>5. u = [text |-> IF inside THEN t.text ELSE y \o t.text,
           think |-> IF inside THEN y \o t.think ELSE t.think,
           buf |-> t.buf, inside |-> t.inside, seen |-> t.seen]
  BY ToldIs
<1> HIDE DEF u
<1>6. Told(inside, x, u) =
        [text |-> IF inside THEN u.text ELSE x \o u.text,
         think |-> IF inside THEN x \o u.think ELSE u.think,
         buf |-> u.buf, inside |-> u.inside, seen |-> u.seen]
  BY <1>4, ToldIs
<1>7. Told(inside, x \o y, t) =
        [text |-> IF inside THEN t.text ELSE (x \o y) \o t.text,
         think |-> IF inside THEN (x \o y) \o t.think ELSE t.think,
         buf |-> t.buf, inside |-> t.inside, seen |-> t.seen]
  BY <1>4, ToldIs
<1>8. Told(inside, x, u) = Told(inside, x \o y, t)
  BY <1>2, <1>3, <1>5, <1>6, <1>7
<1>9. QED
  BY <1>8 DEF u

-----------------------------------------------------------------------------
(* Where no tag starts.                                                    *)

\* From none of the first n places of x on does x go on like the tag, be it to
\* the tag's end or to its own.
NoStart(tag, x, n) ==
  \A i \in 1 .. n : \E j \in 1 .. Len(tag) : i + j - 1 <= Len(x) /\ x[i + j - 1] # tag[j]

\* What is cut off where no tag stands is no start of a tag.
LEMMA CutIsNoStart ==
  ASSUME NEW x \in String, NEW tag \in String, Len(tag) > 0, Places(tag, x) = {}
  PROVE  NoStart(tag, x, Len(x) - PartialTagSuffix(x, tag))
<1> DEFINE n == PartialTagSuffix(x, tag)
<1>1. Len(x) \in Nat /\ Len(tag) \in Nat
  BY DEF String
<1>2. /\ n \in 0 .. Len(x)
      /\ \A m \in 1 .. Len(x) :
           m < Len(tag) /\ (\A j \in 1 .. m : x[Len(x) - m + j] = tag[j]) => m <= n
  BY SuffixIs
<1> HIDE DEF n
<1>3. ASSUME NEW i \in 1 .. (Len(x) - n),
             \A j \in 1 .. Len(tag) : i + j - 1 <= Len(x) => x[i + j - 1] = tag[j]
      PROVE  FALSE
  <2>1. CASE i + Len(tag) - 1 <= Len(x)
    <3>1. i \in 1 .. (Len(x) - Len(tag) + 1)
      BY <1>1, <1>2, <2>1
    <3>2. \A j \in 1 .. Len(tag) : x[i + j - 1] = tag[j]
      BY <1>1, <1>3, <2>1
    <3>3. i \in Places(tag, x)
      BY <3>1, <3>2, PlaceIs
    <3>4. QED
      BY <3>3
  <2>2. CASE i + Len(tag) - 1 > Len(x)
    <3> DEFINE m == Len(x) - i + 1
    <3>1. m \in 1 .. Len(x) /\ m < Len(tag) /\ m > n /\ i = Len(x) - m + 1
      BY <1>1, <1>2, <2>2
    <3> HIDE DEF m
    <3>2. ASSUME NEW j \in 1 .. m
          PROVE  x[Len(x) - m + j] = tag[j]
      <4>1. j \in 1 .. Len(tag) /\ i + j - 1 <= Len(x) /\ i + j - 1 = Len(x) - m + j
        BY <1>1, <3>1
      <4>2. QED
        BY <1>3, <4>1
    <3>3. QED
      BY <1>2, <3>1, <3>2
  <2>3. QED
    BY <1>1, <1>2, <2>1, <2>2
<1>4. QED
  BY <1>3 DEF NoStart, n

\* Nor does it become one when more arrives.
LEMMA NoStartExtends ==
  ASSUME NEW x \in String, NEW y \in String, NEW tag \in String, NEW n \in Nat, NoStart(tag, x, n)
  PROVE  NoStart(tag, x \o y, n)
<1>1. /\ Len(x) \in Nat /\ Len(y) \in Nat /\ Len(x \o y) = Len(x) + Len(y)
      /\ \A i \in 1 .. Len(x) : (x \o y)[i] = x[i]
  BY Concatenated
<1>2. Len(tag) \in Nat
  BY DEF String
<1> DEFINE z == x \o y
<1> HIDE DEF z
<1>3. ASSUME NEW i \in 1 .. n
      PROVE  \E j \in 1 .. Len(tag) : i + j - 1 <= Len(z) /\ z[i + j - 1] # tag[j]
  <2>1. PICK j \in 1 .. Len(tag) : i + j - 1 <= Len(x) /\ x[i + j - 1] # tag[j]
    BY DEF NoStart
  <2>2. i + j - 1 \in 1 .. Len(x) /\ i + j - 1 <= Len(z)
    BY <1>1, <1>2, <2>1 DEF z
  <2>3. z[i + j - 1] = x[i + j - 1]
    BY <1>1, <2>2 DEF z
  <2>4. QED
    BY <2>1, <2>2, <2>3
<1>4. QED
  BY <1>3 DEF NoStart, z

\* The tags and the partial tag at the end of a \o w are those of w.
LEMMA PlacesPast ==
  ASSUME NEW a \in String, NEW w \in String, NEW tag \in String, Len(tag) > 0,
         NoStart(tag, a \o w, Len(a))
  PROVE  /\ \A i \in Int : i \in Places(tag, a \o w) <=> i - Len(a) \in Places(tag, w)
         /\ PartialTagSuffix(a \o w, tag) = PartialTagSuffix(w, tag)
<1> DEFINE x == a \o w
<1>1. /\ x \in String /\ Len(a) \in Nat /\ Len(w) \in Nat /\ Len(x) = Len(a) + Len(w)
      /\ \A i \in 1 .. Len(w) : x[Len(a) + i] = w[i]
  BY Concatenated
<1>2. Len(tag) \in Nat
  BY DEF String
<1>3. NoStart(tag, x, Len(a))
  OBVIOUS
<1> HIDE DEF x
<1>4. ASSUME NEW i \in Int, i \in Places(tag, x)
      PROVE  i - Len(a) \in Places(tag, w)
  <2>1. i \in 1 .. (Len(x) - Len(tag) + 1) /\ \A j \in 1 .. Len(tag) : x[i + j - 1] = tag[j]
    BY <1>1, <1>4, PlaceIs
  <2>2. ~(i \in 1 .. Len(a))
    BY <1>3, <2>1 DEF NoStart
  <2> DEFINE k == i - Len(a)
  <2>3. k \in 1 .. (Len(w) - Len(tag) + 1) /\ i = k + Len(a)
    BY <1>1, <1>2, <2>1, <2>2
  <2> HIDE DEF k
  <2>4. ASSUME NEW j \in 1 .. Len(tag)
        PROVE  w[k + j - 1] = tag[j]
    <3>1. k + j - 1 \in 1 .. Len(w) /\ Len(a) + (k + j - 1) = i + j - 1
      BY <1>1, <1>2, <2>3
    <3>2. QED
      BY <1>1, <2>1, <3>1
  <2>5. k \in Places(tag, w)
    BY <2>3, <2>4, PlaceIs
  <2>6. QED
    BY <2>5 DEF k
<1>5. ASSUME NEW i \in Int, i - Len(a) \in Places(tag, w)
      PROVE  i \in Places(tag, x)
  <2> DEFINE k == i - Len(a)
  <2>0. k \in Places(tag, w)
    BY <1>5
  <2>2. k \in Int /\ i = k + Len(a)
    BY <1>1
  <2> HIDE DEF k
  <2>1. k \in 1 .. (Len(w) - Len(tag) + 1) /\ \A j \in 1 .. Len(tag) : w[k + j - 1] = tag[j]
    BY <2>0, PlaceIs
  <2>3. i \in 1 .. (Len(x) - Len(tag) + 1)
    BY <1>1, <1>2, <2>1, <2>2
  <2>4. ASSUME NEW j \in 1 .. Len(tag)
        PROVE  x[i + j - 1] = tag[j]
    <3>1. k + j - 1 \in 1 .. Len(w) /\ Len(a) + (k + j - 1) = i + j - 1
      BY <1>1, <1>2, <2>1, <2>2
    <3>2. QED
      BY <1>1, <2>1, <3>1
  <2>5. QED
    BY <1>1, <2>3, <2>4, PlaceIs
<1>6. PartialTagSuffix(x, tag) = PartialTagSuffix(w, tag)
  <2> DEFINE n == PartialTagSuffix(x, tag)
             m == PartialTagSuffix(w, tag)
  <2>1. /\ n \in 0 .. Len(x) /\ n < Len(tag)
        /\ \A j \in 1 .. n : x[Len(x) - n + j] = tag[j]
        /\ \A k \in 1 .. Len(x) : k < Len(tag) /\ (\A j \in 1 .. k : x[Len(x) - k + j] = tag[j]) => k <= n
    BY <1>1, SuffixIs
  <2>2. /\ m \in 0 .. Len(w) /\ m < Len(tag)
        /\ \A j \in 1 .. m : w[Len(w) - m + j] = tag[j]
        /\ \A k \in 1 .. Len(w) : k < Len(tag) /\ (\A j \in 1 .. k : w[Len(w) - k + j] = tag[j]) => k <= m
    BY SuffixIs
  <2> HIDE DEF n, m
  <2>3. m <= n
    <3>1. CASE m = 0
      BY <2>1, <3>1, <1>1
    <3>2. CASE m # 0
      <4>1. m \in 1 .. Len(x)
        BY <1>1, <2>2, <3>2
      <4>2. ASSUME NEW j \in 1 .. m
            PROVE  x[Len(x) - m + j] = tag[j]
        <5>1. Len(w) - m + j \in 1 .. Len(w) /\ Len(a) + (Len(w) - m + j) = Len(x) - m + j
          BY <1>1, <2>2
        <5>2. QED
          BY <1>1, <2>2, <5>1
      <4>3. QED
        BY <2>1, <2>2, <4>1, <4>2
    <3>3. QED
      BY <3>1, <3>2
  <2>4. n <= Len(w)
    <3> SUFFICES ASSUME n > Len(w)
                 PROVE  FALSE
      BY <1>1, <2>1
    <3> DEFINE i == Len(x) - n + 1
    <3>1. i \in 1 .. Len(a) /\ i = Len(x) - n + 1
      BY <1>1, <2>1
    <3> HIDE DEF i
    <3>2. PICK j \in 1 .. Len(tag) : i + j - 1 <= Len(x) /\ x[i + j - 1] # tag[j]
      BY <1>3, <3>1 DEF NoStart
    <3>3. j \in 1 .. n /\ i + j - 1 = Len(x) - n + j
      BY <1>1, <1>2, <2>1, <3>1, <3>2
    <3>4. QED
      BY <2>1, <3>2, <3>3
  <2>5. n <= m
    <3>1. CASE n = 0
      BY <2>2, <3>1, <1>1
    <3>2. CASE n # 0
      <4>1. n \in 1 .. Len(w)
        BY <1>1, <2>1, <2>4, <3>2
      <4>2. ASSUME NEW j \in 1 .. n
            PROVE  w[Len(w) - n + j] = tag[j]
        <5>1. Len(w) - n + j \in 1 .. Len(w) /\ Len(a) + (Len(w) - n + j) = Len(x) - n + j
          BY <1>1, <4>1
        <5>2. QED
          BY <1>1, <2>1, <5>1
      <4>3. QED
        BY <2>1, <2>2, <4>1, <4>2
    <3>3. QED
      BY <3>1, <3>2
  <2>6. n \in Int /\ m \in Int
    BY <1>1, <2>1, <2>2
  <2>7. QED
    BY <2>3, <2>5, <2>6 DEF n, m
<1>7. QED
  BY <1>4, <1>5, <1>6 DEF x

\* The pieces of a concatenation.
LEMMA StartPast ==
  ASSUME NEW a \in String, NEW w \in String, NEW k \in 0 .. Len(w)
  PROVE  SubSeq(a \o w, 1, Len(a) + k) = a \o SubSeq(w, 1, k)
<1>1. /\ a \o w \in String /\ Len(a) \in Nat /\ Len(w) \in Nat /\ Len(a \o w) = Len(a) + Len(w)
      /\ \A i \in 1 .. Len(a) : (a \o w)[i] = a[i]
      /\ \A i \in 1 .. Len(w) : (a \o w)[Len(a) + i] = w[i]
  BY Concatenated
<1> DEFINE x == a \o w
           p == SubSeq(x, 1, Len(a) + k)
           q == SubSeq(w, 1, k)
           r == a \o q
<1>2. p \in String /\ Len(p) = Len(a) + k /\ \A i \in 1 .. (Len(a) + k) : p[i] = x[i]
  <2>1. x \in String /\ Len(a) + k \in Int /\ Len(a) + k <= Len(x)
    BY <1>1
  <2> HIDE DEF x
  <2>2. /\ p \in String /\ Len(p) = (IF 1 <= Len(a) + k THEN (Len(a) + k) - 1 + 1 ELSE 0)
        /\ \A i \in 1 .. ((Len(a) + k) - 1 + 1) : p[i] = x[1 + i - 1]
    BY <2>1, PieceIs
  <2> HIDE DEF p
  <2>3. QED
    BY <1>1, <2>2
<1>3. q \in String /\ Len(q) = k /\ \A i \in 1 .. k : q[i] = w[i]
  <2>1. /\ q \in String /\ Len(q) = (IF 1 <= k THEN k - 1 + 1 ELSE 0)
        /\ \A i \in 1 .. (k - 1 + 1) : q[i] = w[1 + i - 1]
    BY <1>1, PieceIs
  <2> HIDE DEF q
  <2>2. QED
    BY <1>1, <2>1
<1> HIDE DEF p, q
<1>4. /\ r \in String /\ Len(r) = Len(a) + Len(q)
      /\ \A i \in 1 .. Len(a) : r[i] = a[i]
      /\ \A i \in 1 .. Len(q) : r[Len(a) + i] = q[i]
  BY <1>3, Concatenated
<1> HIDE DEF r, x
<1>5. ASSUME NEW i \in 1 .. (Len(a) + k)
      PROVE  p[i] = r[i]
  <2>1. CASE i <= Len(a)
    BY <1>1, <1>2, <1>4, <2>1 DEF x
  <2>2. CASE i > Len(a)
    <3> DEFINE j == i - Len(a)
    <3>1. j \in 1 .. k /\ i = Len(a) + j /\ j \in 1 .. Len(w)
      BY <1>1, <2>2
    <3> HIDE DEF j
    <3>2. p[i] = w[j]
      BY <1>1, <1>2, <3>1 DEF x
    <3>3. r[i] = q[j]
      BY <1>3, <1>4, <3>1
    <3>4. QED
      BY <1>3, <3>1, <3>2, <3>3
  <2>3. QED
    BY <1>1, <2>1, <2>2
<1>6. p = r
  BY <1>2, <1>3, <1>4, <1>5, SameString
<1>7. QED
  BY <1>6 DEF p, q, r, x

\* The end of a string, counted from a prefix on.
LEMMA EndPast ==
  ASSUME NEW a \in String, NEW w \in String, NEW k \in 1 .. (Len(w) + 1)
  PROVE  SubSeq(a \o w, Len(a) + k, Len(a \o w)) = SubSeq(w, k, Len(w))
<1>1. /\ a \o w \in String /\ Len(a) \in Nat /\ Len(w) \in Nat /\ Len(a \o w) = Len(a) + Len(w)
      /\ \A i \in 1 .. Len(w) : (a \o w)[Len(a) + i] = w[i]
  BY Concatenated
<1> DEFINE x == a \o w
           f == Len(a) + k
           p == SubSeq(x, f, Len(x))
           q == SubSeq(w, k, Len(w))
           n == Len(w) - k + 1
<1>2. p \in String /\ Len(p) = n /\ \A i \in 1 .. n : p[i] = x[f + i - 1]
  <2>1. x \in String /\ f \in Nat \ {0} /\ Len(x) \in Int /\ Len(x) <= Len(x) /\ Len(x) - f + 1 = n /\ n \in Nat
        /\ (f <= Len(x) <=> n > 0)
    BY <1>1
  <2> HIDE DEF x, f, n
  <2>2. /\ p \in String /\ Len(p) = (IF f <= Len(x) THEN Len(x) - f + 1 ELSE 0)
        /\ \A i \in 1 .. (Len(x) - f + 1) : p[i] = x[f + i - 1]
    BY <2>1, PieceIs
  <2> HIDE DEF p
  <2>3. QED
    BY <2>1, <2>2
<1>3. q \in String /\ Len(q) = n /\ \A i \in 1 .. n : q[i] = w[k + i - 1]
  <2>1. k \in Nat \ {0} /\ Len(w) \in Int /\ Len(w) <= Len(w) /\ n \in Nat /\ (k <= Len(w) <=> n > 0)
    BY <1>1
  <2>2. /\ q \in String /\ Len(q) = (IF k <= Len(w) THEN Len(w) - k + 1 ELSE 0)
        /\ \A i \in 1 .. (Len(w) - k + 1) : q[i] = w[k + i - 1]
    BY <2>1, PieceIs
  <2> HIDE DEF q
  <2>3. QED
    BY <2>1, <2>2
<1> HIDE DEF p, q
<1>4. ASSUME NEW i \in 1 .. n
      PROVE  p[i] = q[i]
  <2> DEFINE j == k + i - 1
  <2>1. j \in 1 .. Len(w) /\ f + i - 1 = Len(a) + j
    BY <1>1
  <2> HIDE DEF j
  <2>2. x[f + i - 1] = w[j]
    BY <1>1, <2>1
  <2>3. QED
    BY <1>2, <1>3, <2>2 DEF j
<1>5. p = q
  <2> HIDE DEF n
  <2>1. QED
    BY <1>2, <1>3, <1>4, SameString
<1>6. QED
  BY <1>5 DEF p, q

\* What no tag starts in is yielded before the rest is looked at.
LEMMA ScanPast ==
  ASSUME NEW a \in String, NEW w \in String, NEW inside \in BOOLEAN,
         NoStart(TagFor(inside), a \o w, Len(a))
  PROVE  Scan[a \o w][inside] = Told(inside, a, Scan[w][inside])
<1> DEFINE x   == a \o w
           tag == TagFor(inside)
<1>1. /\ x \in String /\ Len(a) \in Nat /\ Len(w) \in Nat /\ Len(x) = Len(a) + Len(w)
  BY Concatenated
<1>2. tag \in String /\ Len(tag) \in Nat \ {0}
  BY TagIs
<1>3. /\ \A i \in Int : i \in Places(tag, x) <=> i - Len(a) \in Places(tag, w)
      /\ PartialTagSuffix(x, tag) = PartialTagSuffix(w, tag)
  BY <1>2, PlacesPast
<1>4. CASE Places(tag, w) # {}
  <2> DEFINE at   == Min(Places(tag, w))
             rest == SubSeq(w, at + Len(tag), Len(w))
             pre  == SubSeq(w, 1, at - 1)
             then == TagSeen(Scan[rest][~inside])
             atx  == Min(Places(tag, x))
             resx == SubSeq(x, atx + Len(tag), Len(x))
             prex == SubSeq(x, 1, atx - 1)
  <2>1. at \in Places(tag, w) /\ at \in 1 .. Len(w) /\ (\A i \in Places(tag, w) : at <= i) /\ rest \in String
        /\ at \in 1 .. (Len(w) - Len(tag) + 1)
    <3>1. at \in Places(tag, w) /\ at \in 1 .. Len(w) /\ (\A i \in Places(tag, w) : at <= i) /\ rest \in String
      BY <1>4, RestIsShorter
    <3> HIDE DEF at, tag
    <3>2. at \in 1 .. (Len(w) - Len(tag) + 1)
      BY <1>2, <3>1, PlaceIs
    <3>3. QED
      BY <3>1, <3>2
  <2>2. Len(a) + at \in Places(tag, x)
    <3> HIDE DEF at, tag, x, rest
    <3>1. Len(a) + at \in Int /\ Len(a) + at - Len(a) = at
      BY <1>1, <2>1
    <3>2. QED
      BY <1>3, <2>1, <3>1
  <2>3. Places(tag, x) # {}
    BY <2>2
  <2>4. /\ atx \in Places(tag, x) /\ atx \in 1 .. Len(x)
        /\ \A i \in Places(tag, x) : atx <= i
    BY <1>1, <2>3, RestIsShorter
  <2>5. Scan[w][inside] = Told(inside, pre, then)
    BY <1>4, ScanFound
  <2>6. Scan[x][inside] = Told(inside, prex, TagSeen(Scan[resx][~inside]))
    BY <1>1, <2>3, ScanFound
  <2>7. atx = Len(a) + at
    <3> HIDE DEF at, tag, x, rest, atx
    <3>1. atx \in Int /\ at \in Int
      BY <1>1, <2>1, <2>4
    <3>2. atx <= Len(a) + at
      BY <2>2, <2>4
    <3>3. atx - Len(a) \in Places(tag, w)
      BY <1>3, <2>4, <3>1
    <3>4. at <= atx - Len(a)
      BY <2>1, <3>3
    <3>5. QED
      BY <1>1, <3>1, <3>2, <3>4
  <2>8. prex = a \o pre
    <3> DEFINE k == at - 1
    <3>1. k \in 0 .. Len(w) /\ atx - 1 = Len(a) + k
      <4> HIDE DEF at, tag, x, rest, atx
      <4>1. QED
        BY <1>1, <2>1, <2>7
    <3> HIDE DEF k, atx, at
    <3>2. SubSeq(a \o w, 1, Len(a) + k) = a \o SubSeq(w, 1, k)
      BY <3>1, StartPast
    <3>3. QED
      BY <3>1, <3>2 DEF k
  <2>9. resx = rest
    <3> DEFINE k == at + Len(tag)
    <3>1. k \in 1 .. (Len(w) + 1) /\ atx + Len(tag) = Len(a) + k
      <4> HIDE DEF at, tag, x, rest, atx
      <4>1. QED
        BY <1>1, <1>2, <2>1, <2>7
    <3> HIDE DEF k, atx, at
    <3>2. SubSeq(a \o w, Len(a) + k, Len(a \o w)) = SubSeq(w, k, Len(w))
      BY <3>1, EndPast
    <3>3. QED
      BY <3>1, <3>2 DEF k
  <2>10. pre \in String
    <3> HIDE DEF at
    <3>1. at - 1 \in Int /\ at - 1 <= Len(w)
      BY <1>1, <2>1
    <3>2. QED
      BY <3>1, PieceIs
  <2>11. then \in Scanned
    <3> HIDE DEF rest
    <3>1. Scan[rest][~inside] \in Scanned
      BY <2>1, ScanType
    <3>2. QED
      BY <3>1, ToldType
  <2> HIDE DEF rest, resx, at, atx, tag, x
  <2>12. Scan[x][inside] = Told(inside, a \o pre, then)
    BY <2>6, <2>8, <2>9
  <2> HIDE DEF pre, then
  <2>13. QED
    BY <2>5, <2>10, <2>11, <2>12, ToldTwice DEF x
<1>5. CASE Places(tag, w) = {}
  <2> DEFINE n    == PartialTagSuffix(w, tag)
             cut  == Len(w) - n
             pre  == SubSeq(w, 1, cut)
             suf  == SubSeq(w, cut + 1, Len(w))
             cutx == Len(x) - PartialTagSuffix(x, tag)
             prex == SubSeq(x, 1, cutx)
             sufx == SubSeq(x, cutx + 1, Len(x))
  <2>1. Places(tag, x) = {}
    <3> SUFFICES ASSUME NEW i \in Places(tag, x)
                 PROVE  FALSE
      OBVIOUS
    <3> HIDE DEF x, tag
    <3>1. i \in Int
      BY <1>1, <1>2, PlaceIs
    <3>2. QED
      BY <1>3, <1>5, <3>1
  <2>2. n \in 0 .. Len(w)
    BY <1>2, SuffixIs
  <2>3. cut \in 0 .. Len(w) /\ cutx = Len(a) + cut
    <3> HIDE DEF x, tag
    <3>1. n \in 0 .. Len(w) /\ PartialTagSuffix(x, tag) = n
      BY <1>3, <2>2
    <3> HIDE DEF n
    <3>2. QED
      BY <1>1, <3>1
  <2>4. Scan[w][inside] = Told(inside, pre, Held(suf, inside))
    BY <1>5, ScanNone
  <2>5. Scan[x][inside] = Told(inside, prex, Held(sufx, inside))
    BY <1>1, <2>1, ScanNone
  <2> HIDE DEF cut, cutx, tag, n
  <2>6. prex = a \o pre
    BY <2>3, StartPast
  <2>7. sufx = suf
    <3> DEFINE k == cut + 1
    <3>1. k \in 1 .. (Len(w) + 1) /\ cutx + 1 = Len(a) + k
      <4> HIDE DEF x
      <4>1. QED
        BY <1>1, <2>3
    <3> HIDE DEF k
    <3>2. SubSeq(a \o w, Len(a) + k, Len(a \o w)) = SubSeq(w, k, Len(w))
      BY <3>1, EndPast
    <3>3. QED
      BY <3>1, <3>2 DEF k
  <2>8. pre \in String /\ suf \in String
    <3>1. cut \in Int /\ cut <= Len(w) /\ cut + 1 \in Nat \ {0} /\ Len(w) \in Int /\ Len(w) <= Len(w)
      BY <1>1, <2>3
    <3>2. QED
      BY <3>1, PieceIs
  <2> HIDE DEF pre, suf, prex, sufx, x
  <2>9. Held(suf, inside) \in Scanned
    BY <2>8, EmptyIsNeutral DEF Held, Scanned
  <2> DEFINE h == Held(suf, inside)
  <2> HIDE DEF h
  <2>10. Scan[x][inside] = Told(inside, a \o pre, h) /\ Scan[w][inside] = Told(inside, pre, h)
    BY <2>4, <2>5, <2>6, <2>7 DEF h
  <2>11. QED
    BY <2>8, <2>9, <2>10, ToldTwice DEF x, h
<1>6. QED
  BY <1>4, <1>5

-----------------------------------------------------------------------------
(* Scan in pieces: the boundaries of the deltas do not matter.             *)

\* A string is its two parts, wherever it is cut.
LEMMA Halves ==
  ASSUME NEW x \in String, NEW k \in 0 .. Len(x)
  PROVE  LET u == SubSeq(x, 1, k)
             v == SubSeq(x, k + 1, Len(x))
         IN u \in String /\ v \in String /\ Len(u) = k /\ Len(v) = Len(x) - k /\ x = u \o v
<1> DEFINE u == SubSeq(x, 1, k)
           v == SubSeq(x, k + 1, Len(x))
           w == u \o v
<1>1. Len(x) \in Nat
  BY DEF String
<1>2. u \in String /\ Len(u) = k /\ \A i \in 1 .. k : u[i] = x[i]
  <2>1. k \in Int /\ k <= Len(x)
    BY <1>1
  <2>2. /\ u \in String /\ Len(u) = (IF 1 <= k THEN k - 1 + 1 ELSE 0)
        /\ \A i \in 1 .. (k - 1 + 1) : u[i] = x[1 + i - 1]
    BY <2>1, PieceIs
  <2> HIDE DEF u
  <2>3. QED
    BY <1>1, <2>2
<1>3. v \in String /\ Len(v) = Len(x) - k /\ \A i \in 1 .. (Len(x) - k) : v[i] = x[k + i]
  <2>1. k + 1 \in Nat \ {0} /\ Len(x) \in Int /\ Len(x) <= Len(x)
    BY <1>1
  <2>2. /\ v \in String /\ Len(v) = (IF k + 1 <= Len(x) THEN Len(x) - (k + 1) + 1 ELSE 0)
        /\ \A i \in 1 .. (Len(x) - (k + 1) + 1) : v[i] = x[(k + 1) + i - 1]
    BY <2>1, PieceIs
  <2> HIDE DEF v
  <2>3. QED
    BY <1>1, <2>2
<1> HIDE DEF u, v
<1>4. /\ w \in String /\ Len(w) = Len(u) + Len(v)
      /\ \A i \in 1 .. Len(u) : w[i] = u[i]
      /\ \A i \in 1 .. Len(v) : w[Len(u) + i] = v[i]
  BY <1>2, <1>3, Concatenated
<1> HIDE DEF w
<1>5. ASSUME NEW i \in 1 .. Len(x)
      PROVE  x[i] = w[i]
  <2>1. CASE i <= k
    BY <1>1, <1>2, <1>4, <2>1
  <2>2. CASE i > k
    <3> DEFINE j == i - k
    <3>1. j \in 1 .. (Len(x) - k) /\ i = k + j
      BY <1>1, <2>2
    <3> HIDE DEF j
    <3>2. QED
      BY <1>2, <1>3, <1>4, <3>1
  <2>3. QED
    BY <1>1, <2>1, <2>2
<1>6. x = w
  <2>1. Len(w) = Len(x)
    BY <1>1, <1>2, <1>3, <1>4
  <2>2. QED
    BY <1>4, <1>5, <2>1, SameString
<1>7. QED
  BY <1>2, <1>3, <1>6 DEF u, v, w

\* A concatenation splits where its first part ends.
LEMMA Parts ==
  ASSUME NEW u \in String, NEW v \in String
  PROVE  SubSeq(u \o v, 1, Len(u)) = u /\ SubSeq(u \o v, Len(u) + 1, Len(u \o v)) = v
<1>1. Len(u) \in Nat /\ Len(v) \in Nat /\ u \o v \in String
  BY Concatenated
<1>2. \A w \in String : SubSeq(w, 1, 0) = <<>> /\ SubSeq(w, 1, Len(w)) = w
  BY DEF String
<1>3. SubSeq(u \o v, 1, Len(u)) = u
  <2> DEFINE k == 0
  <2>1. k \in 0 .. Len(v) /\ Len(u) + k = Len(u)
    BY <1>1
  <2>2. SubSeq(v, 1, k) = <<>>
    BY <1>2
  <2> HIDE DEF k
  <2>3. SubSeq(u \o v, 1, Len(u) + k) = u \o SubSeq(v, 1, k)
    BY <2>1, StartPast
  <2>4. QED
    BY <2>1, <2>2, <2>3, EmptyIsNeutral
<1>4. SubSeq(u \o v, Len(u) + 1, Len(u \o v)) = v
  <2> DEFINE k == 1
  <2>1. k \in 1 .. (Len(v) + 1) /\ k = 1
    BY <1>1
  <2> HIDE DEF k
  <2>2. SubSeq(u \o v, Len(u) + k, Len(u \o v)) = SubSeq(v, k, Len(v))
    BY <2>1, EndPast
  <2>3. QED
    BY <1>2, <2>1, <2>2
<1>5. QED
  BY <1>3, <1>4

\* Cutting x before more arrives or after is the same.
LEMMA PiecesKept ==
  ASSUME NEW x \in String, NEW y \in String, NEW k \in 0 .. Len(x)
  PROVE  /\ SubSeq(x \o y, 1, k) = SubSeq(x, 1, k)
         /\ SubSeq(x \o y, k + 1, Len(x \o y)) = SubSeq(x, k + 1, Len(x)) \o y
<1> DEFINE u == SubSeq(x, 1, k)
           v == SubSeq(x, k + 1, Len(x))
<1>1. u \in String /\ v \in String /\ Len(u) = k /\ x = u \o v
  BY Halves
<1> HIDE DEF u, v
<1>2. x \o y = u \o (v \o y) /\ v \o y \in String
  <2>1. v \o y \in String
    BY <1>1, Concatenated
  <2>2. (u \o v) \o y = u \o (v \o y)
    BY <1>1, Associates
  <2>3. QED
    BY <1>1, <2>1, <2>2
<1>3. SubSeq(u \o (v \o y), 1, Len(u)) = u /\ SubSeq(u \o (v \o y), Len(u) + 1, Len(u \o (v \o y))) = v \o y
  BY <1>1, <1>2, Parts
<1>4. SubSeq(x \o y, 1, k) = u /\ SubSeq(x \o y, k + 1, Len(x \o y)) = v \o y
  BY <1>1, <1>2, <1>3
<1>5. QED
  BY <1>4 DEF u, v

\* The first tag stays the first when more arrives.
LEMMA FirstKept ==
  ASSUME NEW x \in String, NEW y \in String, NEW p \in String, Len(p) > 0, Places(p, x) # {}
  PROVE  Places(p, x \o y) # {} /\ Min(Places(p, x \o y)) = Min(Places(p, x))
<1> DEFINE z  == x \o y
           at == Min(Places(p, x))
           az == Min(Places(p, z))
<1>1. /\ z \in String /\ Len(x) \in Nat /\ Len(y) \in Nat /\ Len(z) = Len(x) + Len(y)
      /\ \A i \in 1 .. Len(x) : z[i] = x[i]
  BY Concatenated
<1>2. Len(p) \in Nat
  BY DEF String
<1>3. Places(p, x) \in SUBSET (1 .. Len(x)) /\ Places(p, z) \in SUBSET (1 .. Len(z))
  <2> HIDE DEF z
  <2>1. QED
    BY <1>1, PlaceIs
<1> HIDE DEF z
<1>4. at \in Places(p, x) /\ \A i \in Places(p, x) : at <= i
  <2>1. Places(p, x) \in SUBSET Nat
    BY <1>3
  <2>2. QED
    BY <2>1, MinIs
<1> HIDE DEF at
<1>5. at \in Places(p, z)
  <2>1. at \in 1 .. (Len(x) - Len(p) + 1) /\ \A j \in 1 .. Len(p) : x[at + j - 1] = p[j]
    BY <1>4, PlaceIs
  <2>2. at \in 1 .. (Len(z) - Len(p) + 1)
    BY <1>1, <1>2, <2>1
  <2>3. ASSUME NEW j \in 1 .. Len(p)
        PROVE  z[at + j - 1] = p[j]
    <3>1. at + j - 1 \in 1 .. Len(x)
      BY <1>1, <1>2, <2>1
    <3>2. QED
      BY <1>1, <2>1, <3>1
  <2>4. QED
    BY <1>1, <2>2, <2>3, PlaceIs
<1>6. az \in Places(p, z) /\ \A i \in Places(p, z) : az <= i
  <2>1. Places(p, z) \in SUBSET Nat /\ Places(p, z) # {}
    BY <1>3, <1>5
  <2>2. QED
    BY <2>1, MinIs
<1> HIDE DEF az
<1>7. az \in Places(p, x)
  <2>1. az \in 1 .. (Len(z) - Len(p) + 1) /\ \A j \in 1 .. Len(p) : z[az + j - 1] = p[j]
    BY <1>1, <1>6, PlaceIs
  <2>2. az <= at /\ at \in 1 .. (Len(x) - Len(p) + 1)
    BY <1>4, <1>5, <1>6, PlaceIs
  <2>3. az \in 1 .. (Len(x) - Len(p) + 1)
    BY <1>1, <1>2, <2>1, <2>2
  <2>4. ASSUME NEW j \in 1 .. Len(p)
        PROVE  x[az + j - 1] = p[j]
    <3>1. az + j - 1 \in 1 .. Len(x)
      BY <1>1, <1>2, <2>3
    <3>2. QED
      BY <1>1, <2>1, <3>1
  <2>5. QED
    BY <2>3, <2>4, PlaceIs
<1>8. az = at
  <2>1. az \in Int /\ at \in Int
    BY <1>3, <1>4, <1>6
  <2>2. az <= at /\ at <= az
    BY <1>4, <1>5, <1>6, <1>7
  <2>3. QED
    BY <2>1, <2>2
<1>9. QED
  BY <1>5, <1>8 DEF az, at, z

\* Scan is incremental: what it makes of x and y in one piece is what it makes
\* of x, and then of the rest it kept followed by y.
Incremental(x, inside) ==
  \A y \in String :
    Scan[x \o y][inside] =
      Joined(Scan[x][inside], Scan[Scan[x][inside].buf \o y][Scan[x][inside].inside])

\* A piece without a tag: only the suffix that is kept can continue one.
LEMMA NoTagContinues ==
  ASSUME NEW x \in String, NEW inside \in BOOLEAN, Places(TagFor(inside), x) = {}
  PROVE  Incremental(x, inside)
<1> DEFINE tag == TagFor(inside)
           cut == Len(x) - PartialTagSuffix(x, tag)
           a   == SubSeq(x, 1, cut)
           suf == SubSeq(x, cut + 1, Len(x))
<1>1. tag \in String /\ Len(tag) > 0 /\ cut \in 0 .. Len(x) /\ NoStart(tag, x, cut)
  <2>1. tag \in String /\ Len(tag) \in Nat \ {0} /\ Len(x) \in Nat
    BY TagIs, PlaceIs
  <2> HIDE DEF tag
  <2>2. Len(tag) > 0 /\ Places(tag, x) = {}
    BY <2>1 DEF tag
  <2>3. NoStart(tag, x, Len(x) - PartialTagSuffix(x, tag))
    BY <2>1, <2>2, CutIsNoStart
  <2>4. PartialTagSuffix(x, tag) \in 0 .. Len(x)
    BY <2>1, <2>2, SuffixIs
  <2>5. QED
    BY <2>1, <2>2, <2>3, <2>4
<1>2. Scan[x][inside] = Told(inside, a, Held(suf, inside))
  BY ScanNone
<1> HIDE DEF cut
<1>3. a \in String /\ suf \in String /\ Len(a) = cut /\ x = a \o suf
  BY <1>1, Halves
<1> HIDE DEF a, suf, tag
<1>4. Held(suf, inside) \in Scanned
  BY <1>3, EmptyIsNeutral DEF Held, Scanned
<1>5. Scan[x][inside].buf = suf /\ Scan[x][inside].inside = inside
  <2> DEFINE h == Held(suf, inside)
  <2>1. h.buf = suf /\ h.inside = inside
    BY DEF Held
  <2> HIDE DEF h
  <2>2. Told(inside, a, h) =
           [text |-> IF inside THEN h.text ELSE a \o h.text,
            think |-> IF inside THEN a \o h.think ELSE h.think,
            buf |-> h.buf, inside |-> h.inside, seen |-> h.seen]
    BY <1>3, <1>4, ToldIs DEF h
  <2>3. QED
    BY <1>2, <2>1, <2>2 DEF h
<1>6. ASSUME NEW y \in String
      PROVE  Scan[x \o y][inside] = Joined(Scan[x][inside], Scan[suf \o y][inside])
  <2> DEFINE w == suf \o y
  <2>1. w \in String /\ x \o y = a \o w
    <3>1. w \in String
      BY <1>3, Concatenated
    <3>2. (a \o suf) \o y = a \o (suf \o y)
      BY <1>3, Associates
    <3>3. QED
      BY <1>3, <3>1, <3>2
  <2> HIDE DEF w
  <2>2. NoStart(tag, a \o w, Len(a))
    <3>1. cut \in Nat
      BY <1>1, PlaceIs
    <3>2. NoStart(tag, x \o y, cut)
      BY <1>1, <3>1, NoStartExtends
    <3>3. QED
      BY <1>3, <2>1, <3>2
  <2>3. Scan[a \o w][inside] = Told(inside, a, Scan[w][inside])
    BY <1>3, <2>1, <2>2, ScanPast DEF tag
  <2>4. Scan[w][inside] \in Scanned
    BY <2>1, ScanType
  <2>5. Joined(Told(inside, a, Held(suf, inside)), Scan[w][inside]) = Told(inside, a, Scan[w][inside])
    BY <1>3, <2>4, ToldHeld
  <2>6. QED
    BY <1>2, <2>1, <2>3, <2>5 DEF w
<1>7. QED
  BY <1>5, <1>6 DEF Incremental

\* A piece with a tag: the rest after the tag is a shorter piece.
LEMMA TagContinues ==
  ASSUME NEW x \in String, NEW inside \in BOOLEAN, Places(TagFor(inside), x) # {},
         \A r \in String : Len(r) < Len(x) => Incremental(r, ~inside)
  PROVE  Incremental(x, inside)
<1> DEFINE tag  == TagFor(inside)
           at   == Min(Places(tag, x))
           rest == SubSeq(x, at + Len(tag), Len(x))
           pre  == SubSeq(x, 1, at - 1)
           s    == Scan[rest][~inside]
           t(y) == Scan[s.buf \o y][s.inside]
<1>1. /\ tag \in String /\ Len(tag) \in Nat \ {0} /\ Len(x) \in Nat
  BY TagIs, PlaceIs
<1>2. /\ at \in 1 .. Len(x) /\ rest \in String /\ Len(rest) < Len(x) /\ at \in Places(tag, x)
  BY RestIsShorter
<1>3. Scan[x][inside] = Told(inside, pre, TagSeen(s))
  BY ScanFound
<1>4. at - 1 \in 0 .. Len(x) /\ at + Len(tag) - 1 \in 0 .. Len(x)
  <2> HIDE DEF at, tag
  <2>1. at \in 1 .. (Len(x) - Len(tag) + 1)
    BY <1>1, <1>2, PlaceIs
  <2>2. QED
    BY <1>1, <1>2, <2>1
<1>5. s \in Scanned /\ Incremental(rest, ~inside)
  <2> HIDE DEF rest
  <2>1. QED
    BY <1>2, ScanType
<1>6. pre \in String
  <2> HIDE DEF at
  <2>1. QED
    BY <1>4, Halves
<1>7. Scan[x][inside].buf = s.buf /\ Scan[x][inside].inside = s.inside
  <2> DEFINE u == TagSeen(s)
  <2> HIDE DEF s, pre
  <2>1. u = [text |-> s.text, think |-> s.think, buf |-> s.buf, inside |-> s.inside, seen |-> TRUE] /\ u \in Scanned
    BY <1>5, <1>6, TagSeenIs, ToldType
  <2> HIDE DEF u
  <2>2. Told(inside, pre, u) =
           [text |-> IF inside THEN u.text ELSE pre \o u.text,
            think |-> IF inside THEN pre \o u.think ELSE u.think,
            buf |-> u.buf, inside |-> u.inside, seen |-> u.seen]
    BY <1>6, <2>1, ToldIs
  <2>3. Told(inside, pre, u).buf = u.buf /\ Told(inside, pre, u).inside = u.inside
    BY <2>2
  <2>4. u.buf = s.buf /\ u.inside = s.inside
    BY <2>1
  <2>5. QED
    BY <1>3, <2>3, <2>4 DEF u
<1>8. ASSUME NEW y \in String
      PROVE  Scan[x \o y][inside] = Joined(Scan[x][inside], t(y))
  <2>1. x \o y \in String /\ Places(tag, x \o y) # {} /\ Min(Places(tag, x \o y)) = at
    <3>1. Places(tag, x) # {} /\ Len(tag) > 0
      BY <1>1
    <3>2. x \o y \in String
      BY Concatenated
    <3> HIDE DEF tag, at
    <3>3. Places(tag, x \o y) # {} /\ Min(Places(tag, x \o y)) = Min(Places(tag, x))
      BY <1>1, <3>1, FirstKept
    <3>4. QED
      BY <3>2, <3>3 DEF at
  <2>2. Scan[x \o y][inside] =
          Told(inside, SubSeq(x \o y, 1, at - 1),
               TagSeen(Scan[SubSeq(x \o y, at + Len(tag), Len(x \o y))][~inside]))
    BY <2>1, ScanFound
  <2>3. SubSeq(x \o y, 1, at - 1) = pre
    <3> DEFINE k == at - 1
    <3> HIDE DEF k
    <3>1. SubSeq(x \o y, 1, k) = SubSeq(x, 1, k)
      BY <1>4, PiecesKept DEF k
    <3>2. QED
      BY <3>1 DEF k
  <2>4. SubSeq(x \o y, at + Len(tag), Len(x \o y)) = rest \o y
    <3> DEFINE k == at + Len(tag) - 1
    <3>1. k + 1 = at + Len(tag)
      <4> HIDE DEF at, tag
      <4>1. QED
        BY <1>1, <1>2
    <3> HIDE DEF k
    <3>2. SubSeq(x \o y, k + 1, Len(x \o y)) = SubSeq(x, k + 1, Len(x)) \o y
      BY <1>4, PiecesKept DEF k
    <3>3. QED
      BY <3>1, <3>2
  <2>5. Scan[rest \o y][~inside] = Joined(s, t(y))
    BY <1>5 DEF Incremental
  <2>6. t(y) \in Scanned
    <3> HIDE DEF s
    <3>1. s.buf \in String /\ s.inside \in BOOLEAN
      BY <1>5, ScannedIs
    <3>2. s.buf \o y \in String
      BY <3>1, Concatenated
    <3>3. QED
      BY <3>1, <3>2, ScanType
  <2> HIDE DEF t, s, rest, pre, at, tag
  <2>7. Scan[x \o y][inside] = Told(inside, pre, TagSeen(Joined(s, t(y))))
    BY <2>2, <2>3, <2>4, <2>5
  <2>8. Joined(Told(inside, pre, TagSeen(s)), t(y)) = Told(inside, pre, TagSeen(Joined(s, t(y))))
    BY <1>5, <1>6, <2>6, ToldJoined
  <2>9. QED
    BY <1>3, <2>7, <2>8
<1>9. QED
  BY <1>7, <1>8 DEF Incremental

\* Scan is incremental: a tag, a partial tag or a text is found the same wherever the
\* deltas cut the response, inside a tag and outside.
THEOREM DeltasDoNotMatter == \A x \in String : \A inside \in BOOLEAN : Incremental(x, inside)
<1> DEFINE Good == {x \in String : \A inside \in BOOLEAN : Incremental(x, inside)}
<1>1. ASSUME NEW x \in String, \A y \in String : Len(y) < Len(x) => y \in Good
      PROVE  x \in Good
  <2>1. ASSUME NEW inside \in BOOLEAN
        PROVE  Incremental(x, inside)
    <3>1. \A r \in String : Len(r) < Len(x) => Incremental(r, ~inside)
      BY <1>1
    <3>2. QED
      BY <3>1, NoTagContinues, TagContinues
  <2>2. QED
    BY <2>1
<1>2. String \subseteq Good
  <2> HIDE DEF Good
  <2>1. QED
    BY <1>1, ByLength
<1>3. QED
  BY <1>2

-----------------------------------------------------------------------------
(* Emission changes no data.                                               *)

\* r is s but for what the client has seen and the form of the stream.
SameData(r, s) ==
  /\ IsTranslator(r)
  /\ r.text = s.text /\ r.thinking = s.thinking /\ r.pending = s.pending
  /\ r.chars = s.chars /\ r.inside = s.inside /\ r.buf = s.buf
  /\ r.localStop = s.localStop /\ r.finished = s.finished

\* What keeps the data keeps the fields.
LEMMA DataKept ==
  ASSUME NEW r, NEW s, SameData(r, s)
  PROVE  IsTranslator(r)
  BY DEF SameData

\* One field at a time, whatever it becomes.
LEMMA FormUpdates ==
  ASSUME NEW s, IsTranslator(s), NEW v
  PROVE  /\ SameData([s EXCEPT !.client = v], s)
         /\ SameData([s EXCEPT !.started = v], s)
         /\ SameData([s EXCEPT !.active = v], s)
         /\ SameData([s EXCEPT !.index = v], s)
         /\ SameData([s EXCEPT !.late = v], s)
         /\ SameData([s EXCEPT !.toolUsed = v], s)
         /\ SameData([s EXCEPT !.failed = v], s)
<1>1. SameData([s EXCEPT !.client = v], s)
  BY DEF SameData, IsTranslator
<1>2. SameData([s EXCEPT !.started = v], s)
  BY DEF SameData, IsTranslator
<1>3. SameData([s EXCEPT !.active = v], s)
  BY DEF SameData, IsTranslator
<1>4. SameData([s EXCEPT !.index = v], s)
  BY DEF SameData, IsTranslator
<1>5. SameData([s EXCEPT !.late = v], s)
  BY DEF SameData, IsTranslator
<1>6. SameData([s EXCEPT !.toolUsed = v], s)
  BY DEF SameData, IsTranslator
<1>7. SameData([s EXCEPT !.failed = v], s)
  BY DEF SameData, IsTranslator
<1>8. QED
  BY <1>1, <1>2, <1>3, <1>4, <1>5, <1>6, <1>7

\* Starting, closing and switching blocks leave the data alone.
LEMMA StartData ==
  ASSUME NEW s, IsTranslator(s)
  PROVE  SameData(EnsureStarted(s), s)
<1>1. CASE s.started
  BY <1>1 DEF EnsureStarted, SameData
<1>2. CASE ~s.started
  <2> DEFINE yes == TRUE
             c   == MessageStart(s.client)
             u   == [s EXCEPT !.started = yes]
             r   == [u EXCEPT !.client = c]
  <2>1. EnsureStarted(s) = [s EXCEPT !.started = yes, !.client = c]
    BY <1>2 DEF EnsureStarted
  <2> HIDE DEF yes, c
  <2>2. [s EXCEPT !.started = yes, !.client = c] = r
    OBVIOUS
  <2>3. SameData(u, s)
    BY FormUpdates
  <2> HIDE DEF u
  <2>4. SameData(r, u)
    BY <2>3, DataKept, FormUpdates
  <2> HIDE DEF r
  <2>5. QED
    BY <2>1, <2>2, <2>3, <2>4 DEF SameData
<1>3. QED
  BY <1>1, <1>2

\* Closing a block changes no data.
LEMMA CloseData ==
  ASSUME NEW s, IsTranslator(s)
  PROVE  SameData(CloseActive(s), s)
<1>1. CASE s.active = "none"
  BY <1>1 DEF CloseActive, SameData
<1>2. CASE s.active # "none"
  <2> DEFINE no == "none"
             c  == ContentBlockStop(s.client, s.index)
             u  == [s EXCEPT !.active = no]
             r  == [u EXCEPT !.client = c]
  <2>1. CloseActive(s) = [s EXCEPT !.active = no, !.client = c]
    BY <1>2 DEF CloseActive
  <2> HIDE DEF no, c
  <2>2. [s EXCEPT !.active = no, !.client = c] = r
    OBVIOUS
  <2>3. SameData(u, s)
    BY FormUpdates
  <2> HIDE DEF u
  <2>4. SameData(r, u)
    BY <2>3, DataKept, FormUpdates
  <2> HIDE DEF r
  <2>5. QED
    BY <2>1, <2>2, <2>3, <2>4 DEF SameData
<1>3. QED
  BY <1>1, <1>2

\* Switching to another kind of block changes no data.
LEMMA SwitchData ==
  ASSUME NEW s, IsTranslator(s), NEW kind
  PROVE  SameData(SwitchBlock(s, kind), s)
<1>1. CASE s.active = kind
  BY <1>1 DEF SwitchBlock, SameData
<1>2. CASE s.active # kind
  <2> DEFINE c == CloseActive(s)
             i == c.index + 1
             e == ContentBlockStart(c.client, i, kind)
             u == [c EXCEPT !.index = i]
             v == [u EXCEPT !.active = kind]
             r == [v EXCEPT !.client = e]
  <2>1. SwitchBlock(s, kind) = [c EXCEPT !.index = i, !.active = kind, !.client = e]
    BY <1>2 DEF SwitchBlock
  <2>2. SameData(c, s)
    BY CloseData
  <2> HIDE DEF c, i, e
  <2>3. [c EXCEPT !.index = i, !.active = kind, !.client = e] = r
    OBVIOUS
  <2>4. SameData(u, c)
    BY <2>2, DataKept, FormUpdates
  <2> HIDE DEF u
  <2>5. SameData(v, u)
    BY <2>4, DataKept, FormUpdates
  <2> HIDE DEF v
  <2>6. SameData(r, v)
    BY <2>5, DataKept, FormUpdates
  <2> HIDE DEF r
  <2>7. QED
    BY <2>1, <2>2, <2>3, <2>4, <2>5, <2>6 DEF SameData
<1>3. QED
  BY <1>1, <1>2

\* So does what is emitted.
LEMMA EmitData ==
  ASSUME NEW s, IsTranslator(s), NEW kind, NEW x
  PROVE  SameData(Emit(s, kind, x), s)
<1>1. CASE x = <<>>
  BY <1>1 DEF Emit, SameData
<1>2. CASE x # <<>>
  <2> DEFINE a == EnsureStarted(s)
             b == SwitchBlock(a, kind)
             e == ContentBlockDelta(b.client, b.index, kind)
             r == [b EXCEPT !.client = e]
  <2>1. Emit(s, kind, x) = r
    BY <1>2 DEF Emit
  <2>2. SameData(a, s)
    BY StartData
  <2> HIDE DEF a
  <2>3. SameData(b, a)
    BY <2>2, SwitchData DEF SameData
  <2> HIDE DEF b, e
  <2>4. SameData(r, b)
    BY <2>3, DataKept, FormUpdates
  <2> HIDE DEF r
  <2>5. QED
    BY <2>1, <2>2, <2>3, <2>4 DEF SameData
<1>3. QED
  BY <1>1, <1>2

\* A block that opens and closes at once changes no data.
LEMMA WholeData ==
  ASSUME NEW s, IsTranslator(s), NEW kind
  PROVE  SameData(EmitWhole(s, kind), s)
<1> DEFINE a == EnsureStarted(s)
           b == CloseActive(a)
           i == b.index + 1
           o == ContentBlockStart(b.client, i, kind)
           d == IF kind = "tool_use" THEN ContentBlockDelta(o, i, kind) ELSE o
           e == ContentBlockStop(d, i)
           u == [b EXCEPT !.index = i]
           r == [u EXCEPT !.client = e]
<1>1. EmitWhole(s, kind) = [b EXCEPT !.index = i, !.client = e]
  BY DEF EmitWhole
<1>2. SameData(a, s)
  BY StartData
<1> HIDE DEF a
<1>3. SameData(b, a)
  BY <1>2, CloseData DEF SameData
<1> HIDE DEF b, i, o, d, e
<1>4. [b EXCEPT !.index = i, !.client = e] = r
  OBVIOUS
<1>5. SameData(u, b)
  BY <1>3, DataKept, FormUpdates
<1> HIDE DEF u
<1>6. SameData(r, u)
  BY <1>5, DataKept, FormUpdates
<1> HIDE DEF r
<1>7. QED
  BY <1>1, <1>2, <1>3, <1>4, <1>5, <1>6 DEF SameData

-----------------------------------------------------------------------------
(* The limits.                                                             *)

\* The fields that hold text, budget and stop.
DataType(s) ==
  /\ IsTranslator(s)
  /\ s.text \in String /\ s.thinking \in String /\ s.pending \in String /\ s.buf \in String
  /\ s.chars \in Nat /\ s.inside \in BOOLEAN
  /\ s.localStop \in {"none", "stop_sequence", "max_tokens"}

\* r is s but for the stop, the budget and what is held back.
Limited(r, s) ==
  /\ r.text = s.text /\ r.thinking = s.thinking
  /\ r.inside = s.inside /\ r.buf = s.buf /\ r.finished = s.finished

\* What keeps the data keeps its type.
LEMMA SameDataType ==
  ASSUME NEW r, NEW s, DataType(s), SameData(r, s)
  PROVE  DataType(r)
  BY DEF DataType, SameData

\* A stop latches once.
LEMMA LatchData ==
  ASSUME NEW s, DataType(s), NEW reason \in {"stop_sequence", "max_tokens"}
  PROVE  LET r == Latch(s, reason)
         IN /\ DataType(r) /\ Limited(r, s) /\ r.pending = s.pending /\ r.chars = s.chars
            /\ r.localStop = IF s.localStop = "none" THEN reason ELSE s.localStop
<1>1. CASE s.localStop = "none"
  <2>1. Latch(s, reason) = [s EXCEPT !.localStop = reason]
    BY <1>1 DEF Latch
  <2>2. QED
    BY <1>1, <2>1 DEF DataType, IsTranslator, Limited
<1>2. CASE s.localStop # "none"
  BY <1>2 DEF Latch, Limited
<1>3. QED
  BY <1>1, <1>2

\* The smallest and the largest of two numbers.
LEMMA OfTwo ==
  ASSUME NEW m \in Nat, NEW n \in Nat
  PROVE  /\ Min({m, n}) = IF m <= n THEN m ELSE n
         /\ Max({m, n}) = IF m <= n THEN n ELSE m
<1> DEFINE T == {m, n}
<1>1. T \in SUBSET Nat /\ T # {} /\ \A k \in T : k <= m + n
  OBVIOUS
<1>2. \A k : k \in T <=> k = m \/ k = n
  OBVIOUS
<1> HIDE DEF T
<1>3. Min(T) \in T /\ \A k \in T : Min(T) <= k
  BY <1>1, MinIs
<1>4. m + n \in Nat
  OBVIOUS
<1>5. Max(T) \in T /\ \A k \in T : k <= Max(T)
  BY <1>1, <1>4, MaxIs
<1>6. Min(T) = IF m <= n THEN m ELSE n
  BY <1>2, <1>3
<1>7. Max(T) = IF m <= n THEN n ELSE m
  BY <1>2, <1>5
<1>8. QED
  BY <1>6, <1>7 DEF T

\* What remains of n after k have been taken.
LEMMA Room ==
  ASSUME NEW d \in Int
  PROVE  Max({0, d}) = IF d <= 0 THEN 0 ELSE d
<1>1. CASE d >= 0
  <2>1. d \in Nat
    BY <1>1
  <2>2. QED
    BY <1>1, <2>1, OfTwo
<1>2. CASE d < 0
  <2>1. 0 \in {0, d} /\ \A m \in {0, d} : 0 >= m
    BY <1>2
  <2>2. \A n \in {0, d} : (\A m \in {0, d} : n >= m) => n = 0
    BY <1>2
  <2>3. QED
    BY <1>2, <2>1, <2>2 DEF Max
<1>3. QED
  BY <1>1, <1>2

\* The budget keeps all of x, or a start of x and latches.
LEMMA MaxTokensData ==
  ASSUME NEW s, DataType(s), NEW x \in String
  PROVE  LET c == ApplyMaxTokens(s, x)
         IN /\ DataType(c.self) /\ Limited(c.self, s) /\ c.self.pending = s.pending
            /\ c.out \in String /\ Len(c.out) \in 0 .. Len(x) /\ c.out = SubSeq(x, 1, Len(c.out))
            /\ c.self.chars = s.chars + Len(c.out)
            /\ s.localStop # "none" => c.self.localStop = s.localStop
            /\ s.localStop = "none" => c.self.localStop \in {"none", "max_tokens"}
            /\ c.self.localStop = "none" => c.out = x /\ c.self.chars \div CharsPerToken < Budget
<1> DEFINE room    == Max({0, CharsPerToken * Budget - s.chars})
           n       == Min({Len(x), room})
           kept    == SubSeq(x, 1, n)
           charged == [s EXCEPT !.chars = @ + Len(kept)]
           within  == (s.chars + Len(x)) \div CharsPerToken < Budget
           c       == ApplyMaxTokens(s, x)
<1>1. c = [self |-> IF within THEN charged ELSE Latch(charged, "max_tokens"), out |-> kept]
  BY DEF ApplyMaxTokens
<1>2. Len(x) \in Nat /\ s.chars \in Nat /\ Budget \in Nat
  BY TranslatorAssumption DEF String, DataType
<1>3. room \in Nat /\ room >= 4 * Budget - s.chars
  <2> DEFINE d == CharsPerToken * Budget - s.chars
  <2>1. d \in Int /\ d = 4 * Budget - s.chars
    BY <1>2 DEF CharsPerToken
  <2> HIDE DEF d
  <2>2. Max({0, d}) = IF d <= 0 THEN 0 ELSE d
    BY <2>1, Room
  <2>3. QED
    BY <1>2, <2>1, <2>2 DEF d
<1> HIDE DEF room
<1>4. n \in 0 .. Len(x) /\ (Len(x) <= room => n = Len(x))
  BY <1>2, <1>3, OfTwo
<1> HIDE DEF n
<1>5. kept \in String /\ Len(kept) = n /\ (n = Len(x) => kept = x)
  <2>1. kept \in String /\ Len(kept) = n
    BY <1>4, Halves
  <2>2. SubSeq(x, 1, Len(x)) = x
    BY DEF String
  <2>3. QED
    BY <2>1, <2>2
<1>6. within => kept = x
  <2> SUFFICES ASSUME within
               PROVE  Len(x) <= room
    BY <1>4, <1>5
  <2>1. (s.chars + Len(x)) \div 4 < Budget
    BY DEF CharsPerToken
  <2>2. s.chars + Len(x) < 4 * Budget
    BY <1>2, <2>1
  <2>3. QED
    BY <1>2, <1>3, <2>2
<1>7. kept = SubSeq(x, 1, Len(kept))
  BY <1>5
<1>8. /\ DataType(charged) /\ Limited(charged, s) /\ charged.pending = s.pending
      /\ charged.chars = s.chars + n /\ charged.localStop = s.localStop
  <2> DEFINE m == s.chars + Len(kept)
             r == [s EXCEPT !.chars = m]
  <2>1. m \in Nat /\ m = s.chars + n
    BY <1>2, <1>4, <1>5
  <2>2. charged = r
    OBVIOUS
  <2> HIDE DEF m, kept
  <2>3. /\ DataType(r) /\ Limited(r, s) /\ r.pending = s.pending /\ r.chars = m /\ r.localStop = s.localStop
    BY <2>1 DEF DataType, IsTranslator, Limited
  <2> HIDE DEF r, charged
  <2>4. QED
    BY <2>1, <2>2, <2>3
<1> DEFINE l == Latch(charged, "max_tokens")
<1> HIDE DEF charged, kept, c
<1>9. /\ DataType(l) /\ Limited(l, charged) /\ l.pending = charged.pending /\ l.chars = charged.chars
      /\ l.localStop = IF charged.localStop = "none" THEN "max_tokens" ELSE charged.localStop
  BY <1>8, LatchData
<1> HIDE DEF l
<1>10. c.out = kept /\ c.self = IF within THEN charged ELSE l
  BY <1>1 DEF l
<1>11. /\ DataType(c.self) /\ Limited(c.self, s) /\ c.self.pending = s.pending
       /\ c.self.chars = s.chars + n
       /\ s.localStop # "none" => c.self.localStop = s.localStop
       /\ s.localStop = "none" => c.self.localStop \in {"none", "max_tokens"}
       /\ c.self.localStop = "none" => within
  <2>1. CASE within
    BY <1>8, <1>10, <2>1
  <2>2. CASE ~within
    BY <1>8, <1>9, <1>10, <2>2 DEF Limited
  <2>3. QED
    BY <2>1, <2>2
<1>12. c.self.localStop = "none" => c.out = x /\ c.self.chars \div CharsPerToken < Budget
  <2> SUFFICES ASSUME c.self.localStop = "none"
               PROVE  c.out = x /\ c.self.chars \div CharsPerToken < Budget
    OBVIOUS
  <2>1. within /\ kept = x /\ n = Len(x)
    BY <1>5, <1>6, <1>11
  <2>2. c.self.chars = s.chars + Len(x)
    BY <1>11, <2>1
  <2>3. QED
    BY <1>10, <2>1, <2>2
<1>13. QED
  BY <1>4, <1>5, <1>7, <1>10, <1>11, <1>12 DEF c

-----------------------------------------------------------------------------
(* Stop sequences.                                                         *)

\* t is how x starts.
IsStart(t, x) == Len(t) <= Len(x) /\ t = SubSeq(x, 1, Len(t))

\* Every stop sequence is longer than nothing and not longer than what is held
\* back and one more character.
LEMMA StopIs ==
  /\ StopMaxKeep \in Nat
  /\ \A i \in DOMAIN StopSequences :
       /\ StopSequences[i] \in String /\ Len(StopSequences[i]) \in Nat \ {0}
       /\ Len(StopSequences[i]) <= StopMaxKeep + 1
  /\ DOMAIN StopSequences = 1 .. Len(StopSequences) /\ Len(StopSequences) \in Nat
<1>1. /\ DOMAIN StopSequences = 1 .. Len(StopSequences) /\ Len(StopSequences) \in Nat
      /\ \A i \in DOMAIN StopSequences : StopSequences[i] \in String \ {<<>>}
  BY TranslatorAssumption
<1>2. \A x \in String \ {<<>>} : Len(x) \in Nat \ {0}
  BY DEF String
<1>3. \A i \in DOMAIN StopSequences : StopSequences[i] \in String /\ Len(StopSequences[i]) \in Nat \ {0}
  BY <1>1, <1>2
<1> DEFINE D == DOMAIN StopSequences
           T == {0} \cup {Len(StopSequences[i]) - 1 : i \in D}
<1>4. T \in SUBSET Nat /\ T # {} /\ \A i \in D : Len(StopSequences[i]) - 1 \in T
  BY <1>3
<1>5. \E b \in Nat : \A n \in T : n <= b
  <2> DEFINE N == Len(StopSequences)
             Good == {n \in Nat : n <= N => \E b \in Nat : \A i \in 1 .. n : Len(StopSequences[i]) <= b}
  <2>1. 0 \in Good
    OBVIOUS
  <2>2. ASSUME NEW n \in Nat, n \in Good
        PROVE  n + 1 \in Good
    <3> SUFFICES ASSUME n + 1 <= N
                 PROVE  \E b \in Nat : \A i \in 1 .. (n + 1) : Len(StopSequences[i]) <= b
      OBVIOUS
    <3>1. PICK b \in Nat : \A i \in 1 .. n : Len(StopSequences[i]) <= b
      BY <1>1, <2>2
    <3>2. Len(StopSequences[n + 1]) \in Nat /\ \A i \in 1 .. n : Len(StopSequences[i]) \in Nat
      BY <1>1, <1>3
    <3>3. /\ b + Len(StopSequences[n + 1]) \in Nat
          /\ \A i \in 1 .. (n + 1) : Len(StopSequences[i]) <= b + Len(StopSequences[n + 1])
      BY <3>1, <3>2
    <3>4. QED
      BY <3>3
  <2>3. N \in Good
    <3> HIDE DEF Good
    <3>1. QED
      BY <1>1, <2>1, <2>2, UpTheNaturals
  <2>4. PICK b \in Nat : \A i \in 1 .. N : Len(StopSequences[i]) <= b
    BY <1>1, <2>3
  <2>5. \A n \in T : n <= b
    BY <1>1, <1>3, <2>4
  <2>6. QED
    BY <2>5
<1>6. PICK b \in Nat : \A n \in T : n <= b
  BY <1>5
<1> HIDE DEF T
<1>7. Max(T) \in T /\ \A n \in T : n <= Max(T)
  BY <1>4, <1>6, MaxIs
<1>8. StopMaxKeep = Max(T)
  BY DEF StopMaxKeep, T
<1>9. \A i \in D : Len(StopSequences[i]) - 1 <= StopMaxKeep
  BY <1>4, <1>7, <1>8
<1>10. StopMaxKeep \in Nat
  BY <1>4, <1>7, <1>8
<1>11. QED
  BY <1>1, <1>3, <1>9, <1>10

\* Where the stop sequences stand.
LEMMA StopsAre ==
  ASSUME NEW x \in String
  PROVE  /\ Stops(x) \in SUBSET (1 .. Len(x)) /\ Len(x) \in Nat
         /\ \A k : k \in Stops(x) <=>
              \E i \in DOMAIN StopSequences : k \in Places(StopSequences[i], x)
<1>1. \A k : k \in Stops(x) <=> \E i \in DOMAIN StopSequences : k \in Places(StopSequences[i], x)
  BY DEF Stops
<1>2. \A i \in DOMAIN StopSequences : Places(StopSequences[i], x) \in SUBSET (1 .. Len(x))
  BY StopIs, PlaceIs
<1>3. Len(x) \in Nat
  BY DEF String
<1>4. QED
  BY <1>1, <1>2, <1>3

\* At most one stop sequence: then it is the one that stands there.
SingleStop == Len(StopSequences) <= 1

\* A stop sequence that occurs is the only one of a list of one.
LEMMA SingleStopIs ==
  ASSUME SingleStop, NEW x \in String, Stops(x) # {}
  PROVE  /\ 1 \in DOMAIN StopSequences /\ DOMAIN StopSequences = {1}
         /\ \A y \in String : Stops(y) = Places(StopSequences[1], y)
<1>1. PICK k \in Stops(x) : TRUE
  OBVIOUS
<1>2. PICK i \in DOMAIN StopSequences : k \in Places(StopSequences[i], x)
  BY <1>1, StopsAre
<1>3. DOMAIN StopSequences = {1}
  BY <1>2, StopIs DEF SingleStop
<1>4. \A y \in String : \A j : j \in Stops(y) <=> j \in Places(StopSequences[1], y)
  BY <1>3, StopsAre
<1>5. \A y \in String : Stops(y) \in SUBSET Int /\ Places(StopSequences[1], y) \in SUBSET Int
  BY <1>3, StopsAre, StopIs, PlaceIs
<1>6. QED
  BY <1>3, <1>4

\* The start of a string is shorter, or all of it.
LEMMA StartIs ==
  ASSUME NEW x \in String, NEW n \in 0 .. Len(x)
  PROVE  /\ SubSeq(x, 1, n) \in String /\ Len(SubSeq(x, 1, n)) = n
         /\ IsStart(SubSeq(x, 1, n), x)
<1>1. SubSeq(x, 1, n) \in String /\ Len(SubSeq(x, 1, n)) = n
  BY Halves
<1>2. QED
  BY <1>1 DEF IsStart, String

\* The first part of a concatenation is how it starts.
LEMMA StartsPart ==
  ASSUME NEW x \in String, NEW y \in String
  PROVE  IsStart(x, x \o y)
<1>1. Len(x \o y) = Len(x) + Len(y) /\ Len(x) \in Nat /\ Len(y) \in Nat
  BY Concatenated
<1>2. SubSeq(x \o y, 1, Len(x)) = x
  BY Parts
<1>3. QED
  BY <1>1, <1>2 DEF IsStart

\* A short start of x is a start of every longer start of x.
LEMMA StartOfStart ==
  ASSUME NEW x \in String, NEW t \in String, NEW n \in 0 .. Len(x), IsStart(t, x), Len(t) <= n
  PROVE  IsStart(t, SubSeq(x, 1, n))
<1> DEFINE u == SubSeq(x, 1, n)
           v == SubSeq(x, n + 1, Len(x))
           k == Len(t)
<1>1. u \in String /\ v \in String /\ Len(u) = n /\ x = u \o v /\ k \in 0 .. Len(u)
  <2>1. u \in String /\ v \in String /\ Len(u) = n /\ x = u \o v
    BY Halves
  <2>2. k \in 0 .. n
    BY DEF String
  <2> HIDE DEF u, v, k
  <2>3. QED
    BY <2>1, <2>2
<1> HIDE DEF u, v, k
<1>2. SubSeq(u \o v, 1, k) = SubSeq(u, 1, k)
  BY <1>1, PiecesKept
<1>3. QED
  BY <1>1, <1>2 DEF IsStart, u, k

\* A start of x is a start of all that x starts.
LEMMA StartExtends ==
  ASSUME NEW x \in String, NEW y \in String, NEW t \in String, IsStart(t, x)
  PROVE  IsStart(t, x \o y)
<1>1. Len(t) \in 0 .. Len(x) /\ Len(x) \in Nat
  BY DEF IsStart, String
<1>2. SubSeq(x \o y, 1, Len(t)) = SubSeq(x, 1, Len(t))
  BY <1>1, PiecesKept
<1>3. Len(x \o y) >= Len(x)
  BY Concatenated
<1>4. Len(x \o y) \in Nat /\ Len(t) \in Nat
  BY Concatenated, <1>1
<1>5. QED
  BY <1>1, <1>2, <1>3, <1>4 DEF IsStart

\* When all of it was held back, the stop sequences in what arrives are those
\* in what is held back and what arrives.
LEMMA StopsPast ==
  ASSUME NEW t \in String, NEW p \in String, NEW y \in String,
         Stops(t \o p) = {}, t # <<>> => Len(p) >= StopMaxKeep
  PROVE  \A k \in Int : k \in Stops(t \o (p \o y)) <=> k - Len(t) \in Stops(p \o y)
<1> DEFINE h == p \o y
           z == t \o h
           x == t \o p
<1>1. /\ h \in String /\ Len(p) \in Nat /\ Len(y) \in Nat /\ Len(h) = Len(p) + Len(y)
  BY Concatenated
<1> HIDE DEF h
<1>2. /\ z \in String /\ Len(t) \in Nat /\ Len(z) = Len(t) + Len(h)
      /\ \A i \in 1 .. Len(h) : z[Len(t) + i] = h[i]
  BY <1>1, Concatenated
<1>3. x \in String /\ Len(x) = Len(t) + Len(p)
  BY Concatenated
<1>4. z = x \o y
  BY Associates DEF h
<1>5. \A i \in 1 .. Len(x) : z[i] = x[i]
  BY <1>3, <1>4, Concatenated
<1> HIDE DEF z, x
<1>6. ASSUME NEW q \in String, Len(q) \in Nat \ {0}, NEW k \in Int, k - Len(t) \in Places(q, h)
      PROVE  k \in Places(q, z)
  <2> DEFINE j == k - Len(t)
  <2>1. j \in Places(q, h) /\ j \in Int /\ k = Len(t) + j
    BY <1>2, <1>6
  <2> HIDE DEF j
  <2>2. j \in 1 .. (Len(h) - Len(q) + 1) /\ \A i \in 1 .. Len(q) : h[j + i - 1] = q[i]
    BY <1>1, <2>1, PlaceIs
  <2>3. k \in 1 .. (Len(z) - Len(q) + 1)
    BY <1>1, <1>2, <1>6, <2>1, <2>2
  <2>4. ASSUME NEW i \in 1 .. Len(q)
        PROVE  z[k + i - 1] = q[i]
    <3>1. j + i - 1 \in 1 .. Len(h) /\ k + i - 1 = Len(t) + (j + i - 1)
      BY <1>1, <1>2, <1>6, <2>1, <2>2
    <3>2. QED
      BY <1>2, <2>2, <3>1
  <2>5. QED
    BY <1>2, <2>3, <2>4, PlaceIs
<1>7. ASSUME NEW q \in String, Len(q) \in Nat \ {0}, Len(q) <= StopMaxKeep + 1, Places(q, x) = {},
             NEW k \in Int, k \in Places(q, z)
      PROVE  k - Len(t) \in Places(q, h)
  <2>1. k \in 1 .. (Len(z) - Len(q) + 1) /\ \A i \in 1 .. Len(q) : z[k + i - 1] = q[i]
    BY <1>2, <1>7, PlaceIs
  <2>2. k > Len(t)
    <3> SUFFICES ASSUME k <= Len(t)
                 PROVE  FALSE
      BY <1>2, <2>1
    <3>1. t # <<>> /\ Len(t) > 0
      BY <1>2, <2>1
    <3>2. k + Len(q) - 1 <= Len(x)
      BY <1>1, <1>2, <1>3, <1>7, <3>1, StopIs
    <3>3. k \in 1 .. (Len(x) - Len(q) + 1)
      BY <1>1, <1>2, <1>3, <1>7, <2>1, <3>2
    <3>4. \A i \in 1 .. Len(q) : k + i - 1 \in 1 .. Len(x)
      BY <1>1, <1>2, <1>3, <1>7, <3>3
    <3>5. \A i \in 1 .. Len(q) : x[k + i - 1] = q[i]
      BY <1>5, <2>1, <3>4
    <3>6. k \in Places(q, x)
      BY <1>3, <3>3, <3>5, PlaceIs
    <3>7. QED
      BY <1>7, <3>6
  <2> DEFINE j == k - Len(t)
  <2>3. j \in 1 .. (Len(h) - Len(q) + 1) /\ k = Len(t) + j
    BY <1>1, <1>2, <1>7, <2>1, <2>2
  <2> HIDE DEF j
  <2>4. ASSUME NEW i \in 1 .. Len(q)
        PROVE  h[j + i - 1] = q[i]
    <3>1. j + i - 1 \in 1 .. Len(h) /\ k + i - 1 = Len(t) + (j + i - 1)
      BY <1>1, <1>2, <1>7, <2>3
    <3>2. QED
      BY <1>2, <2>1, <3>1
  <2>5. j \in Places(q, h)
    BY <1>1, <2>3, <2>4, PlaceIs
  <2>6. QED
    BY <2>5 DEF j
<1>8. \A i \in DOMAIN StopSequences :
        Places(StopSequences[i], x) = {}
  BY <1>3, StopsAre DEF x
<1>9. ASSUME NEW k \in Int
      PROVE  k \in Stops(z) <=> k - Len(t) \in Stops(h)
  <2>1. ASSUME k \in Stops(z)
        PROVE  k - Len(t) \in Stops(h)
    <3>1. PICK i \in DOMAIN StopSequences : k \in Places(StopSequences[i], z)
      BY <1>2, <2>1, StopsAre
    <3>2. k - Len(t) \in Places(StopSequences[i], h)
      BY <1>7, <1>8, <3>1, StopIs
    <3>3. QED
      BY <1>1, <3>2, StopsAre
  <2>2. ASSUME k - Len(t) \in Stops(h)
        PROVE  k \in Stops(z)
    <3>1. PICK i \in DOMAIN StopSequences : k - Len(t) \in Places(StopSequences[i], h)
      BY <1>1, <2>2, StopsAre
    <3>2. k \in Places(StopSequences[i], z)
      BY <1>6, <3>1, StopIs
    <3>3. QED
      BY <1>2, <3>2, StopsAre
  <2>3. QED
    BY <2>1, <2>2
<1>10. QED
  BY <1>9 DEF z, h

\* The earliest of the stop sequences in x.
LEMMA FirstStop ==
  ASSUME NEW x \in String, Stops(x) # {}
  PROVE  /\ Min(Stops(x)) \in Stops(x) /\ Min(Stops(x)) \in 1 .. Len(x)
         /\ \A k \in Stops(x) : Min(Stops(x)) <= k
<1>1. Stops(x) \in SUBSET (1 .. Len(x)) /\ Len(x) \in Nat
  BY StopsAre
<1>2. Stops(x) \in SUBSET Nat
  BY <1>1
<1>3. QED
  BY <1>1, <1>2, MinIs

\* The cut at the only stop sequence does not move when more arrives.
LEMMA CutStays ==
  ASSUME SingleStop, NEW z \in String, NEW e \in String, Stops(z) # {}
  PROVE  CutAtStop(z \o e) = CutAtStop(z)
<1> DEFINE q == StopSequences[1]
           m == Min(Stops(z))
<1>1. q \in String /\ Len(q) > 0 /\ z \o e \in String
  <2>1. 1 \in DOMAIN StopSequences
    BY SingleStopIs
  <2>2. QED
    BY <2>1, StopIs, Concatenated
<1>2. Stops(z) = Places(q, z) /\ Stops(z \o e) = Places(q, z \o e)
  BY <1>1, SingleStopIs
<1>3. Stops(z \o e) # {} /\ Min(Stops(z \o e)) = m
  <2> HIDE DEF q
  <2>1. Places(q, z) # {}
    BY <1>2
  <2>2. Places(q, z \o e) # {} /\ Min(Places(q, z \o e)) = Min(Places(q, z))
    BY <1>1, <2>1, FirstKept
  <2>3. QED
    BY <1>2, <2>2
<1>4. m \in 1 .. Len(z) /\ Len(z) \in Nat
  BY FirstStop, Concatenated
<1> HIDE DEF m
<1> DEFINE k == m - 1
<1>5. k \in 0 .. Len(z)
  BY <1>4
<1> HIDE DEF k
<1>6. SubSeq(z \o e, 1, k) = SubSeq(z, 1, k)
  BY <1>5, PiecesKept
<1>7. QED
  BY <1>3, <1>6 DEF CutAtStop, m, k

\* A text that is followed by all that a stop sequence may need is no longer
\* than the cut, whatever arrives.
LEMMA Guarded ==
  ASSUME NEW z \in String, NEW t \in String, NEW e \in String, IsStart(t, z), Stops(z) = {},
         t # <<>> => Len(t) + StopMaxKeep <= Len(z)
  PROVE  IsStart(t, CutAtStop(z \o e))
<1> DEFINE y == z \o e
           m == Min(Stops(y))
<1>1. /\ y \in String /\ Len(z) \in Nat /\ Len(e) \in Nat /\ Len(y) = Len(z) + Len(e)
      /\ \A i \in 1 .. Len(z) : y[i] = z[i]
  BY Concatenated
<1>2. IsStart(t, y)
  BY StartExtends
<1> HIDE DEF y
<1>3. CASE Stops(y) = {}
  BY <1>2, <1>3 DEF CutAtStop, y
<1>4. CASE Stops(y) # {}
  <2>1. m \in Stops(y) /\ m \in 1 .. Len(y)
    BY <1>1, <1>4, FirstStop
  <2> HIDE DEF m
  <2>2. PICK i \in DOMAIN StopSequences : m \in Places(StopSequences[i], y)
    BY <1>1, <2>1, StopsAre
  <2> DEFINE q == StopSequences[i]
  <2>3. q \in String /\ Len(q) \in Nat \ {0} /\ Len(q) <= StopMaxKeep + 1 /\ StopMaxKeep \in Nat
    BY StopIs
  <2>4. Places(q, z) = {}
    BY StopsAre
  <2>5. m \in Places(q, y)
    BY <2>2
  <2> HIDE DEF q
  <2>6. m \in 1 .. (Len(y) - Len(q) + 1) /\ \A j \in 1 .. Len(q) : y[m + j - 1] = q[j]
    <3>1. y \in String /\ q \in String
      BY <1>1, <2>3
    <3>2. QED
      BY <2>5, <3>1, PlaceIs
  <2>7. Len(t) \in Nat
    BY DEF String
  <2>8. Len(t) <= m - 1
    <3> SUFFICES ASSUME m <= Len(t)
                 PROVE  FALSE
      BY <2>1, <2>7
    <3>1. t # <<>>
      BY <2>1, <2>7
    <3>2. m \in 1 .. (Len(z) - Len(q) + 1)
      BY <1>1, <2>1, <2>3, <2>7, <3>1
    <3>3. \A j \in 1 .. Len(q) : m + j - 1 \in 1 .. Len(z)
      BY <1>1, <2>3, <3>2
    <3>4. \A j \in 1 .. Len(q) : z[m + j - 1] = q[j]
      BY <1>1, <2>6, <3>3
    <3>5. m \in Places(q, z)
      BY <2>3, <3>2, <3>4, PlaceIs
    <3>6. QED
      BY <2>4, <3>5
  <2> DEFINE n == m - 1
  <2>9. n \in 0 .. Len(y) /\ Len(t) <= n
    BY <1>1, <2>1, <2>8
  <2> HIDE DEF n
  <2>10. IsStart(t, SubSeq(y, 1, n))
    BY <1>1, <1>2, <2>9, StartOfStart
  <2>11. QED
    BY <1>4, <2>10 DEF CutAtStop, y, m, n
<1>5. QED
  BY <1>3, <1>4

\* The filter cuts at a stop sequence, or splits what it holds.
LEMMA StopFilterData ==
  ASSUME NEW s, DataType(s), NEW x \in String
  PROVE  LET f    == ApplyStopFilter(s, x)
             held == s.pending \o x
         IN /\ DataType(f.self) /\ Limited(f.self, s) /\ f.self.chars = s.chars
            /\ f.out \in String
            /\ Stops(held) # {} =>
                 /\ f.self.localStop = IF s.localStop = "none" THEN "stop_sequence" ELSE s.localStop
                 /\ \E i \in Stops(held) : f.out = SubSeq(held, 1, i - 1)
                 /\ SingleStop => f.out = SubSeq(held, 1, Min(Stops(held)) - 1)
            /\ Stops(held) = {} =>
                 /\ f.self.localStop = s.localStop
                 /\ f.out \o f.self.pending = held
                 /\ f.out # <<>> => Len(f.self.pending) >= StopMaxKeep
<1> DEFINE held  == s.pending \o x
           hits  == {i \in DOMAIN StopSequences : Places(StopSequences[i], held) # {}}
           empty == [s EXCEPT !.pending = <<>>]
           cut   == SubSeq(held, 1, Min(Places(StopSequences[Min(hits)], held)) - 1)
           split == Max({0, Len(held) - StopMaxKeep})
           rest  == SubSeq(held, split + 1, Len(held))
           later == [s EXCEPT !.pending = rest]
           f     == ApplyStopFilter(s, x)
<1>1. f = IF hits # {}
          THEN [self |-> Latch(empty, "stop_sequence"), out |-> cut]
          ELSE [self |-> later, out |-> SubSeq(held, 1, split)]
  BY DEF ApplyStopFilter, StopFilterKeeping
<1>2. held \in String /\ Len(held) \in Nat
  <2>1. s.pending \in String
    BY DEF DataType
  <2>2. held \in String
    BY <2>1, Concatenated
  <2> HIDE DEF held
  <2>3. QED
    BY <2>2 DEF String
<1> HIDE DEF held
<1>3. hits # {} <=> Stops(held) # {}
  BY <1>2, StopsAre
<1>4. ASSUME NEW p \in String
      PROVE  LET r == [s EXCEPT !.pending = p]
             IN /\ DataType(r) /\ Limited(r, s) /\ r.pending = p
                /\ r.chars = s.chars /\ r.localStop = s.localStop
  BY DEF DataType, IsTranslator, Limited
<1>5. CASE hits # {}
  <2> DEFINE h == Min(hits)
             q == StopSequences[h]
             m == Min(Places(q, held))
             l == Latch(empty, "stop_sequence")
  <2>1. h \in hits
    <3>1. hits \in SUBSET Nat
      BY StopIs
    <3> HIDE DEF hits
    <3>2. QED
      BY <1>5, <3>1, MinIs
  <2>2. h \in DOMAIN StopSequences /\ Places(q, held) # {}
    BY <2>1
  <2> HIDE DEF hits, h
  <2>3. q \in String /\ Len(q) > 0
    BY <2>2, StopIs
  <2>4. m \in Places(q, held) /\ m \in Stops(held) /\ m \in 1 .. Len(held)
    <3>1. Places(q, held) \in SUBSET (1 .. Len(held))
      BY <1>2, <2>3, PlaceIs
    <3>2. Places(q, held) \in SUBSET Nat
      BY <3>1
    <3>3. m \in Places(q, held)
      BY <2>2, <3>2, MinIs
    <3>4. QED
      BY <1>2, <2>2, <3>1, <3>3, StopsAre
  <2>5. SingleStop => Places(q, held) = Stops(held)
    <3> SUFFICES ASSUME SingleStop
                 PROVE  Places(q, held) = Stops(held)
      OBVIOUS
    <3>1. Stops(held) # {}
      BY <2>4
    <3>2. h = 1 /\ Stops(held) = Places(StopSequences[1], held)
      BY <1>2, <2>2, <3>1, SingleStopIs
    <3>3. QED
      BY <3>2
  <2>6. f.self = l /\ f.out = SubSeq(held, 1, m - 1)
    <3> DEFINE c == cut
    <3>1. c = SubSeq(held, 1, m - 1)
      BY DEF h
    <3> HIDE DEF c, l, f, later, split
    <3>2. f = [self |-> l, out |-> c]
      BY <1>1, <1>5 DEF c, l
    <3>3. QED
      BY <3>1, <3>2
  <2> HIDE DEF q, m, f
  <2>7. /\ DataType(empty) /\ Limited(empty, s) /\ empty.chars = s.chars /\ empty.localStop = s.localStop
    BY <1>4, EmptyIsNeutral
  <2> HIDE DEF empty
  <2>8. /\ DataType(l) /\ Limited(l, empty) /\ l.chars = empty.chars
        /\ l.localStop = IF empty.localStop = "none" THEN "stop_sequence" ELSE empty.localStop
    BY <2>7, LatchData
  <2> HIDE DEF l
  <2>9. f.out \in String
    <3> DEFINE k == m - 1
    <3>1. k \in 0 .. Len(held)
      BY <1>2, <2>4
    <3> HIDE DEF k
    <3>2. SubSeq(held, 1, k) \in String
      BY <1>2, <3>1, Halves
    <3>3. QED
      BY <2>6, <3>2 DEF k
  <2>10. /\ DataType(f.self) /\ Limited(f.self, s) /\ f.self.chars = s.chars
         /\ f.self.localStop = IF s.localStop = "none" THEN "stop_sequence" ELSE s.localStop
    BY <2>6, <2>7, <2>8 DEF Limited
  <2>11. Stops(held) # {} /\ (\E i \in Stops(held) : f.out = SubSeq(held, 1, i - 1))
    BY <2>4, <2>6
  <2>12. SingleStop => f.out = SubSeq(held, 1, Min(Stops(held)) - 1)
    BY <2>5, <2>6 DEF m
  <2>13. QED
    BY <2>9, <2>10, <2>11, <2>12 DEF f, held
<1>6. CASE hits = {}
  <2> DEFINE out == SubSeq(held, 1, split)
             d   == Len(held) - StopMaxKeep
  <2>1. f.self = later /\ f.out = out
    <3> HIDE DEF hits, later, empty, cut, out, f
    <3>1. f = [self |-> later, out |-> out]
      BY <1>1, <1>6 DEF out
    <3>2. QED
      BY <3>1
  <2>2. d \in Int /\ StopMaxKeep \in Nat
    BY <1>2, StopIs
  <2>3. split \in 0 .. Len(held) /\ (split # 0 => Len(held) - split = StopMaxKeep)
    <3>1. Max({0, d}) = IF d <= 0 THEN 0 ELSE d
      BY <2>2, Room
    <3>2. QED
      BY <1>2, <2>2, <3>1
  <2> HIDE DEF split, d
  <2>4. out \in String /\ rest \in String /\ Len(out) = split /\ Len(rest) = Len(held) - split /\ held = out \o rest
    BY <1>2, <2>3, Halves
  <2> HIDE DEF out, rest
  <2>5. /\ DataType(later) /\ Limited(later, s) /\ later.pending = rest
        /\ later.chars = s.chars /\ later.localStop = s.localStop
    BY <1>4, <2>4
  <2>6. out # <<>> => split # 0
    BY <2>4 DEF String
  <2> HIDE DEF later, f, hits
  <2>7. out # <<>> => Len(rest) >= StopMaxKeep
    BY <2>2, <2>3, <2>4, <2>6
  <2>8. Stops(held) = {}
    BY <1>3, <1>6
  <2>9. QED
    BY <2>1, <2>4, <2>5, <2>7, <2>8 DEF f, held
<1>7. QED
  BY <1>5, <1>6

-----------------------------------------------------------------------------
(* What was said, what is held back and what is charged.                   *)

\* While no stop has latched: x has been said or is held back, as much as a
\* stop sequence may need, and no stop sequence is in it.
Follows(s, x) ==
  /\ s.text \o s.pending = x
  /\ Stops(x) = {}
  /\ s.text # <<>> => Len(s.pending) >= StopMaxKeep

\* Once one has: what was said starts x, and ends at the stop, whatever follows x.
Ends(s, x) ==
  \A e \in String :
    /\ IsStart(s.text, x \o e)
    /\ SingleStop => IsStart(s.text, CutAtStop(x \o e))
    /\ SingleStop /\ s.localStop = "stop_sequence" => s.text = CutAtStop(x \o e)

Progress(s, x) == IF s.localStop = "none" THEN Follows(s, x) ELSE Ends(s, x)

Charged(s) ==
  s.localStop = "none" =>
    /\ Len(s.text) + Len(s.thinking) <= s.chars
    /\ s.chars \div CharsPerToken < Budget

\* What was said before the budget ran out.
LEMMA StartEnds ==
  ASSUME NEW s, DataType(s), NEW x \in String, s.localStop # "stop_sequence",
         IsStart(s.text, x), Stops(x) = {},
         s.text # <<>> => Len(s.text) + StopMaxKeep <= Len(x)
  PROVE  Ends(s, x)
<1>1. s.text \in String
  BY DEF DataType
<1>2. \A e \in String : IsStart(s.text, x \o e)
  BY <1>1, StartExtends
<1>3. \A e \in String : IsStart(s.text, CutAtStop(x \o e))
  BY <1>1, Guarded
<1>4. QED
  BY <1>2, <1>3 DEF Ends

\* What was said when the budget runs out stays a start, whatever follows.
LEMMA FollowsEnds ==
  ASSUME NEW s, DataType(s), NEW x \in String, s.localStop # "stop_sequence", Follows(s, x)
  PROVE  Ends(s, x)
<1>1. s.text \in String /\ s.pending \in String /\ x = s.text \o s.pending
  BY DEF DataType, Follows
<1>2. IsStart(s.text, x)
  BY <1>1, StartsPart
<1>3. s.text # <<>> => Len(s.text) + StopMaxKeep <= Len(x)
  <2>1. Len(x) = Len(s.text) + Len(s.pending) /\ Len(s.text) \in Nat /\ Len(s.pending) \in Nat
    BY <1>1, Concatenated
  <2>2. QED
    BY <2>1, StopIs DEF Follows
<1>4. QED
  BY <1>2, <1>3, StartEnds DEF Follows

\* The cut of what ends at its first stop sequence.
LEMMA CutEnds ==
  ASSUME NEW s, NEW x \in String, NEW t \in String, s.text = t, Stops(x) # {}, IsStart(t, x),
         SingleStop => t = SubSeq(x, 1, Min(Stops(x)) - 1)
  PROVE  Ends(s, x)
<1>1. \A e \in String : IsStart(s.text, x \o e)
  BY StartExtends
<1>2. ASSUME SingleStop, NEW e \in String
      PROVE  s.text = CutAtStop(x \o e)
  <2>1. CutAtStop(x \o e) = CutAtStop(x)
    BY <1>2, CutStays
  <2>2. QED
    BY <1>2, <2>1 DEF CutAtStop
<1>3. IsStart(t, t)
  BY DEF IsStart, String
<1>4. QED
  BY <1>1, <1>2, <1>3 DEF Ends

\* r is t with another text and another thought.
Became(r, t, text, thinking) ==
  /\ DataType(r) /\ r.text = text /\ r.thinking = thinking /\ r.pending = t.pending
  /\ r.chars = t.chars /\ r.inside = t.inside /\ r.buf = t.buf
  /\ r.localStop = t.localStop /\ r.finished = t.finished

\* Saying something changes what was said.
LEMMA TextUpdate ==
  ASSUME NEW t, DataType(t), NEW v \in String, NEW w
  PROVE  Became([t EXCEPT !.text = v, !.late = w], t, v, t.thinking)
<1> DEFINE u == [t EXCEPT !.text = v]
           r == [u EXCEPT !.late = w]
<1>1. [t EXCEPT !.text = v, !.late = w] = r
  OBVIOUS
<1>2. /\ DataType(u) /\ u.text = v /\ u.thinking = t.thinking /\ u.pending = t.pending
      /\ u.chars = t.chars /\ u.inside = t.inside /\ u.buf = t.buf
      /\ u.localStop = t.localStop /\ u.finished = t.finished
  BY DEF DataType, IsTranslator
<1> HIDE DEF u
<1>3. IsTranslator(u)
  BY <1>2 DEF DataType
<1>4. SameData(r, u)
  BY <1>3, FormUpdates
<1> HIDE DEF r
<1>5. DataType(r)
  BY <1>2, <1>4, SameDataType
<1>6. QED
  BY <1>1, <1>2, <1>4, <1>5 DEF SameData, Became

\* Thinking something changes what was thought.
LEMMA ThoughtUpdate ==
  ASSUME NEW t, DataType(t), NEW v \in String, NEW w
  PROVE  Became([t EXCEPT !.thinking = v, !.late = w], t, t.text, v)
<1> DEFINE u == [t EXCEPT !.thinking = v]
           r == [u EXCEPT !.late = w]
<1>1. [t EXCEPT !.thinking = v, !.late = w] = r
  OBVIOUS
<1>2. /\ DataType(u) /\ u.text = t.text /\ u.thinking = v /\ u.pending = t.pending
      /\ u.chars = t.chars /\ u.inside = t.inside /\ u.buf = t.buf
      /\ u.localStop = t.localStop /\ u.finished = t.finished
  BY DEF DataType, IsTranslator
<1> HIDE DEF u
<1>3. IsTranslator(u)
  BY <1>2 DEF DataType
<1>4. SameData(r, u)
  BY <1>3, FormUpdates
<1> HIDE DEF r
<1>5. DataType(r)
  BY <1>2, <1>4, SameDataType
<1>6. QED
  BY <1>1, <1>2, <1>4, <1>5 DEF SameData, Became

\* A charge of n covers n more characters of text or of thought.
LEMMA Adds ==
  ASSUME NEW a \in Nat, NEW b \in Nat, NEW n \in Nat, NEW c \in Nat, a + b <= c
  PROVE  a + (b + n) <= c + n /\ (a + n) + b <= c + n
  OBVIOUS

\* A thought is charged, and no text.
LEMMA ThinkData ==
  ASSUME NEW s, DataType(s), NEW x \in String
  PROVE  LET r == Think(s, x)
         IN /\ DataType(r)
            /\ r.text = s.text /\ r.pending = s.pending /\ r.inside = s.inside /\ r.buf = s.buf
            /\ r.finished = s.finished
            /\ s.localStop # "none" => r.localStop = s.localStop
            /\ s.localStop = "none" => r.localStop \in {"none", "max_tokens"}
            /\ Charged(s) => Charged(r)
<1> DEFINE c    == ApplyMaxTokens(s, x)
           t    == c.self
           all  == t.thinking \o c.out
           late == IsLate(s, c.out)
           b    == [t EXCEPT !.thinking = all, !.late = late]
           r    == Emit(b, "thinking", c.out)
<1>1. Think(s, x) = r
  BY DEF Think
<1>2. /\ DataType(t) /\ Limited(t, s) /\ t.pending = s.pending
      /\ c.out \in String /\ Len(c.out) \in 0 .. Len(x)
      /\ t.chars = s.chars + Len(c.out)
      /\ s.localStop # "none" => t.localStop = s.localStop
      /\ s.localStop = "none" => t.localStop \in {"none", "max_tokens"}
      /\ t.localStop = "none" => t.chars \div CharsPerToken < Budget
  BY MaxTokensData
<1> HIDE DEF c, t
<1>3. t.thinking \in String /\ s.thinking \in String /\ s.text \in String
  BY <1>2 DEF DataType
<1>4. all \in String /\ Len(all) = Len(t.thinking) + Len(c.out)
  BY <1>2, <1>3, Concatenated
<1> HIDE DEF all, late
<1>5. /\ DataType(b) /\ b.text = t.text /\ b.thinking = all /\ b.pending = t.pending
      /\ b.chars = t.chars /\ b.inside = t.inside /\ b.buf = t.buf
      /\ b.localStop = t.localStop /\ b.finished = t.finished
  <2>1. DataType(t) /\ all \in String
    BY <1>2, <1>4
  <2>2. Became(b, t, t.text, all)
    BY <2>1, ThoughtUpdate, Zenon
  <2> HIDE DEF b
  <2>3. QED
    BY <2>2 DEF Became
<1> HIDE DEF b
<1>6. SameData(r, b)
  <2>1. IsTranslator(b)
    BY <1>5 DEF DataType
  <2>2. QED
    BY <2>1, EmitData
<1> HIDE DEF r
<1>7. DataType(r)
  BY <1>5, <1>6, SameDataType
<1>8. ASSUME Charged(s)
      PROVE  Charged(r)
  <2> SUFFICES ASSUME r.localStop = "none"
               PROVE  Len(r.text) + Len(r.thinking) <= r.chars /\ r.chars \div CharsPerToken < Budget
    BY DEF Charged
  <2>1. r.text = s.text /\ r.thinking = all /\ r.chars = s.chars + Len(c.out) /\ t.localStop = "none"
        /\ r.chars = t.chars
    BY <1>2, <1>5, <1>6 DEF SameData, Limited
  <2>2. s.localStop = "none"
    BY <1>2, <2>1
  <2>3. Len(s.text) + Len(s.thinking) <= s.chars
    BY <1>8, <2>2 DEF Charged
  <2>4. t.thinking = s.thinking
    BY <1>2 DEF Limited
  <2>5. Len(s.text) \in Nat /\ Len(s.thinking) \in Nat /\ Len(c.out) \in Nat /\ s.chars \in Nat
    BY <1>2, <1>3 DEF String, DataType
  <2>6. Len(r.text) = Len(s.text) /\ Len(r.thinking) = Len(s.thinking) + Len(c.out)
    BY <1>4, <2>1, <2>4
  <2>7. t.chars \div CharsPerToken < Budget
    BY <1>2, <2>1
  <2>8. Len(r.text) + Len(r.thinking) <= r.chars
    BY <2>1, <2>3, <2>5, <2>6, Adds
  <2>9. QED
    BY <2>1, <2>7, <2>8
<1>9. QED
  BY <1>1, <1>2, <1>5, <1>6, <1>7, <1>8 DEF SameData, Limited

\* What the filter lets through follows what was said, or ends it.
LEMMA FilterFollows ==
  ASSUME NEW s, DataType(s), NEW x \in String, NEW y \in String, Follows(s, x)
  PROVE  LET f    == ApplyStopFilter(s, y)
             said == s.text \o f.out
         IN /\ said \in String /\ IsStart(said, x \o y)
            /\ Stops(x \o y) # {} =>
                 /\ f.self.localStop = IF s.localStop = "none" THEN "stop_sequence" ELSE s.localStop
                 /\ SingleStop => said = SubSeq(x \o y, 1, Min(Stops(x \o y)) - 1)
            /\ Stops(x \o y) = {} =>
                 /\ f.self.localStop = s.localStop
                 /\ said \o f.self.pending = x \o y
                 /\ said # <<>> => Len(f.self.pending) >= StopMaxKeep
<1> DEFINE f    == ApplyStopFilter(s, y)
           held == s.pending \o y
           said == s.text \o f.out
           z    == x \o y
           o    == f.out
           p    == f.self.pending
<1>1. /\ s.text \in String /\ s.pending \in String /\ x = s.text \o s.pending
      /\ Stops(s.text \o s.pending) = {} /\ (s.text # <<>> => Len(s.pending) >= StopMaxKeep)
  BY DEF DataType, Follows
<1>2. held \in String /\ z = s.text \o held /\ z \in String
  <2>1. held \in String
    BY <1>1, Concatenated
  <2>2. (s.text \o s.pending) \o y = s.text \o (s.pending \o y)
    BY <1>1, Associates
  <2>3. QED
    BY <1>1, <2>1, <2>2, Concatenated
<1>3. /\ DataType(f.self) /\ o \in String
      /\ Stops(held) # {} =>
           /\ f.self.localStop = IF s.localStop = "none" THEN "stop_sequence" ELSE s.localStop
           /\ \E i \in Stops(held) : o = SubSeq(held, 1, i - 1)
           /\ SingleStop => o = SubSeq(held, 1, Min(Stops(held)) - 1)
      /\ Stops(held) = {} =>
           /\ f.self.localStop = s.localStop
           /\ o \o p = held
           /\ o # <<>> => Len(p) >= StopMaxKeep
  BY StopFilterData
<1>4. \A k \in Int : k \in Stops(z) <=> k - Len(s.text) \in Stops(held)
  <2>1. \A k \in Int : k \in Stops(s.text \o held) <=> k - Len(s.text) \in Stops(held)
    BY <1>1, StopsPast
  <2>2. QED
    BY <1>2, <2>1
<1>5. p \in String
  BY <1>3 DEF DataType
<1>6. Stops(held) \in SUBSET (1 .. Len(held)) /\ Stops(z) \in SUBSET (1 .. Len(z))
      /\ Len(held) \in Nat /\ Len(z) \in Nat /\ Len(s.text) \in Nat
  <2> HIDE DEF held, z
  <2>1. QED
    BY <1>1, <1>2, StopsAre DEF String
<1> HIDE DEF f, held, z, o, p
<1>11. ASSUME NEW i \in Stops(held)
       PROVE  Len(s.text) + i \in Stops(z)
  <2> DEFINE k == Len(s.text) + i
  <2>1. k \in Int /\ k - Len(s.text) = i
    BY <1>6
  <2> HIDE DEF k
  <2>2. k \in Stops(z)
    BY <1>4, <2>1
  <2>3. QED
    BY <2>2 DEF k
<1>12. o \in String
  BY <1>3
<1>7. said \in String /\ said = s.text \o o
  BY <1>1, <1>3, Concatenated DEF o
<1> HIDE DEF said
<1>8. CASE Stops(held) # {}
  <2>1. ASSUME NEW i \in Stops(held)
        PROVE  SubSeq(z, 1, Len(s.text) + i - 1) = s.text \o SubSeq(held, 1, i - 1)
    <3> DEFINE k == i - 1
    <3>1. k \in 0 .. Len(held) /\ Len(s.text) + i - 1 = Len(s.text) + k
      BY <1>6
    <3> HIDE DEF k
    <3>2. SubSeq(s.text \o held, 1, Len(s.text) + k) = s.text \o SubSeq(held, 1, k)
      BY <1>1, <1>2, <3>1, StartPast
    <3>3. QED
      BY <1>2, <3>1, <3>2 DEF k
  <2>2. PICK i \in Stops(held) : o = SubSeq(held, 1, i - 1)
    BY <1>3, <1>8
  <2>3. Stops(z) # {}
    BY <1>11
  <2>4. IsStart(said, z)
    <3> DEFINE k == Len(s.text) + i - 1
    <3>1. said = SubSeq(z, 1, k)
      BY <1>7, <2>1, <2>2
    <3>2. k \in 0 .. Len(z)
      <4>1. i \in 1 .. Len(held) /\ Len(z) = Len(s.text) + Len(held)
        BY <1>1, <1>2, <1>6, Concatenated
      <4>2. QED
        BY <1>6, <4>1
    <3> HIDE DEF k
    <3>3. QED
      BY <1>2, <3>1, <3>2, StartIs
  <2>5. ASSUME SingleStop
        PROVE  said = SubSeq(z, 1, Min(Stops(z)) - 1)
    <3> DEFINE m == Min(Stops(held))
               n == Min(Stops(z))
    <3>1. m \in Stops(held) /\ \A k \in Stops(held) : m <= k
      BY <1>2, <1>8, FirstStop
    <3>2. n \in Stops(z) /\ \A k \in Stops(z) : n <= k
      BY <1>2, <2>3, FirstStop
    <3> HIDE DEF m, n
    <3>3. m \in Int /\ n \in Int
      BY <1>6, <3>1, <3>2
    <3>4. Len(s.text) + m \in Stops(z)
      BY <1>11, <3>1
    <3>5. n - Len(s.text) \in Stops(held)
      BY <1>4, <3>2, <3>3
    <3>6. n = Len(s.text) + m
      <4>1. n <= Len(s.text) + m
        BY <3>2, <3>4
      <4>2. m <= n - Len(s.text)
        BY <3>1, <3>5
      <4>3. QED
        BY <1>6, <3>3, <4>1, <4>2
    <3>7. o = SubSeq(held, 1, m - 1)
      BY <1>3, <1>8, <2>5 DEF m
    <3>8. SubSeq(z, 1, Len(s.text) + m - 1) = s.text \o SubSeq(held, 1, m - 1)
      BY <2>1, <3>1
    <3>9. n - 1 = Len(s.text) + m - 1
      BY <1>6, <3>3, <3>6
    <3>10. said = SubSeq(z, 1, n - 1)
      BY <1>7, <3>7, <3>8, <3>9
    <3>11. QED
      BY <3>10 DEF n
  <2>6. QED
    BY <1>3, <1>7, <1>8, <2>3, <2>4, <2>5 DEF f, said, z, o
<1>9. CASE Stops(held) = {}
  <2>1. Stops(z) = {}
    <3> SUFFICES ASSUME NEW k \in Stops(z)
                 PROVE  FALSE
      OBVIOUS
    <3>1. k \in Int
      BY <1>6
    <3>2. QED
      BY <1>4, <1>9, <3>1
  <2>2. said \o p = z
    <3>1. (s.text \o o) \o p = s.text \o (o \o p)
      <4>1. s.text \in String
        BY <1>1
      <4>2. QED
        BY <1>12, <1>5, <4>1, Associates
    <3>2. QED
      BY <1>2, <1>3, <1>7, <1>9, <3>1
  <2>3. IsStart(said, z)
    BY <1>5, <1>7, <2>2, StartsPart
  <2>4. said # <<>> => Len(p) >= StopMaxKeep
    <3>1. CASE o = <<>>
      <4>1. p = held /\ said = s.text
        <5>1. <<>> \o p = p /\ s.text \o <<>> = s.text
          BY <1>1, <1>5, EmptyIsNeutral
        <5>2. QED
          BY <1>3, <1>7, <1>9, <3>1, <5>1
      <4>2. Len(held) = Len(s.pending) + Len(y) /\ Len(s.pending) \in Nat /\ Len(y) \in Nat
        BY <1>1, Concatenated DEF held
      <4>3. QED
        BY <1>1, <4>1, <4>2, StopIs
    <3>2. CASE o # <<>>
      BY <1>3, <1>9, <3>2
    <3>3. QED
      BY <3>1, <3>2
  <2>5. QED
    BY <1>3, <1>7, <1>9, <2>1, <2>2, <2>3, <2>4 DEF f, said, z, p
<1>10. QED
  BY <1>8, <1>9

\* What is said follows what was said, or the stop that latches ends it.
LEMMA SayData ==
  ASSUME NEW s, DataType(s), NEW x \in String, NEW y \in String, Follows(s, x),
         s.localStop # "stop_sequence"
  PROVE  LET r == Say(s, y)
         IN /\ DataType(r)
            /\ r.inside = s.inside /\ r.buf = s.buf /\ r.finished = s.finished
            /\ Progress(r, x \o y)
            /\ s.localStop # "none" => r.localStop = s.localStop
            /\ Charged(s) => Charged(r)
<1> DEFINE f    == ApplyStopFilter(s, y)
           a    == ApplyMaxTokens(f.self, f.out)
           c    == IF f.out # <<>> /\ f.self.localStop = "none" THEN a ELSE f
           t    == c.self
           all  == t.text \o c.out
           late == IsLate(s, c.out)
           b    == [t EXCEPT !.text = all, !.late = late]
           r    == Emit(b, "text", c.out)
           z    == x \o y
           u    == f.self
           o    == f.out
           said == s.text \o o
<1>1. Say(s, y) = r
  BY DEF Say
<1>2. /\ DataType(u) /\ Limited(u, s) /\ u.chars = s.chars /\ o \in String
  BY StopFilterData
<1>3. /\ said \in String /\ IsStart(said, z)
      /\ Stops(z) # {} =>
           /\ u.localStop = IF s.localStop = "none" THEN "stop_sequence" ELSE s.localStop
           /\ SingleStop => said = SubSeq(z, 1, Min(Stops(z)) - 1)
      /\ Stops(z) = {} =>
           /\ u.localStop = s.localStop
           /\ said \o u.pending = z
           /\ said # <<>> => Len(u.pending) >= StopMaxKeep
  BY FilterFollows
<1>4. c = IF o # <<>> /\ u.localStop = "none" THEN a ELSE f
  OBVIOUS
<1>5. /\ DataType(a.self) /\ Limited(a.self, u) /\ a.self.pending = u.pending
      /\ a.out \in String /\ Len(a.out) \in 0 .. Len(o) /\ a.out = SubSeq(o, 1, Len(a.out))
      /\ a.self.chars = u.chars + Len(a.out)
      /\ u.localStop # "none" => a.self.localStop = u.localStop
      /\ u.localStop = "none" => a.self.localStop \in {"none", "max_tokens"}
      /\ a.self.localStop = "none" => a.out = o /\ a.self.chars \div CharsPerToken < Budget
  BY <1>2, MaxTokensData
<1>6. z \in String /\ s.text \in String /\ s.thinking \in String /\ s.chars \in Nat
  BY Concatenated DEF DataType
<1> HIDE DEF a, c, z
<1>7. /\ DataType(t) /\ Limited(t, s) /\ t.pending = u.pending /\ c.out \in String
  <2>1. CASE o # <<>> /\ u.localStop = "none"
    <3>1. c = a
      BY <1>4, <2>1
    <3> HIDE DEF u, o
    <3>2. QED
      BY <1>2, <1>5, <3>1 DEF Limited
  <2>2. CASE ~(o # <<>> /\ u.localStop = "none")
    <3>1. c = f
      BY <1>4, <2>2
    <3>2. t = u /\ c.out = o
      BY <3>1
    <3> HIDE DEF u, o, f, t
    <3>3. QED
      BY <1>2, <3>2
  <2>3. QED
    BY <2>1, <2>2
<1>8. t.text = s.text /\ t.thinking = s.thinking /\ t.inside = s.inside /\ t.buf = s.buf /\ t.finished = s.finished
  BY <1>7 DEF Limited
<1>9. \/ t = u /\ c.out = o /\ (o = <<>> \/ u.localStop # "none")
      \/ t = a.self /\ c.out = a.out /\ o # <<>> /\ u.localStop = "none"
  <2>1. CASE o # <<>> /\ u.localStop = "none"
    <3>1. c = a
      BY <1>4, <2>1
    <3>2. QED
      BY <2>1, <3>1
  <2>2. CASE ~(o # <<>> /\ u.localStop = "none")
    <3>1. c = f
      BY <1>4, <2>2
    <3>2. t = u /\ c.out = o
      BY <3>1
    <3>3. QED
      BY <2>2, <3>2
  <2>3. QED
    BY <2>1, <2>2
<1> HIDE DEF f, t, u, o
<1>10. all \in String /\ all = s.text \o c.out
  BY <1>6, <1>7, <1>8, Concatenated
<1> HIDE DEF all, late
<1>11. Became(b, t, all, t.thinking)
  BY <1>7, <1>10, TextUpdate, Zenon
<1> HIDE DEF b
<1>12. SameData(r, b)
  <2>1. IsTranslator(b)
    BY <1>11 DEF DataType, Became
  <2>2. QED
    BY <2>1, EmitData
<1> HIDE DEF r
<1>13. DataType(r)
  BY <1>11, <1>12, SameDataType DEF Became
<1>14. /\ r.text = all /\ r.thinking = s.thinking /\ r.pending = u.pending /\ r.chars = t.chars
       /\ r.inside = s.inside /\ r.buf = s.buf /\ r.finished = s.finished
       /\ r.localStop = t.localStop
  BY <1>7, <1>8, <1>11, <1>12 DEF SameData, Became
<1>15. s.localStop # "none" => r.localStop = s.localStop
  <2> SUFFICES ASSUME s.localStop # "none"
               PROVE  r.localStop = s.localStop
    OBVIOUS
  <2>1. u.localStop = s.localStop
    BY <1>3
  <2>2. t = u
    BY <1>9, <2>1
  <2>3. QED
    BY <1>14, <2>1, <2>2
<1> HIDE DEF said
<1>16. ASSUME t = u, c.out = o
       PROVE  Progress(r, z)
  <2>1. all = said
    BY <1>10, <1>16 DEF said
  <2>2. r.localStop = u.localStop
    BY <1>14, <1>16
  <2>3. ASSUME Stops(z) # {}
        PROVE  Progress(r, z)
    <3>1. r.localStop # "none"
      BY <1>3, <2>2, <2>3
    <3>2. Ends(r, z)
      BY <1>3, <1>6, <1>14, <2>1, <2>3, CutEnds
    <3>3. QED
      BY <3>1, <3>2 DEF Progress
  <2>4. ASSUME Stops(z) = {}
        PROVE  Progress(r, z)
    <3>1. Follows(r, z)
      BY <1>3, <1>14, <2>1, <2>4 DEF Follows
    <3>2. r.localStop # "stop_sequence"
      BY <1>3, <2>2, <2>4
    <3>3. QED
      BY <1>6, <1>13, <3>1, <3>2, FollowsEnds DEF Progress
  <2>5. QED
    BY <2>3, <2>4
<1>17. ASSUME t = a.self, c.out = a.out, o # <<>>, u.localStop = "none"
       PROVE  Progress(r, z)
  <2>1. Stops(z) = {} /\ s.localStop = "none"
    BY <1>3, <1>17
  <2>2. said \o u.pending = z /\ (said # <<>> => Len(u.pending) >= StopMaxKeep)
    BY <1>3, <2>1
  <2>3. r.localStop \in {"none", "max_tokens"}
    BY <1>5, <1>14, <1>17
  <2>4. CASE r.localStop = "none"
    <3>1. all = said
      BY <1>5, <1>10, <1>14, <1>17, <2>4 DEF said
    <3>2. Follows(r, z)
      BY <1>14, <2>1, <2>2, <3>1 DEF Follows
    <3>3. QED
      BY <2>4, <3>2 DEF Progress
  <2>5. CASE r.localStop = "max_tokens"
    <3> DEFINE n == Len(a.out)
    <3>1. all = SubSeq(said, 1, Len(s.text) + n) /\ n \in 0 .. Len(o) /\ Len(o) \in Nat
      <4>1. n \in 0 .. Len(o) /\ a.out = SubSeq(o, 1, n) /\ Len(o) \in Nat
        BY <1>2, <1>5 DEF String
      <4> HIDE DEF n
      <4>2. SubSeq(s.text \o o, 1, Len(s.text) + n) = s.text \o SubSeq(o, 1, n)
        BY <1>2, <1>6, <4>1, StartPast
      <4>3. QED
        BY <1>10, <1>17, <4>1, <4>2 DEF said
    <3> HIDE DEF n
    <3>2. Len(said) = Len(s.text) + Len(o) /\ Len(s.text) \in Nat
      BY <1>2, <1>6, Concatenated DEF said
    <3> DEFINE m == Len(s.text) + n
    <3>3. m \in 0 .. Len(said)
      BY <3>1, <3>2
    <3>4. all = SubSeq(said, 1, m)
      BY <3>1
    <3> HIDE DEF m
    <3>5. IsStart(all, said) /\ Len(all) = m
      BY <1>3, <3>3, <3>4, StartIs
    <3>6. u.pending \in String
      BY <1>2 DEF DataType
    <3>7. IsStart(all, z)
      BY <1>3, <1>10, <2>2, <3>5, <3>6, StartExtends
    <3>8. all # <<>> => Len(all) + StopMaxKeep <= Len(z)
      <4>1. Len(z) = Len(said) + Len(u.pending) /\ Len(said) \in Nat /\ Len(u.pending) \in Nat
        BY <1>3, <2>2, <3>6, Concatenated
      <4>2. said # <<>>
        BY <1>17, <1>2, <3>2 DEF String
      <4>3. QED
        BY <2>2, <3>3, <3>5, <4>1, <4>2, StopIs
    <3>9. r.localStop # "stop_sequence" /\ r.localStop # "none"
      BY <2>5
    <3>10. Ends(r, z)
      BY <1>6, <1>13, <1>14, <2>1, <3>7, <3>8, <3>9, StartEnds
    <3>11. QED
      BY <3>9, <3>10 DEF Progress
  <2>6. QED
    BY <2>3, <2>4, <2>5
<1>18. ASSUME Charged(s)
       PROVE  Charged(r)
  <2> SUFFICES ASSUME r.localStop = "none"
               PROVE  Len(r.text) + Len(r.thinking) <= r.chars /\ r.chars \div CharsPerToken < Budget
    BY DEF Charged
  <2>1. s.localStop = "none"
    BY <1>15
  <2>2. Len(s.text) + Len(s.thinking) <= s.chars /\ s.chars \div CharsPerToken < Budget
    BY <1>18, <2>1 DEF Charged
  <2>3. t.localStop = "none" /\ r.chars = t.chars
    BY <1>14
  <2>4. Len(s.text) \in Nat /\ Len(s.thinking) \in Nat
    BY <1>6 DEF String
  <2>5. CASE t = u /\ c.out = o /\ (o = <<>> \/ u.localStop # "none")
    <3>1. o = <<>>
      BY <2>3, <2>5
    <3>2. s.text \o <<>> = s.text
      BY <1>6, EmptyIsNeutral
    <3>3. r.text = s.text /\ r.thinking = s.thinking /\ r.chars = s.chars
      BY <1>2, <1>10, <1>14, <2>5, <3>1, <3>2
    <3>4. QED
      BY <2>2, <3>3
  <2>6. CASE t = a.self /\ c.out = a.out /\ o # <<>> /\ u.localStop = "none"
    <3>1. c.out = o /\ r.chars = s.chars + Len(o) /\ r.chars \div CharsPerToken < Budget
      BY <1>2, <1>5, <2>3, <2>6
    <3>2. Len(r.text) = Len(s.text) + Len(o) /\ Len(o) \in Nat
      BY <1>2, <1>6, <1>10, <1>14, <3>1, Concatenated
    <3>3. r.thinking = s.thinking
      BY <1>14
    <3>4. Len(r.text) + Len(r.thinking) <= r.chars
      BY <1>6, <2>2, <2>4, <3>1, <3>2, <3>3, Adds
    <3>5. QED
      BY <3>1, <3>4
  <2>7. QED
    BY <1>9, <2>5, <2>6
<1>19. QED
  BY <1>1, <1>9, <1>13, <1>14, <1>15, <1>16, <1>17, <1>18 DEF z

-----------------------------------------------------------------------------
(* The end of a message.                                                   *)

\* What was said is the visible text z, or the start of it up to the stop.
Done(s, z) ==
  /\ IsStart(s.text, z)
  /\ SingleStop => IsStart(s.text, CutAtStop(z))
  /\ SingleStop /\ s.localStop = "stop_sequence" => s.text = CutAtStop(z)

\* A text that nothing follows.
LEMMA EndsDone ==
  ASSUME NEW s, NEW x \in String, Ends(s, x)
  PROVE  Done(s, x)
<1>1. x \o <<>> = x /\ <<>> \in String
  BY EmptyIsNeutral
<1>2. QED
  BY <1>1 DEF Ends, Done

\* What ended stays ended when more follows.
LEMMA EndsOn ==
  ASSUME NEW s, NEW x \in String, NEW e \in String, Ends(s, x)
  PROVE  Ends(s, x \o e)
<1> SUFFICES ASSUME NEW g \in String
             PROVE  /\ IsStart(s.text, (x \o e) \o g)
                    /\ SingleStop => IsStart(s.text, CutAtStop((x \o e) \o g))
                    /\ SingleStop /\ s.localStop = "stop_sequence" => s.text = CutAtStop((x \o e) \o g)
  BY DEF Ends
<1>1. (x \o e) \o g = x \o (e \o g)
  BY Associates
<1>2. e \o g \in String
  BY Concatenated
<1> DEFINE y == e \o g
<1> HIDE DEF y
<1>3. /\ IsStart(s.text, x \o y)
      /\ SingleStop => IsStart(s.text, CutAtStop(x \o y))
      /\ SingleStop /\ s.localStop = "stop_sequence" => s.text = CutAtStop(x \o y)
  BY <1>2 DEF Ends, y
<1>4. QED
  BY <1>1, <1>3 DEF y

\* Progress depends on what was said, what is held back and the stop.
LEMMA ProgressKept ==
  ASSUME NEW s, NEW r, NEW x, Progress(s, x),
         r.text = s.text, r.pending = s.pending, r.localStop = s.localStop
  PROVE  Progress(r, x)
  BY DEF Progress, Follows, Ends

\* A stop that latches without a word ends what was said.
LEMMA ProgressLatched ==
  ASSUME NEW s, NEW r, DataType(r), NEW x \in String, Progress(s, x), r.text = s.text, r.pending = s.pending,
         s.localStop # "none" => r.localStop = s.localStop,
         s.localStop = "none" => r.localStop \in {"none", "max_tokens"}
  PROVE  Progress(r, x)
<1>1. CASE r.localStop = s.localStop
  BY <1>1, ProgressKept
<1>2. CASE r.localStop # s.localStop
  <2>1. s.localStop = "none" /\ r.localStop = "max_tokens"
    BY <1>2
  <2>2. Follows(r, x)
    BY <2>1 DEF Progress, Follows
  <2>3. QED
    BY <2>1, <2>2, FollowsEnds DEF Progress
<1>3. QED
  BY <1>1, <1>2

\* What is visible of a tag that was cut off by the end.
Rest(s) == IF s.inside THEN <<>> ELSE s.buf

\* The flush of the tag buffer says the rest, or thinks it.
LEMMA FlushTagsData ==
  ASSUME NEW s, DataType(s), NEW x \in String, Progress(s, x), Charged(s)
  PROVE  LET r == FlushTags(s)
         IN /\ DataType(r) /\ r.buf = <<>> /\ r.finished = s.finished
            /\ Progress(r, x \o Rest(s)) /\ Charged(r)
<1> DEFINE f == [s EXCEPT !.buf = <<>>]
           r == FlushTags(s)
           e == Rest(s)
<1>1. s.buf \in String /\ s.inside \in BOOLEAN /\ <<>> \in String /\ x \o <<>> = x
  BY EmptyIsNeutral DEF DataType
<1>2. /\ DataType(f) /\ f.text = s.text /\ f.thinking = s.thinking /\ f.pending = s.pending /\ f.chars = s.chars
      /\ f.inside = s.inside /\ f.buf = <<>> /\ f.localStop = s.localStop /\ f.finished = s.finished
  <2> DEFINE v == <<>>
             u == [s EXCEPT !.buf = v]
  <2>1. v \in String
    BY <1>1
  <2> HIDE DEF v
  <2>2. /\ DataType(u) /\ u.text = s.text /\ u.thinking = s.thinking /\ u.pending = s.pending /\ u.chars = s.chars
        /\ u.inside = s.inside /\ u.buf = v /\ u.localStop = s.localStop /\ u.finished = s.finished
    BY <2>1 DEF DataType, IsTranslator
  <2>3. f = u
    BY DEF v
  <2> HIDE DEF u, f
  <2>4. QED
    BY <2>2, <2>3 DEF v
<1>3. r = IF s.buf # <<>> /\ s.inside THEN Think(f, s.buf)
          ELSE IF s.buf # <<>> /\ s.localStop = "none" THEN Say(f, s.buf)
          ELSE f
  BY DEF FlushTags
<1> HIDE DEF f, r
<1>4. Progress(f, x) /\ Charged(f)
  <2>1. Progress(f, x)
    BY <1>2, ProgressKept
  <2>2. QED
    BY <1>2, <2>1 DEF Charged
<1>5. ASSUME s.buf # <<>>, s.inside
      PROVE  /\ DataType(r) /\ r.buf = <<>> /\ r.finished = s.finished
             /\ Progress(r, x \o e) /\ Charged(r)
  <2> DEFINE t == Think(f, s.buf)
  <2>1. r = t /\ x \o e = x
    BY <1>1, <1>3, <1>5 DEF Rest
  <2>2. /\ DataType(t)
        /\ t.text = f.text /\ t.pending = f.pending /\ t.inside = f.inside /\ t.buf = f.buf
        /\ t.finished = f.finished
        /\ f.localStop # "none" => t.localStop = f.localStop
        /\ f.localStop = "none" => t.localStop \in {"none", "max_tokens"}
        /\ Charged(f) => Charged(t)
    BY <1>1, <1>2, ThinkData
  <2> HIDE DEF t
  <2>3. Progress(t, x)
    BY <1>4, <2>2, ProgressLatched
  <2>4. QED
    BY <1>2, <1>4, <2>1, <2>2, <2>3
<1>6. ASSUME s.buf # <<>>, ~s.inside, s.localStop = "none"
      PROVE  /\ DataType(r) /\ r.buf = <<>> /\ r.finished = s.finished
             /\ Progress(r, x \o e) /\ Charged(r)
  <2> DEFINE t == Say(f, s.buf)
  <2>1. r = t /\ e = s.buf
    BY <1>3, <1>6 DEF Rest
  <2>2. Follows(f, x) /\ f.localStop # "stop_sequence"
    BY <1>2, <1>4, <1>6 DEF Progress
  <2>3. /\ DataType(t)
        /\ t.inside = f.inside /\ t.buf = f.buf /\ t.finished = f.finished
        /\ Progress(t, x \o s.buf)
        /\ Charged(f) => Charged(t)
    BY <1>1, <1>2, <2>2, SayData
  <2> HIDE DEF t, e
  <2>4. QED
    BY <1>2, <1>4, <2>1, <2>3
<1>7. ASSUME s.buf = <<>> \/ (~s.inside /\ s.localStop # "none")
      PROVE  /\ DataType(r) /\ r.buf = <<>> /\ r.finished = s.finished
             /\ Progress(r, x \o e) /\ Charged(r)
  <2>1. r = f
    BY <1>3, <1>7
  <2>2. Progress(f, x \o e)
    <3>1. CASE s.buf = <<>>
      <4>1. x \o e = x
        BY <1>1, <3>1 DEF Rest
      <4>2. QED
        BY <1>4, <4>1
    <3>2. CASE ~s.inside /\ s.localStop # "none"
      <4>1. Ends(f, x) /\ e \in String
        BY <1>1, <1>2, <1>4, <3>2 DEF Progress, Rest
      <4> HIDE DEF e
      <4>2. Ends(f, x \o e)
        BY <4>1, EndsOn
      <4>3. QED
        BY <1>2, <3>2, <4>2 DEF Progress
    <3>3. QED
      BY <1>7, <3>1, <3>2
  <2>3. QED
    BY <1>2, <1>4, <2>1, <2>2
<1>8. QED
  BY <1>5, <1>6, <1>7 DEF r

\* Emptying the hold-back changes nothing else.
LEMMA PendingUpdate ==
  ASSUME NEW s, DataType(s)
  PROVE  LET f == [s EXCEPT !.pending = <<>>]
         IN /\ DataType(f) /\ f.text = s.text /\ f.thinking = s.thinking /\ f.pending = <<>> /\ f.chars = s.chars
            /\ f.inside = s.inside /\ f.buf = s.buf /\ f.localStop = s.localStop /\ f.finished = s.finished
<1> DEFINE f == [s EXCEPT !.pending = <<>>]
           v == <<>>
           u == [s EXCEPT !.pending = v]
<1>1. v \in String
  BY DEF String
<1> HIDE DEF v
<1>2. /\ DataType(u) /\ u.text = s.text /\ u.thinking = s.thinking /\ u.pending = v /\ u.chars = s.chars
      /\ u.inside = s.inside /\ u.buf = s.buf /\ u.localStop = s.localStop /\ u.finished = s.finished
  BY <1>1 DEF DataType, IsTranslator
<1>3. f = u
  BY DEF v
<1> HIDE DEF u, f
<1>4. QED
  BY <1>2, <1>3 DEF v, f

\* The flush of what is held back says it, as far as the budget goes.
LEMMA FlushPendingData ==
  ASSUME NEW s, DataType(s), NEW z \in String, Progress(s, z), Charged(s)
  PROVE  LET r == FlushPending(s)
         IN /\ DataType(r) /\ r.pending = <<>> /\ r.buf = s.buf /\ r.finished = s.finished
            /\ r.localStop = "none" => r.text = z /\ Stops(z) = {}
            /\ r.localStop # "none" => Done(r, z)
            /\ Charged(r)
<1> DEFINE f   == [s EXCEPT !.pending = <<>>]
           c   == ApplyMaxTokens(f, s.pending)
           t   == c.self
           all == t.text \o c.out
           b   == [t EXCEPT !.text = all]
           e   == Emit(b, "text", c.out)
           r   == FlushPending(s)
           Fine == /\ DataType(r) /\ r.pending = <<>> /\ r.buf = s.buf /\ r.finished = s.finished
                   /\ r.localStop = "none" => r.text = z /\ Stops(z) = {}
                   /\ r.localStop # "none" => Done(r, z)
                   /\ Charged(r)
<1>1. r = IF s.pending = <<>> \/ s.localStop # "none" THEN f ELSE e
  BY DEF FlushPending
<1>2. /\ DataType(f) /\ f.text = s.text /\ f.thinking = s.thinking /\ f.pending = <<>> /\ f.chars = s.chars
      /\ f.inside = s.inside /\ f.buf = s.buf /\ f.localStop = s.localStop /\ f.finished = s.finished
  BY PendingUpdate
<1> HIDE DEF f, r
<1>3. s.text \in String /\ s.thinking \in String /\ s.pending \in String /\ s.chars \in Nat
  BY DEF DataType
<1>4. ASSUME s.localStop # "none"
      PROVE  Fine
  <2>1. r = f /\ Ends(s, z)
    BY <1>1, <1>4 DEF Progress
  <2>2. Done(s, z)
    BY <2>1, EndsDone
  <2>3. Done(f, z)
    BY <1>2, <2>2 DEF Done
  <2>4. Charged(f)
    BY <1>2, <1>4 DEF Charged
  <2>5. QED
    BY <1>2, <1>4, <2>1, <2>3, <2>4
<1>5. ASSUME s.localStop = "none", s.pending = <<>>
      PROVE  Fine
  <2>1. r = f /\ Follows(s, z)
    BY <1>1, <1>5 DEF Progress
  <2>2. s.text \o <<>> = s.text
    BY <1>3, EmptyIsNeutral
  <2>3. s.text = z /\ Stops(z) = {}
    BY <1>5, <2>1, <2>2 DEF Follows
  <2>4. Charged(f)
    BY <1>2 DEF Charged
  <2>5. QED
    BY <1>2, <1>5, <2>1, <2>3, <2>4
<1>6. ASSUME s.localStop = "none", s.pending # <<>>
      PROVE  Fine
  <2>1. s.text \o s.pending = z /\ Stops(z) = {}
    BY <1>6 DEF Progress, Follows
  <2>2. /\ DataType(t) /\ Limited(t, f) /\ t.pending = <<>>
        /\ c.out \in String /\ Len(c.out) \in 0 .. Len(s.pending) /\ c.out = SubSeq(s.pending, 1, Len(c.out))
        /\ t.chars = s.chars + Len(c.out)
        /\ t.localStop \in {"none", "max_tokens"}
        /\ t.localStop = "none" => c.out = s.pending /\ t.chars \div CharsPerToken < Budget
    BY <1>2, <1>3, <1>6, MaxTokensData
  <2> HIDE DEF c, t
  <2>3. /\ t.text = s.text /\ t.thinking = s.thinking /\ t.inside = s.inside /\ t.buf = s.buf
        /\ t.finished = s.finished
    BY <1>2, <2>2 DEF Limited
  <2>4. all \in String /\ all = s.text \o c.out /\ Len(all) = Len(s.text) + Len(c.out)
    <3>1. c.out \in String /\ s.text \in String
      BY <1>3, <2>2
    <3>2. s.text \o c.out \in String /\ Len(s.text \o c.out) = Len(s.text) + Len(c.out)
      BY <3>1, Concatenated
    <3>3. all = s.text \o c.out
      BY <2>3
    <3>4. QED
      BY <3>2, <3>3
  <2> HIDE DEF all
  <2>5. /\ DataType(b) /\ b.text = all /\ b.thinking = t.thinking /\ b.pending = t.pending /\ b.chars = t.chars
        /\ b.buf = t.buf /\ b.finished = t.finished /\ b.localStop = t.localStop
    <3>1. DataType(t) /\ all \in String
      BY <2>2, <2>4
    <3>2. QED
      BY <3>1 DEF DataType, IsTranslator
  <2> HIDE DEF b
  <2>6. SameData(e, b)
    <3>1. IsTranslator(b)
      BY <2>5 DEF DataType
    <3>2. QED
      BY <3>1, EmitData
  <2>7. r = e
    BY <1>1, <1>6
  <2> HIDE DEF e
  <2>8. DataType(e)
    BY <2>5, <2>6, SameDataType
  <2>9. /\ r.text = all /\ r.thinking = s.thinking /\ r.pending = <<>> /\ r.chars = s.chars + Len(c.out)
        /\ r.buf = s.buf /\ r.finished = s.finished /\ r.localStop = t.localStop /\ r.chars = t.chars
    BY <2>2, <2>3, <2>5, <2>6, <2>7 DEF SameData
  <2>10. r.localStop = "none" => r.text = z
    BY <2>1, <2>2, <2>4, <2>9
  <2>11. ASSUME r.localStop # "none"
         PROVE  Done(r, z)
    <3> DEFINE n == Len(c.out)
    <3>1. n \in 0 .. Len(s.pending) /\ c.out = SubSeq(s.pending, 1, n)
      BY <2>2
    <3> HIDE DEF n
    <3>2. SubSeq(s.text \o s.pending, 1, Len(s.text) + n) = s.text \o SubSeq(s.pending, 1, n)
      BY <1>3, <3>1, StartPast
    <3> DEFINE m == Len(s.text) + n
    <3>3. m \in 0 .. Len(z) /\ all = SubSeq(z, 1, m)
      <4>1. Len(z) = Len(s.text) + Len(s.pending) /\ Len(s.text) \in Nat /\ Len(s.pending) \in Nat
        BY <1>3, <2>1, Concatenated
      <4>2. n \in Int /\ 0 <= n /\ n <= Len(s.pending)
        BY <3>1, <4>1
      <4>3. m \in Int /\ 0 <= m /\ m <= Len(z)
        BY <4>1, <4>2
      <4>4. SubSeq(z, 1, m) = s.text \o SubSeq(s.pending, 1, n)
        BY <2>1, <3>2
      <4>5. all = SubSeq(z, 1, m)
        BY <2>4, <3>1, <4>4
      <4> HIDE DEF m
      <4>6. Len(z) \in Int
        BY <4>1
      <4>7. QED
        BY <4>3, <4>5, <4>6
    <3> HIDE DEF m
    <3>4. IsStart(all, z)
      BY <3>3, StartIs
    <3>5. CutAtStop(z) = z /\ r.localStop # "stop_sequence"
      BY <2>1, <2>2, <2>9 DEF CutAtStop
    <3>6. QED
      BY <2>9, <3>4, <3>5 DEF Done
  <2>12. Charged(r)
    <3> SUFFICES ASSUME r.localStop = "none"
                 PROVE  Len(r.text) + Len(r.thinking) <= r.chars /\ r.chars \div CharsPerToken < Budget
      BY DEF Charged
    <3>1. Len(s.text) + Len(s.thinking) <= s.chars
      BY <1>6 DEF Charged
    <3>2. Len(s.text) \in Nat /\ Len(s.thinking) \in Nat /\ Len(c.out) \in Nat
      BY <1>3, <2>2 DEF String
    <3>3. Len(r.text) = Len(s.text) + Len(c.out)
      BY <2>4, <2>9
    <3>4. Len(r.text) + Len(r.thinking) <= r.chars
      BY <1>3, <2>9, <3>1, <3>2, <3>3, Adds
    <3>5. r.chars \div CharsPerToken < Budget
      BY <2>2, <2>9
    <3>6. QED
      BY <3>4, <3>5
  <2>13. QED
    BY <2>1, <2>7, <2>8, <2>9, <2>10, <2>11, <2>12
<1>7. Fine
  <2> HIDE DEF Fine
  <2>1. QED
    BY <1>4, <1>5, <1>6
<1>8. QED
  BY <1>7 DEF r

\* A larger charge covers what the smaller one covered.
LEMMA ChargedMore ==
  ASSUME NEW a \in Nat, NEW b \in Nat, NEW c \in Nat, NEW n \in Nat, a + b <= c
  PROVE  a + b <= c + n
  OBVIOUS

\* Opaque content is charged, and no text.
LEMMA OpaqueData ==
  ASSUME NEW s, DataType(s), NEW n \in Nat
  PROVE  LET r == AccountOpaque(s, n)
         IN /\ DataType(r) /\ Limited(r, s) /\ r.pending = s.pending
            /\ s.localStop # "none" => r.localStop = s.localStop
            /\ s.localStop = "none" => r.localStop \in {"none", "max_tokens"}
            /\ Charged(s) => Charged(r)
<1> DEFINE m       == s.chars + n
           charged == [s EXCEPT !.chars = @ + n]
           l       == Latch(charged, "max_tokens")
           r       == AccountOpaque(s, n)
<1>1. r = IF charged.chars \div CharsPerToken >= Budget THEN l ELSE charged
  BY DEF AccountOpaque
<1> HIDE DEF r
<1>2. s.chars \in Nat /\ m \in Nat /\ Budget \in Nat
  BY TranslatorAssumption DEF DataType
<1>3. /\ DataType(charged) /\ Limited(charged, s) /\ charged.pending = s.pending
      /\ charged.chars = m /\ charged.localStop = s.localStop
  <2> DEFINE u == [s EXCEPT !.chars = m]
  <2>1. charged = u
    OBVIOUS
  <2> HIDE DEF m
  <2>2. DataType(u) /\ Limited(u, s) /\ u.pending = s.pending /\ u.chars = m /\ u.localStop = s.localStop
    BY <1>2 DEF DataType, IsTranslator, Limited
  <2> HIDE DEF u, charged
  <2>3. QED
    BY <2>1, <2>2
<1> HIDE DEF charged
<1>4. /\ DataType(l) /\ Limited(l, charged) /\ l.pending = charged.pending
      /\ l.localStop = IF charged.localStop = "none" THEN "max_tokens" ELSE charged.localStop
  BY <1>3, LatchData
<1> HIDE DEF l
<1>5. CASE charged.chars \div CharsPerToken >= Budget
  <2>1. r = l
    BY <1>1, <1>5
  <2>2. r.localStop # "none"
    BY <1>4, <2>1
  <2>3. Charged(r)
    BY <2>2 DEF Charged
  <2>4. QED
    BY <1>3, <1>4, <2>1, <2>3 DEF Limited, r
<1>6. CASE ~(charged.chars \div CharsPerToken >= Budget)
  <2>1. r = charged
    BY <1>1, <1>6
  <2>2. ASSUME Charged(s)
        PROVE  Charged(r)
    <3> SUFFICES ASSUME r.localStop = "none"
                 PROVE  Len(r.text) + Len(r.thinking) <= r.chars /\ r.chars \div CharsPerToken < Budget
      BY DEF Charged
    <3>1. Len(s.text) + Len(s.thinking) <= s.chars
      BY <1>3, <2>1, <2>2 DEF Charged
    <3>2. r.text = s.text /\ r.thinking = s.thinking /\ r.chars = s.chars + n
      BY <1>3, <2>1 DEF Limited
    <3>3. Len(s.text) \in Nat /\ Len(s.thinking) \in Nat
      BY DEF DataType, String
    <3>4. Len(r.text) + Len(r.thinking) <= r.chars
      <4>1. r.text = s.text /\ r.thinking = s.thinking /\ r.chars = s.chars + n
        BY <3>2
      <4>2. Len(s.text) + Len(s.thinking) <= s.chars + n
        BY <1>2, <3>1, <3>3, ChargedMore
      <4> QED
        BY <4>1, <4>2
    <3>5. r.chars \div CharsPerToken \in Int
      BY <1>2, <1>3, <2>1 DEF CharsPerToken
    <3>6. r.chars \div CharsPerToken < Budget
      BY <1>2, <1>6, <2>1, <3>5
    <3>7. QED
      BY <3>4, <3>6
  <2>3. QED
    BY <1>3, <2>1, <2>2 DEF r
<1>7. QED
  BY <1>5, <1>6

\* Looking for tags changes the tag buffer and nothing that was said.
LEMMA ParseData ==
  ASSUME NEW s, DataType(s), NEW x \in String
  PROVE  LET p    == ParseTags(s, x)
             scan == Scan[s.buf \o x][s.inside]
         IN /\ DataType(p.self) /\ p.self.buf = scan.buf /\ p.self.inside = scan.inside
            /\ p.self.text = s.text /\ p.self.thinking = s.thinking /\ p.self.pending = s.pending
            /\ p.self.chars = s.chars /\ p.self.localStop = s.localStop /\ p.self.finished = s.finished
            /\ p.text = scan.text /\ p.text \in String
            /\ p.think = scan.think /\ p.think \in String
<1> DEFINE scan     == Scan[s.buf \o x][s.inside]
           rest     == scan.buf
           inTag    == scan.inside
           suppress == s.suppress \/ scan.seen
           r        == [s EXCEPT !.buf = rest, !.inside = inTag, !.suppress = suppress]
           p        == ParseTags(s, x)
<1>1. p = [self |-> r, text |-> scan.text, think |-> scan.think]
  BY DEF ParseTags
<1>2. scan \in Scanned
  <2>1. s.buf \in String /\ s.inside \in BOOLEAN
    BY DEF DataType
  <2>2. s.buf \o x \in String
    BY <2>1, Concatenated
  <2>3. QED
    BY <2>1, <2>2, ScanType
<1> HIDE DEF scan, p
<1>3. rest \in String /\ inTag \in BOOLEAN /\ scan.text \in String /\ scan.think \in String
  BY <1>2, ScannedIs
<1> HIDE DEF suppress
<1>4. /\ DataType(r) /\ r.buf = rest /\ r.inside = inTag
      /\ r.text = s.text /\ r.thinking = s.thinking /\ r.pending = s.pending
      /\ r.chars = s.chars /\ r.localStop = s.localStop /\ r.finished = s.finished
  <2> HIDE DEF rest, inTag
  <2> DEFINE u == [s EXCEPT !.buf = rest]
             v == [u EXCEPT !.inside = inTag]
             q == [v EXCEPT !.suppress = suppress]
  <2>1. r = q
    OBVIOUS
  <2>2. /\ DataType(u) /\ u.buf = rest
        /\ u.text = s.text /\ u.thinking = s.thinking /\ u.pending = s.pending
        /\ u.chars = s.chars /\ u.localStop = s.localStop /\ u.finished = s.finished
    BY <1>3 DEF DataType, IsTranslator
  <2> HIDE DEF u
  <2>3. /\ DataType(v) /\ v.buf = rest /\ v.inside = inTag
        /\ v.text = u.text /\ v.thinking = u.thinking /\ v.pending = u.pending
        /\ v.chars = u.chars /\ v.localStop = u.localStop /\ v.finished = u.finished
    BY <1>3, <2>2 DEF DataType, IsTranslator
  <2> HIDE DEF v
  <2>4. /\ DataType(q) /\ q.buf = rest /\ q.inside = inTag
        /\ q.text = v.text /\ q.thinking = v.thinking /\ q.pending = v.pending
        /\ q.chars = v.chars /\ q.localStop = v.localStop /\ q.finished = v.finished
    BY <2>3 DEF DataType, IsTranslator
  <2> HIDE DEF q, r
  <2>5. QED
    BY <2>1, <2>2, <2>3, <2>4
<1> HIDE DEF r
<1>5. QED
  BY <1>1, <1>3, <1>4 DEF scan, p

\* The end of the message says the rest of the tag buffer and what is held back.
LEMMA FinishData ==
  ASSUME NEW s, DataType(s), NEW x \in String, Progress(s, x), Charged(s), ~s.finished
  PROVE  LET r == Finish(s)
             z == x \o Rest(s)
         IN /\ DataType(r) /\ Charged(r) /\ r.finished
            /\ r.localStop = "none" => /\ r.text = z /\ Stops(z) = {}
                                       /\ r.pending = <<>> /\ r.buf = <<>>
            /\ r.localStop # "none" => Done(r, z)
<1> DEFINE yes == TRUE
           u   == [s EXCEPT !.finished = yes]
           a   == EnsureStarted(u)
           b   == FlushTags(a)
           c   == FlushPending(b)
           d   == CloseActive(c)
           e   == MessageStop(MessageDelta(d.client))
           r   == [d EXCEPT !.client = e]
           z   == x \o Rest(s)
<1>1. Finish(s) = r
  BY DEF Finish
<1> HIDE DEF yes
<1>2. /\ DataType(u) /\ u.finished = yes /\ u.text = s.text /\ u.thinking = s.thinking
      /\ u.pending = s.pending /\ u.chars = s.chars /\ u.inside = s.inside /\ u.buf = s.buf
      /\ u.localStop = s.localStop
  BY DEF DataType, IsTranslator
<1> HIDE DEF u
<1>3. SameData(a, u)
  <2>1. IsTranslator(u)
    BY <1>2 DEF DataType
  <2>2. QED
    BY <2>1, StartData
<1> HIDE DEF a
<1>4. /\ DataType(a) /\ a.finished = yes /\ a.text = s.text /\ a.thinking = s.thinking
      /\ a.pending = s.pending /\ a.chars = s.chars /\ a.inside = s.inside /\ a.buf = s.buf
      /\ a.localStop = s.localStop
  <2>1. DataType(a)
    BY <1>2, <1>3, SameDataType
  <2>2. QED
    BY <1>2, <1>3, <2>1 DEF SameData
<1>5. Progress(a, x) /\ Charged(a) /\ Rest(a) = Rest(s)
  <2>1. Progress(a, x)
    BY <1>4, ProgressKept
  <2>2. QED
    BY <1>4, <2>1 DEF Charged, Rest
<1>6. DataType(b) /\ b.buf = <<>> /\ b.finished = yes /\ Progress(b, z) /\ Charged(b)
  <2>1. DataType(b) /\ b.buf = <<>> /\ b.finished = a.finished /\ Progress(b, x \o Rest(a)) /\ Charged(b)
    BY <1>4, <1>5, FlushTagsData
  <2> HIDE DEF b
  <2>2. QED
    BY <1>4, <1>5, <2>1
<1>7. z \in String
  <2>1. Rest(s) \in String
    BY DEF Rest, DataType, String
  <2>2. QED
    BY <2>1, Concatenated
<1> HIDE DEF b, z
<1>8. /\ DataType(c) /\ c.pending = <<>> /\ c.buf = b.buf /\ c.finished = b.finished
      /\ c.localStop = "none" => c.text = z /\ Stops(z) = {}
      /\ c.localStop # "none" => Done(c, z)
      /\ Charged(c)
  BY <1>6, <1>7, FlushPendingData
<1> HIDE DEF c
<1>9. SameData(d, c)
  <2>1. IsTranslator(c)
    BY <1>8 DEF DataType
  <2>2. QED
    BY <2>1, CloseData
<1> HIDE DEF d, e
<1>10. SameData(r, d)
  <2>1. IsTranslator(d)
    BY <1>9 DEF SameData
  <2>2. QED
    BY <2>1, FormUpdates
<1> HIDE DEF r
<1>11. DataType(r)
  <2>1. DataType(d)
    BY <1>8, <1>9, SameDataType
  <2>2. QED
    BY <1>10, <2>1, SameDataType
<1>12. /\ r.text = c.text /\ r.thinking = c.thinking /\ r.pending = <<>> /\ r.buf = <<>> /\ r.chars = c.chars
       /\ r.finished = yes /\ r.localStop = c.localStop
  BY <1>6, <1>8, <1>9, <1>10 DEF SameData
<1>13. Charged(r)
  BY <1>8, <1>12 DEF Charged
<1>14. r.localStop # "none" => Done(r, z)
  BY <1>8, <1>12 DEF Done
<1>15. QED
  BY <1>1, <1>8, <1>11, <1>12, <1>13, <1>14 DEF z, yes

\* Where the translator t stands after the text w.
Stands(t, w) ==
  /\ DataType(t) /\ Charged(t)
  /\ t.localStop = "none" /\ ~t.finished =>
       LET scan == Scan[w][FALSE]
       IN t.buf = scan.buf /\ t.inside = scan.inside /\ Follows(t, scan.text)
  /\ t.localStop = "none" /\ t.finished =>
       /\ t.text = Visible(w) /\ Stops(Visible(w)) = {}
       /\ t.pending = <<>> /\ t.buf = <<>>
  /\ t.localStop # "none" => Done(t, Visible(w))

\* The translator has consumed the text of raw.
DataInv == raw \in String /\ Stands(tr, raw)

\* The message ends with the body.
LEMMA FinishStands ==
  ASSUME NEW w \in String, NEW s, DataType(s), Charged(s), ~s.finished,
         s.buf = Scan[w][FALSE].buf, s.inside = Scan[w][FALSE].inside,
         Progress(s, Scan[w][FALSE].text)
  PROVE  Stands(Finish(s), w)
<1> DEFINE scan == Scan[w][FALSE]
           r    == Finish(s)
<1>1. scan.text \in String
  <2>1. scan \in Scanned
    BY ScanType
  <2>2. QED
    BY <2>1, ScannedIs
<1>2. Visible(w) = scan.text \o Rest(s)
  BY DEF Visible, Rest
<1>3. /\ DataType(r) /\ Charged(r) /\ r.finished
      /\ r.localStop = "none" => /\ r.text = scan.text \o Rest(s) /\ Stops(scan.text \o Rest(s)) = {}
                                 /\ r.pending = <<>> /\ r.buf = <<>>
      /\ r.localStop # "none" => Done(r, scan.text \o Rest(s))
  BY <1>1, FinishData
<1> HIDE DEF r
<1>4. Stands(r, w)
  BY <1>2, <1>3 DEF Stands
<1>5. QED
  BY <1>4 DEF r

\* It ends with the event that latches a stop, too.
LEMMA FinishIfStoppedStands ==
  ASSUME NEW w \in String, NEW s, DataType(s), Charged(s), ~s.finished,
         s.buf = Scan[w][FALSE].buf, s.inside = Scan[w][FALSE].inside,
         Progress(s, Scan[w][FALSE].text)
  PROVE  Stands(FinishIfStopped(s), w)
<1> DEFINE scan == Scan[w][FALSE]
<1>1. CASE s.localStop = "none"
  <2>1. Follows(s, scan.text)
    BY <1>1 DEF Progress
  <2>2. FinishIfStopped(s) = s
    BY <1>1 DEF FinishIfStopped
  <2>3. Stands(s, w)
    BY <1>1, <2>1 DEF Stands
  <2>4. QED
    BY <2>2, <2>3
<1>2. CASE s.localStop # "none"
  <2>1. Stands(Finish(s), w)
    BY FinishStands
  <2>2. FinishIfStopped(s) = Finish(s)
    BY <1>2 DEF FinishIfStopped
  <2>3. QED
    BY <2>1, <2>2
<1>3. QED
  BY <1>1, <1>2

-----------------------------------------------------------------------------
(* What the translator has consumed.                                       *)

\* What the client saw changes nothing of what was consumed.
LEMMA SameStands ==
  ASSUME NEW r, NEW s, NEW w, SameData(r, s), Stands(s, w)
  PROVE  Stands(r, w)
<1>1. DataType(r)
  BY SameDataType DEF Stands
<1>2. Charged(r)
  BY DEF Stands, SameData, Charged
<1>3. Done(s, Visible(w)) => Done(r, Visible(w))
  BY DEF SameData, Done
<1>4. Follows(s, Scan[w][FALSE].text) => Follows(r, Scan[w][FALSE].text)
  BY DEF SameData, Follows
<1>5. QED
  BY <1>1, <1>2, <1>3, <1>4 DEF Stands, SameData

\* Nothing comes of an empty text.
LEMMA NothingScanned ==
  /\ <<>> \in String
  /\ Scan[<<>>][FALSE].text = <<>> /\ Scan[<<>>][FALSE].buf = <<>> /\ Scan[<<>>][FALSE].inside = FALSE
<1> DEFINE x      == <<>>
           inside == FALSE
           tag    == TagFor(inside)
           cut    == Len(x) - PartialTagSuffix(x, tag)
           rest   == Held(SubSeq(x, cut + 1, Len(x)), inside)
<1>1. x \in String /\ Len(x) = 0 /\ inside \in BOOLEAN
  BY DEF String
<1>2. \A y \in String : Len(y) = 0 => y = x
  BY DEF String
<1>3. inside = FALSE
  OBVIOUS
<1> HIDE DEF x, inside
<1>4. tag \in String /\ Len(tag) \in Nat \ {0}
  BY <1>1, TagIs
<1> HIDE DEF tag
<1>5. Places(tag, x) = {}
  <2>1. Places(tag, x) \in SUBSET (1 .. Len(x))
    BY <1>1, <1>4, PlaceIs
  <2>2. QED
    BY <1>1, <2>1
<1>6. PartialTagSuffix(x, tag) = 0
  <2>1. PartialTagSuffix(x, tag) \in 0 .. Len(x)
    BY <1>1, <1>4, SuffixIs
  <2>2. QED
    BY <1>1, <2>1
<1>7. cut = 0
  BY <1>1, <1>6
<1>8. Scan[x][inside] = Told(inside, SubSeq(x, 1, cut), rest)
  BY <1>1, <1>5, ScanNone DEF tag
<1> HIDE DEF cut
<1>9. SubSeq(x, 1, cut) = x /\ SubSeq(x, cut + 1, Len(x)) = x
  <2>1. SubSeq(x, 1, 0) \in String /\ Len(SubSeq(x, 1, 0)) = 0
    BY <1>1, PieceIs
  <2>2. SubSeq(x, 1, 0) = x
    BY <1>2, <2>1
  <2>3. QED
    BY <1>1, <1>7, <2>2
<1>10. rest = Held(x, inside)
  BY <1>9
<1>11. /\ rest.text = <<>> /\ rest.buf = x /\ rest.inside = inside
       /\ rest = [text |-> rest.text, think |-> rest.think, buf |-> rest.buf, inside |-> rest.inside, seen |-> rest.seen]
  BY <1>10 DEF Held
<1> HIDE DEF rest
<1> DEFINE t == x \o rest.text
           r == [rest EXCEPT !.text = t]
<1>12. Told(inside, x, rest) = r
  BY <1>3 DEF Told
<1>13. t = <<>>
  BY <1>11, EmptyIsNeutral DEF x
<1> HIDE DEF t
<1>14. r.text = t /\ r.buf = x /\ r.inside = inside
  BY <1>11
<1> HIDE DEF r
<1>15. QED
  BY <1>1, <1>3, <1>8, <1>9, <1>12, <1>13, <1>14 DEF x, inside

\* A new translator has consumed nothing.
LEMMA InitStands == Init => DataInv
<1> SUFFICES ASSUME Init PROVE DataInv
  OBVIOUS
<1>1. tr = NewTranslator /\ raw = <<>>
  BY DEF Init
<1> DEFINE s == NewTranslator
<1>2. /\ IsTranslator(s) /\ s.text = <<>> /\ s.thinking = <<>> /\ s.pending = <<>> /\ s.buf = <<>>
      /\ s.chars = 0 /\ s.inside = FALSE /\ s.localStop = "none" /\ s.finished = FALSE
  BY DEF NewTranslator, IsTranslator
<1> HIDE DEF s
<1>3. DataType(s)
  <2>1. s.text \in String /\ s.thinking \in String /\ s.pending \in String /\ s.buf \in String
    BY <1>2, NothingScanned
  <2>2. s.chars \in Nat /\ s.localStop \in {"none", "stop_sequence", "max_tokens"}
    BY <1>2
  <2>3. s.inside \in BOOLEAN
    BY <1>2
  <2>4. QED
    BY <1>2, <2>1, <2>2, <2>3, Zenon DEF DataType
<1>4. Charged(s)
  <2>1. Len(s.text) = 0 /\ Len(s.thinking) = 0
    BY <1>2
  <2>2. Budget \in Nat \ {0}
    BY TranslatorAssumption
  <2>3. 0 \div CharsPerToken = 0
    BY DEF CharsPerToken
  <2>4. QED
    BY <1>2, <2>1, <2>2, <2>3 DEF Charged
<1>5. Follows(s, <<>>)
  <2>1. s.text \o s.pending = <<>>
    BY <1>2, NothingScanned, EmptyIsNeutral
  <2>2. Stops(<<>>) = {}
    <3> DEFINE x == <<>>
    <3>1. x \in String /\ Len(x) = 0
      BY NothingScanned
    <3> HIDE DEF x
    <3>2. Stops(x) \in SUBSET (1 .. Len(x))
      BY <3>1, StopsAre
    <3>3. Stops(x) = {}
      BY <3>1, <3>2
    <3>4. QED
      BY <3>3 DEF x
  <2>3. QED
    BY <1>2, <2>1, <2>2 DEF Follows
<1>6. Stands(s, <<>>)
  BY <1>2, <1>3, <1>4, <1>5, NothingScanned DEF Stands
<1>7. QED
  BY <1>1, <1>6, NothingScanned DEF DataInv, s

\* What is known of an open message.
LEMMA OpenStands ==
  ASSUME Inv, DataInv, Open
  PROVE  /\ tr.localStop = "none" /\ ~tr.finished
         /\ raw \in String /\ DataType(tr) /\ Charged(tr)
         /\ tr.buf = Scan[raw][FALSE].buf /\ tr.inside = Scan[raw][FALSE].inside
         /\ Follows(tr, Scan[raw][FALSE].text)
         /\ Scan[raw][FALSE].text \in String
<1>1. tr.localStop = "none" /\ ~tr.finished
  BY OpenWorks
<1>2. raw \in String /\ Stands(tr, raw)
  BY DEF DataInv
<1>3. Scan[raw][FALSE].text \in String
  BY <1>2, ScanType, ScannedIs
<1>4. QED
  BY <1>1, <1>2, <1>3 DEF Stands

\* An event without text that is charged or emitted, and the end it may latch.
LEMMA TextlessStands ==
  ASSUME Inv, DataInv, Open, NEW s, DataType(s), Charged(s),
         s.text = tr.text, s.pending = tr.pending, s.buf = tr.buf, s.inside = tr.inside,
         s.finished = tr.finished, s.localStop \in {"none", "max_tokens"}
  PROVE  Stands(FinishIfStopped(s), raw)
<1> DEFINE x == Scan[raw][FALSE].text
<1>1. /\ tr.localStop = "none" /\ ~tr.finished /\ raw \in String
      /\ tr.buf = Scan[raw][FALSE].buf /\ tr.inside = Scan[raw][FALSE].inside
      /\ Follows(tr, x) /\ x \in String
  BY OpenStands
<1> HIDE DEF x
<1>2. Progress(tr, x)
  BY <1>1 DEF Progress
<1>3. Progress(s, x)
  BY <1>1, <1>2, ProgressLatched
<1>4. QED
  BY <1>1, <1>3, FinishIfStoppedStands DEF x

\* The text of an event is said, its thought is charged.
LEMMA ResponseStands ==
  ASSUME Inv, DataInv, NEW content \in Texts, AssistantResponse(content)
  PROVE  raw' \in String /\ Stands(tr', raw')
<1> DEFINE scan  == Scan[raw][FALSE]
           p     == ParseTags(tr, content)
           more  == Scan[tr.buf \o content][tr.inside]
           w     == raw \o content
           whole == Scan[w][FALSE]
           t     == IF p.think # <<>> THEN Think(p.self, p.think) ELSE p.self
           s     == IF p.text # <<>> THEN Say(t, p.text) ELSE t
<1>1. Open /\ tr' = FinishIfStopped(s) /\ raw' = w
  BY DEF AssistantResponse
<1>2. /\ tr.localStop = "none" /\ ~tr.finished
      /\ raw \in String /\ DataType(tr) /\ Charged(tr)
      /\ tr.buf = scan.buf /\ tr.inside = scan.inside
      /\ Follows(tr, scan.text) /\ scan.text \in String
  BY <1>1, OpenStands
<1>3. content \in String
  BY TranslatorAssumption
<1>4. w \in String
  BY <1>2, <1>3, Concatenated
<1>5. /\ DataType(p.self) /\ p.self.buf = more.buf /\ p.self.inside = more.inside
      /\ p.self.text = tr.text /\ p.self.thinking = tr.thinking /\ p.self.pending = tr.pending
      /\ p.self.chars = tr.chars /\ p.self.localStop = tr.localStop /\ p.self.finished = tr.finished
      /\ p.text = more.text /\ p.text \in String
      /\ p.think = more.think /\ p.think \in String
  BY <1>2, <1>3, ParseData
<1>6. whole.text = scan.text \o p.text /\ whole.buf = p.self.buf /\ whole.inside = p.self.inside
  <2>1. whole = Joined(scan, Scan[scan.buf \o content][scan.inside])
    BY <1>2, <1>3, DeltasDoNotMatter DEF Incremental
  <2>2. whole = Joined(scan, more)
    BY <1>2, <2>1
  <2> HIDE DEF whole, scan, more, p
  <2>3. QED
    BY <1>5, <2>2 DEF Joined
<1> HIDE DEF p, more, scan, whole, w
<1> DEFINE q == p.self
           k == Think(q, p.think)
<1>7. Charged(q) /\ Follows(q, scan.text)
  BY <1>2, <1>5 DEF Charged, Follows
<1> HIDE DEF q
<1>8. /\ DataType(t) /\ Charged(t) /\ t.buf = q.buf /\ t.inside = q.inside /\ ~t.finished
      /\ Follows(t, scan.text) /\ t.localStop \in {"none", "max_tokens"}
  <2>1. CASE p.think # <<>>
    <3>1. t = k
      BY <2>1 DEF q
    <3>2. /\ DataType(k)
          /\ k.text = q.text /\ k.pending = q.pending /\ k.inside = q.inside /\ k.buf = q.buf
          /\ k.finished = q.finished
          /\ q.localStop = "none" => k.localStop \in {"none", "max_tokens"}
          /\ Charged(q) => Charged(k)
      BY <1>5, ThinkData DEF q
    <3> HIDE DEF k, t
    <3>3. Follows(k, scan.text)
      BY <1>7, <3>2 DEF Follows
    <3>4. QED
      BY <1>2, <1>5, <1>7, <3>1, <3>2, <3>3 DEF q
  <2>2. CASE p.think = <<>>
    <3>1. t = q
      BY <2>2 DEF q
    <3>2. QED
      BY <1>2, <1>5, <1>7, <3>1 DEF q
  <2>3. QED
    BY <2>1, <2>2
<1> HIDE DEF t
<1>9. /\ DataType(s) /\ Charged(s) /\ s.buf = t.buf /\ s.inside = t.inside /\ ~s.finished
      /\ Progress(s, scan.text \o p.text)
  <2>1. CASE p.text # <<>>
    <3> DEFINE y == Say(t, p.text)
    <3>1. s = y
      BY <2>1
    <3>2. t.localStop # "stop_sequence"
      BY <1>8
    <3>3. /\ DataType(y)
          /\ y.inside = t.inside /\ y.buf = t.buf /\ y.finished = t.finished
          /\ Progress(y, scan.text \o p.text)
          /\ Charged(t) => Charged(y)
      BY <1>2, <1>5, <1>8, <3>2, SayData
    <3> HIDE DEF y
    <3>4. QED
      BY <1>8, <3>1, <3>3
  <2>2. CASE p.text = <<>>
    <3>1. s = t /\ scan.text \o p.text = scan.text
      BY <1>2, <2>2, EmptyIsNeutral
    <3>2. Progress(t, scan.text)
      <4>1. CASE t.localStop = "none"
        BY <1>8, <4>1 DEF Progress
      <4>2. CASE t.localStop # "none"
        <5>1. t.localStop # "stop_sequence"
          BY <1>8
        <5>2. Ends(t, scan.text)
          BY <1>2, <1>8, <5>1, FollowsEnds
        <5>3. QED
          BY <4>2, <5>2 DEF Progress
      <4>3. QED
        BY <4>1, <4>2
    <3>3. QED
      BY <1>8, <3>1, <3>2
  <2>3. QED
    BY <2>1, <2>2
<1> HIDE DEF s
<1>10. s.buf = whole.buf /\ s.inside = whole.inside /\ Progress(s, whole.text)
  BY <1>6, <1>8, <1>9 DEF q
<1>11. Stands(FinishIfStopped(s), w)
  BY <1>4, <1>9, <1>10, FinishIfStoppedStands DEF whole
<1>12. QED
  BY <1>1, <1>4, <1>11

\* A block that opens and closes at once is charged, and no text.
LEMMA WholeStands ==
  ASSUME Inv, DataInv, Open, NEW n \in Opaques, NEW u, NEW kind, SameData(u, AccountOpaque(tr, n))
  PROVE  Stands(FinishIfStopped(EmitWhole(u, kind)), raw)
<1> DEFINE a == AccountOpaque(tr, n)
           s == EmitWhole(u, kind)
<1>1. DataType(tr) /\ Charged(tr) /\ tr.localStop = "none"
  BY OpenStands
<1>2. n \in Nat
  BY TranslatorAssumption
<1>3. /\ DataType(a) /\ Limited(a, tr) /\ a.pending = tr.pending
      /\ a.localStop \in {"none", "max_tokens"} /\ Charged(a)
  BY <1>1, <1>2, OpaqueData
<1> HIDE DEF a
<1>4. SameData(u, a)
  BY DEF a
<1>5. SameData(s, u)
  BY <1>4, WholeData DEF SameData
<1> HIDE DEF s
<1>6. DataType(s)
  <2>1. DataType(u)
    BY <1>3, <1>4, SameDataType
  <2>2. QED
    BY <1>5, <2>1, SameDataType
<1>7. /\ s.text = tr.text /\ s.pending = tr.pending /\ s.buf = tr.buf /\ s.inside = tr.inside
      /\ s.finished = tr.finished /\ s.localStop = a.localStop
      /\ s.thinking = a.thinking /\ s.text = a.text /\ s.chars = a.chars
  BY <1>3, <1>4, <1>5 DEF SameData, Limited
<1>8. Charged(s)
  BY <1>3, <1>7 DEF Charged
<1>9. Stands(FinishIfStopped(s), raw)
  BY <1>3, <1>6, <1>7, <1>8, TextlessStands
<1>10. QED
  BY <1>9 DEF s

\* A reasoning event is charged, and no text.
LEMMA ReasoningStands ==
  ASSUME Inv, DataInv, NEW text \in Thoughts, NEW signed, ReasoningContent(text, signed)
  PROVE  raw' = raw /\ Stands(tr', raw)
<1> DEFINE k == Think(tr, text)
           t == IF text # <<>> /\ tr.localStop = "none" THEN k ELSE tr
           c == ContentBlockDelta(t.client, t.index, "thinking")
           d == [t EXCEPT !.client = c]
           s == IF signed /\ t.active = "thinking" THEN d ELSE t
<1>1. Open /\ tr' = FinishIfStopped(s) /\ raw' = raw
  BY DEF ReasoningContent
<1>2. DataType(tr) /\ Charged(tr) /\ tr.localStop = "none"
  BY <1>1, OpenStands
<1>3. text \in String
  BY TranslatorAssumption
<1>4. /\ DataType(k)
      /\ k.text = tr.text /\ k.pending = tr.pending /\ k.inside = tr.inside /\ k.buf = tr.buf
      /\ k.finished = tr.finished /\ k.localStop \in {"none", "max_tokens"} /\ Charged(k)
  BY <1>2, <1>3, ThinkData
<1> HIDE DEF k
<1>5. /\ DataType(t)
      /\ t.text = tr.text /\ t.pending = tr.pending /\ t.inside = tr.inside /\ t.buf = tr.buf
      /\ t.finished = tr.finished /\ t.localStop \in {"none", "max_tokens"} /\ Charged(t)
  <2>1. CASE text # <<>>
    BY <1>2, <1>4, <2>1
  <2>2. CASE text = <<>>
    BY <1>2, <2>2
  <2>3. QED
    BY <2>1, <2>2
<1> HIDE DEF t, c
<1>6. SameData(d, t) /\ SameData(t, t)
  <2>1. IsTranslator(t)
    BY <1>5 DEF DataType
  <2>2. SameData(d, t)
    BY <2>1, FormUpdates
  <2>3. QED
    BY <2>1, <2>2 DEF SameData
<1> HIDE DEF d
<1>7. SameData(s, t)
  BY <1>6
<1> HIDE DEF s
<1>8. DataType(s)
  BY <1>5, <1>7, SameDataType
<1>9. Charged(s)
  BY <1>5, <1>7 DEF Charged, SameData
<1>10. Stands(FinishIfStopped(s), raw)
  <2>1. /\ s.text = tr.text /\ s.pending = tr.pending /\ s.buf = tr.buf /\ s.inside = tr.inside
        /\ s.finished = tr.finished /\ s.localStop \in {"none", "max_tokens"}
    BY <1>5, <1>7 DEF SameData
  <2>2. QED
    BY <1>1, <1>8, <1>9, <2>1, TextlessStands
<1>11. QED
  BY <1>1, <1>10

\* Every upstream event, and the end of the stream, is accounted for.
LEMMA NextStands == Inv /\ DataInv /\ [Next]_vars => DataInv'
<1> SUFFICES ASSUME Inv, DataInv, [Next]_vars PROVE DataInv'
  OBVIOUS
<1>1. ASSUME raw' \in String, Stands(tr', raw') PROVE DataInv'
  BY <1>1 DEF DataInv
<1>2. raw \in String /\ Stands(tr, raw)
  BY DEF DataInv
<1>3. ASSUME NEW content \in Texts, AssistantResponse(content) PROVE DataInv'
  BY <1>1, <1>3, ResponseStands
<1>4. ASSUME NEW n \in Opaques, RedactedContent(n) PROVE DataInv'
  <2> DEFINE a == AccountOpaque(tr, n)
  <2>1. Open /\ tr' = FinishIfStopped(EmitWhole(a, "redacted_thinking")) /\ raw' = raw
    BY <1>4 DEF RedactedContent
  <2>2. SameData(a, a)
    <3>1. DataType(a)
      BY <2>1, OpenStands, OpaqueData, TranslatorAssumption
    <3> HIDE DEF a
    <3>2. QED
      BY <3>1 DEF SameData, DataType
  <2>3. Stands(FinishIfStopped(EmitWhole(a, "redacted_thinking")), raw)
    BY <2>1, <2>2, WholeStands
  <2>4. QED
    BY <1>1, <1>2, <2>1, <2>3
<1>5. ASSUME NEW text \in Thoughts, NEW signed \in BOOLEAN, ReasoningContent(text, signed) PROVE DataInv'
  BY <1>1, <1>2, <1>5, ReasoningStands
<1>6. ASSUME NEW n \in Opaques, ToolUse(n) PROVE DataInv'
  <2> DEFINE a    == AccountOpaque(tr, n)
             used == TRUE
             u    == [a EXCEPT !.toolUsed = used]
  <2>1. Open /\ tr' = FinishIfStopped(EmitWhole(u, "tool_use")) /\ raw' = raw
    BY <1>6 DEF ToolUse
  <2>2. DataType(a)
    BY <2>1, OpenStands, OpaqueData, TranslatorAssumption
  <2>3. SameData(u, a)
    <3> HIDE DEF a, used
    <3>1. IsTranslator(a)
      BY <2>2 DEF DataType
    <3>2. QED
      BY <3>1, FormUpdates
  <2> HIDE DEF u
  <2>4. Stands(FinishIfStopped(EmitWhole(u, "tool_use")), raw)
    BY <2>1, <2>3, WholeStands
  <2>5. QED
    BY <1>1, <1>2, <2>1, <2>4
<1>7. ASSUME UpstreamFailure PROVE DataInv'
  <2> DEFINE yes == TRUE
             s   == [tr EXCEPT !.failed = yes]
  <2>1. tr' = s /\ raw' = raw
    BY <1>7 DEF UpstreamFailure
  <2>2. SameData(s, tr)
    <3> HIDE DEF yes
    <3>1. IsTranslator(tr)
      BY <1>2 DEF Stands, DataType
    <3>2. QED
      BY <3>1, FormUpdates
  <2> HIDE DEF s
  <2>3. Stands(s, raw)
    BY <1>2, <2>2, SameStands
  <2>4. QED
    BY <1>1, <1>2, <2>1, <2>3
<1>8. ASSUME EndOfStream PROVE DataInv'
  <2>1. Open /\ tr' = Finish(tr) /\ raw' = raw
    BY <1>8 DEF EndOfStream, Open
  <2>2. /\ tr.localStop = "none" /\ ~tr.finished /\ DataType(tr) /\ Charged(tr)
        /\ tr.buf = Scan[raw][FALSE].buf /\ tr.inside = Scan[raw][FALSE].inside
        /\ Follows(tr, Scan[raw][FALSE].text)
    BY <2>1, OpenStands
  <2>3. Progress(tr, Scan[raw][FALSE].text)
    BY <2>2 DEF Progress
  <2>4. Stands(Finish(tr), raw)
    BY <1>2, <2>2, <2>3, FinishStands
  <2>5. QED
    BY <1>1, <1>2, <2>1, <2>4
<1>9. ASSUME UNCHANGED vars PROVE DataInv'
  BY <1>1, <1>2, <1>9 DEF vars
<1> QED
  BY <1>3, <1>4, <1>5, <1>6, <1>7, <1>8, <1>9 DEF Next, Push, Over

\* The invariant of what was consumed holds in every reachable state.
THEOREM AlwaysStands == Spec => []DataInv
<1> QED
  BY InitStands, NextStands, AlwaysAgrees, PTL DEF Inv, Init, Spec

\* For every text, tag, list of stop sequences and budget: until a stop latches,
\* what was delivered has been charged and the budget is not used up.
THEOREM DeliveredIsCharged == Spec => []ChargedUntilStop
<1>1. DataInv => ChargedUntilStop
  BY DEF DataInv, Stands, Charged, ChargedUntilStop
<1> QED BY <1>1, AlwaysStands, PTL

\* What is held back is told apart from what was said, and nothing is lost.
LEMMA WholeIsSaid ==
  ASSUME DataInv, tr.localStop = "none"
  PROVE  LET whole == Visible(raw)
             held  == tr.pending \o (IF tr.inside THEN <<>> ELSE tr.buf)
         IN /\ tr.text \o held = whole
            /\ Stops(tr.text \o tr.pending) = {}
            /\ tr.finished => held = <<>>
<1> DEFINE scan == Scan[raw][FALSE]
           whole == Visible(raw)
           rest == Rest(tr)
<1>1. DataType(tr) /\ Stands(tr, raw) /\ raw \in String
  BY DEF DataInv, Stands
<1>2. tr.text \in String /\ tr.pending \in String /\ rest \in String
  BY <1>1 DEF DataType, Rest, String
<1>3. rest = IF tr.inside THEN <<>> ELSE tr.buf
  BY DEF Rest
<1>4. CASE ~tr.finished
  <2>1. tr.buf = scan.buf /\ tr.inside = scan.inside /\ Follows(tr, scan.text)
    BY <1>1, <1>4 DEF Stands
  <2>2. whole = scan.text \o rest
    BY <1>3, <2>1 DEF Visible
  <2>3. tr.text \o tr.pending = scan.text /\ Stops(tr.text \o tr.pending) = {}
    BY <2>1 DEF Follows
  <2> HIDE DEF whole, rest, scan
  <2>4. tr.text \o (tr.pending \o rest) = (tr.text \o tr.pending) \o rest
    BY <1>2, Associates
  <2>5. QED
    BY <1>3, <1>4, <2>2, <2>3, <2>4 DEF whole
<1>5. CASE tr.finished
  <2>1. tr.text = whole /\ Stops(whole) = {} /\ tr.pending = <<>> /\ tr.buf = <<>>
    BY <1>1, <1>5 DEF Stands
  <2>2. rest = <<>>
    BY <1>3, <2>1
  <2>3. tr.text \o <<>> = tr.text /\ <<>> \o <<>> = <<>>
    BY <1>2, EmptyIsNeutral
  <2> HIDE DEF whole, rest
  <2>4. QED
    BY <1>3, <2>1, <2>2, <2>3 DEF whole
<1>6. QED
  BY <1>4, <1>5

\* Whatever the stop sequences: what was said is how the visible text of the whole
\* response starts, and while no stop has latched the rest of it is held back.
SaidInOrder ==
  /\ IsStart(tr.text, Visible(raw))
  /\ tr.localStop = "none" =>
       tr.text \o (tr.pending \o (IF tr.inside THEN <<>> ELSE tr.buf)) = Visible(raw)

\* What was said is in the order of the response, for every list of stop sequences.
THEOREM TextIsAStart == Spec => []SaidInOrder
<1>1. DataInv => SaidInOrder
  <2> SUFFICES ASSUME DataInv PROVE SaidInOrder
    OBVIOUS
  <2> DEFINE held == tr.pending \o (IF tr.inside THEN <<>> ELSE tr.buf)
  <2>1. CASE tr.localStop = "none"
    <3>1. tr.text \o held = Visible(raw)
      BY <2>1, WholeIsSaid
    <3>2. tr.text \in String /\ held \in String
      <4>1. DataType(tr)
        BY DEF DataInv, Stands
      <4>2. tr.text \in String /\ tr.pending \in String /\ (IF tr.inside THEN <<>> ELSE tr.buf) \in String
        BY <4>1 DEF DataType, String
      <4>3. QED
        BY <4>2, Concatenated
    <3> HIDE DEF held
    <3>3. IsStart(tr.text, tr.text \o held)
      BY <3>2, StartsPart
    <3>4. QED
      BY <3>1, <3>3 DEF SaidInOrder, held
  <2>2. CASE tr.localStop # "none"
    BY <2>2 DEF DataInv, Stands, Done, SaidInOrder
  <2>3. QED
    BY <2>1, <2>2
<1> QED BY <1>1, AlwaysStands, PTL

\* With at most one stop sequence, the text is the visible text of the whole response,
\* cut at the first stop sequence in it, whatever the deltas, the tags and the budget.
THEOREM TextIsCutAlways == SingleStop => (Spec => []TextIsCut)
<1>1. SingleStop /\ DataInv => TextIsCut
  <2> SUFFICES ASSUME SingleStop, DataInv PROVE TextIsCut
    OBVIOUS
  <2>1. CASE tr.localStop = "none"
    BY <2>1, WholeIsSaid DEF TextIsCut
  <2>2. CASE tr.localStop # "none"
    <3>1. Done(tr, Visible(raw)) /\ DataType(tr)
      BY <2>2 DEF DataInv, Stands
    <3>2. tr.localStop \in {"stop_sequence", "max_tokens"}
      BY <2>2, <3>1 DEF DataType
    <3>3. QED
      BY <3>1, <3>2 DEF Done, IsStart, TextIsCut
  <2>3. QED
    BY <2>1, <2>2
<1>2. SingleStop => (Spec => []TextIsCut)
  <2> SUFFICES ASSUME SingleStop PROVE Spec => []TextIsCut
    OBVIOUS
  <2>1. DataInv => TextIsCut
    BY <1>1
  <2>2. QED
    BY <2>1, AlwaysStands, PTL
<1> QED
  BY <1>2
=============================================================================

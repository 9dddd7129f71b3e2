-------------------------- MODULE EventStreamProofs --------------------------
(***************************************************************************)
(* The body of a response, for every sequence of frames, every way to cut  *)
(* it into reads, and every set of limits.                                 *)
(*                                                                         *)
(* The argument is about positions.  The decoder always stands at the end  *)
(* of the last frame taken (FramesInStep), hence the only frame that can   *)
(* be in front of it is the next one (FrontIsNext); when next_frame() has  *)
(* nothing yet, less than a frame is pending, and that is what bounds the  *)
(* buffer at the next read (Position).  The parser matters only through    *)
(* ParseKeeps.                                                             *)
(***************************************************************************)
EXTENDS EventStream, TLAPS

\* The position of the next byte to decode.

Stands == decoder.base + decoder.start

\* What holds of the decoder between any two steps.
Position ==
  /\ wire \in Wires
  /\ TypeOK
  /\ decoder.arrived <= WireLen(wire)
  /\ FramesInStep
  /\ pc = "read" => Pending(decoder) <= MaxFrame
  /\ BufferBounded

\* What a well-formed wire says of the ends of its frames.
LEMMA WireFacts ==
  ASSUME NEW w \in Wires
  PROVE  /\ w \in Seq(WireFrames) /\ Len(w) \in Nat /\ DOMAIN w = 1 .. Len(w)
         /\ \A k \in 0 .. Len(w) : End(w, k) \in Nat
         /\ \A k \in 1 .. Len(w) :
              /\ w[k] \in WireFrames
              /\ w[k].at = End(w, k - 1)
              /\ w[k].size >= PreludeLen
              /\ End(w, k) = w[k].at + w[k].size
              /\ ~PreludeRefused(w[k]) => w[k].claims = w[k].size
              /\ \A j \in 1 .. k - 1 : End(w, j) <= w[k].at
<1>1. w \in Seq(WireFrames) /\ WellFormed(w)
  BY WireAssumption
<1>2. Len(w) \in Nat /\ DOMAIN w = 1 .. Len(w) /\ \A k \in 1 .. Len(w) : w[k] \in WireFrames
  BY <1>1
<1>3. \A k \in 1 .. Len(w) : w[k].at \in Nat /\ w[k].size \in Nat
  BY <1>2 DEF WireFrames
<1>4. \A k \in 0 .. Len(w) : End(w, k) \in Nat
  BY <1>2, <1>3 DEF End
<1>5. \A k \in 1 .. Len(w) : End(w, k) = w[k].at + w[k].size
  BY <1>2 DEF End
<1>6. QED
  BY <1>1, <1>2, <1>4, <1>5 DEF WellFormed

\* The ends of the frames are ordered.
LEMMA EndsGrow ==
  ASSUME NEW w \in Wires, NEW j \in 0 .. Len(w), NEW k \in 1 .. Len(w), j < k
  PROVE  End(w, j) + PreludeLen <= End(w, k) /\ End(w, j) <= w[k].at
<1>1. CASE j = 0
  <2>1. End(w, j) = 0 /\ w[k].at \in Nat /\ w[k].size >= PreludeLen /\ w[k].size \in Nat
    BY <1>1, WireFacts DEF End, WireFrames
  <2>2. QED
    BY <2>1, <1>1, WireFacts, StreamAssumption
<1>2. CASE j # 0
  <2>1. j \in 1 .. k - 1
    BY <1>2, WireFacts
  <2>2. w[k].at \in Nat /\ w[k].size \in Nat /\ End(w, j) \in Nat
    BY WireFacts DEF WireFrames
  <2>3. End(w, j) <= w[k].at /\ End(w, k) = w[k].at + w[k].size /\ w[k].size >= PreludeLen
    BY <2>1, WireFacts
  <2>4. PreludeLen \in Nat
    BY StreamAssumption
  <2>5. QED
    BY <2>2, <2>3, <2>4
<1>3. QED
  BY <1>1, <1>2

\* The only frame that begins where the k-th ends is the next one.
LEMMA FrontIsNext ==
  ASSUME NEW w \in Wires, NEW d, NEW k \in 0 .. Len(w), d.base + d.start = End(w, k)
  PROVE  FrontFrames(w, d) = {k + 1} \cap 1 .. Len(w)
<1>1. ASSUME NEW j \in 1 .. Len(w), w[j].at = End(w, k)
      PROVE  j = k + 1
  <2>1. CASE j <= k
    <3>1. End(w, j) = w[j].at + w[j].size /\ w[j].size >= PreludeLen /\ w[j].size \in Nat
          /\ w[j].at \in Nat
      BY WireFacts DEF WireFrames
    <3>2. CASE j = k
      BY <3>1, <3>2, <1>1, StreamAssumption
    <3>3. CASE j < k
      <4>1. End(w, j) <= End(w, k)
        BY <3>3, EndsGrow, WireFacts, StreamAssumption
      <4>2. QED
        BY <4>1, <3>1, <1>1, StreamAssumption
    <3>4. QED
      BY <3>2, <3>3, <2>1, WireFacts
  <2>2. CASE j > k + 1
    <3>1. k + 1 \in 1 .. j - 1 /\ k + 1 \in 1 .. Len(w)
      BY <2>2, WireFacts
    <3>2. End(w, k + 1) <= w[j].at
      BY <3>1, WireFacts
    <3>3. End(w, k) + PreludeLen <= End(w, k + 1)
      BY <3>1, EndsGrow, WireFacts
    <3>4. QED
      BY <3>1, <3>2, <3>3, <1>1, WireFacts, StreamAssumption
  <2>3. QED
    BY <2>1, <2>2, WireFacts
<1>2. ASSUME k + 1 \in 1 .. Len(w)
      PROVE  w[k + 1].at = End(w, k)
  <2>1. w[k + 1].at = End(w, (k + 1) - 1)
    BY <1>2, WireFacts
  <2>2. QED
    BY <2>1
<1>3. DOMAIN w = 1 .. Len(w)
  BY WireFacts
<1>4. FrontFrames(w, d) = {j \in 1 .. Len(w) : w[j].at = End(w, k)}
  BY <1>3 DEF FrontFrames
<1>5. QED
  BY <1>1, <1>2, <1>4

-----------------------------------------------------------------------------
(* The parser.                                                             *)

\* What the accumulator may hold.
Capped(calls) == \A p \in DOMAIN calls : calls[p].length <= MaxToolInput

\* A fragment keeps the types, and the cap: what it makes of the accumulator,
\* and what it hands out.
LEMMA ParseKeeps ==
  ASSUME wire \in Wires, tool \in Calls, tool.length <= MaxToolInput, NEW k \in DOMAIN wire,
         NEW r, r = Parse(tool, k, wire[k].payload)
  PROVE  /\ r.tool \in Calls /\ r.tool.length <= MaxToolInput
         /\ r.events \in Seq(Calls) /\ Capped(r.events)
         /\ r.status \in {"events", "failure", "error"}
         /\ r.status = "error" => wire[k].payload.kind \in {"malformed", "tool"}
         /\ r.status = "failure" => wire[k].payload.kind = "failure"
         /\ r.status = "error" /\ wire[k].payload.kind = "tool" => r.tool = Idle
<1> DEFINE v == wire[k].payload
<1>1. v \in Payloads /\ k \in Nat /\ DOMAIN wire \subseteq Nat
  <2>1. wire[k] \in WireFrames /\ k \in Nat
    BY WireFacts
  <2>2. v \in Payloads
    BY <2>1 DEF WireFrames
  <2>3. QED
    BY <2>1, <2>2, WireFacts
<1>2. Idle \in Calls /\ Idle.length <= MaxToolInput
  BY StreamAssumption DEF Idle, Calls, NoName
<1>3. CASE v.kind = "tool"
  <2> DEFINE current == Current(tool, k, v)
             named == Named(current, k, v)
             extended == Extended(named, k, v)
  <2>1. current \in Calls /\ current.length <= MaxToolInput
    <3>1. (IF v.id # NoId THEN v.id ELSE Uuid(k)) \in Ids \cup {NoId} \cup {Uuid(j) : j \in DOMAIN wire}
      BY <1>1 DEF Payloads
    <3>2. OpenedCall(tool, k, v) \in Calls /\ OpenedCall(tool, k, v).length <= MaxToolInput
      BY <3>1, <1>2 DEF OpenedCall, Idle, Calls, NoName
    <3>3. QED
      BY <3>2 DEF Current
  <2>2. named \in Calls /\ named.length <= MaxToolInput
    BY <2>1, <1>1 DEF Named, Calls
  <2>3. ASSUME ~OverCap(named, v)
        PROVE  extended \in Calls /\ extended.length <= MaxToolInput
    <3>1. v.length \in Nat /\ v.input \in {"none", "text", "object"}
      BY <1>1 DEF Payloads
    <3>2. named.input \in Seq(Nat) /\ named.length \in Nat
      BY <2>2 DEF Calls
    <3>3. Append(named.input, k) \in Seq(Nat) /\ <<k>> \in Seq(Nat)
      BY <3>2, <1>1
    <3>4. CASE v.input = "text"
      <4>1. extended = [named EXCEPT !.input = Append(@, k), !.length = @ + v.length]
        BY <3>4 DEF Extended
      <4>2. named.length + v.length <= MaxToolInput
        BY <2>3, <3>4, <3>1, <3>2, StreamAssumption DEF OverCap
      <4>3. named.length + v.length \in Nat
        BY <3>1, <3>2
      <4>4. extended = [id |-> named.id, name |-> named.name, input |-> Append(named.input, k),
                        length |-> named.length + v.length]
        BY <4>1, <2>2 DEF Calls
      <4>5. QED
        BY <4>2, <4>3, <4>4, <3>3, <2>2 DEF Calls
    <3>5. CASE v.input = "object"
      <4>1. extended = [named EXCEPT !.input = <<k>>, !.length = v.length]
        BY <3>5 DEF Extended
      <4>2. v.length <= MaxToolInput
        BY <2>3, <3>5, <3>1, StreamAssumption DEF OverCap
      <4>3. QED
        BY <4>1, <4>2, <3>1, <3>3, <2>2 DEF Calls
    <3>6. CASE v.input = "none"
      BY <3>6, <2>2 DEF Extended
    <3>7. QED
      BY <3>1, <3>4, <3>5, <3>6
  <2>4. Flushed(tool, v) \in Seq(Calls) /\ Capped(Flushed(tool, v))
    <3>1. <<tool>> \in Seq(Calls) /\ Capped(<<tool>>)
      BY DEF Capped
    <3>2. <<>> \in Seq(Calls) /\ Capped(<<>>)
      BY DEF Capped
    <3>3. QED
      BY <3>1, <3>2 DEF Flushed
  <2>5. ASSUME ~OverCap(named, v)
        PROVE  Append(Flushed(tool, v), extended) \in Seq(Calls)
               /\ Capped(Append(Flushed(tool, v), extended))
    BY <2>3, <2>4, <2>5 DEF Capped
  <2>6. r = ToolUse(tool, k, v)
    BY <1>3 DEF Parse
  <2>7. CASE OverCap(named, v)
    <3>1. r = Result("error", <<>>, Idle)
      BY <2>6, <2>7 DEF ToolUse
    <3>2. QED
      BY <3>1, <1>2, <1>3 DEF Result, Capped
  <2>8. CASE ~OverCap(named, v) /\ v.stop
    <3>1. r = Result("events", Append(Flushed(tool, v), extended), Idle)
      BY <2>6, <2>8 DEF ToolUse
    <3>2. QED
      BY <3>1, <1>2, <2>5, <2>8 DEF Result
  <2>9. CASE ~OverCap(named, v) /\ ~v.stop
    <3>1. r = Result("events", Flushed(tool, v), extended)
      BY <2>6, <2>9 DEF ToolUse
    <3>2. QED
      BY <3>1, <2>3, <2>4, <2>9 DEF Result
  <2>10. QED
    BY <2>7, <2>8, <2>9
<1>0. <<>> \in Seq(Calls) /\ Capped(<<>>)
  BY DEF Capped
<1>4. CASE v.kind = "malformed"
  BY <1>0, <1>4 DEF Parse, Result
<1>5. CASE v.kind = "failure"
  BY <1>0, <1>5 DEF Parse, Result
<1>6. CASE v.kind \notin {"tool", "malformed", "failure"}
  BY <1>0, <1>6 DEF Parse, Result
<1>7. QED
  BY <1>3, <1>4, <1>5, <1>6
-----------------------------------------------------------------------------
(* The loop.                                                               *)

\* What every step preserves.
Inv == Position /\ BlameIsRight /\ EndIsWhole /\ CapHolds

\* The cap, of the calls handed out and of the one in the accumulator.
LEMMA CapParts ==
  ASSUME NEW C, NEW calls \in Seq(C), NEW call \in C
  PROVE  (\A c \in ToSet(Append(calls, call)) : c.length <= MaxToolInput)
         <=> (Capped(calls) /\ call.length <= MaxToolInput)
<1> DEFINE all == Append(calls, call)
<1>1. Len(calls) \in Nat /\ DOMAIN calls = 1 .. Len(calls)
  OBVIOUS
<1>2. DOMAIN all = 1 .. Len(calls) + 1 /\ all[Len(calls) + 1] = call
      /\ \A p \in 1 .. Len(calls) : all[p] = calls[p]
  OBVIOUS
<1>3. \A p \in 1 .. Len(calls) + 1 : p \in 1 .. Len(calls) \/ p = Len(calls) + 1
  BY <1>1
<1>4. Len(calls) + 1 \in 1 .. Len(calls) + 1
      /\ 1 .. Len(calls) \subseteq 1 .. Len(calls) + 1
  BY <1>1
<1> HIDE DEF all
<1>5. (\A c \in ToSet(all) : c.length <= MaxToolInput)
      <=> (Capped(calls) /\ call.length <= MaxToolInput)
  BY <1>1, <1>2, <1>3, <1>4 DEF ToSet, Capped
<1>6. QED
  BY <1>5 DEF all

\* Nothing but the place moves, and the place is one where next() is over.
LEMMA OverKeeps ==
  ASSUME Inv, pc' \in {"lost", "truncated", "undecodable"},
         UNCHANGED <<wire, decoder, tool, frames, delivered>>
  PROVE  Position' /\ EndIsWhole' /\ CapHolds'
  BY DEF Inv, Position, TypeOK, Ways, FramesInStep, BufferBounded, EndIsWhole, CapHolds,
         Assembled, Calls

\* It holds at the start.
LEMMA InitInv == Init => Inv
<1> SUFFICES ASSUME Init PROVE Inv
  OBVIOUS
<1> USE DEF Init
<1>1. wire \in Wires /\ Len(wire) \in Nat /\ WireLen(wire) \in Nat
  BY WireFacts DEF WireLen
<1>2. BufLen(decoder) = 0 /\ Pending(decoder) = 0 /\ Stands = 0 /\ decoder.arrived = 0
      /\ decoder \in Decoders
  BY DEF NewDecoder, BufLen, Pending, Stands, Decoders
<1>3. End(wire, 0) = 0
  BY DEF End
<1>4. Idle \in Calls /\ Idle.length <= MaxToolInput
  BY StreamAssumption DEF Idle, Calls, NoName
<1>5. TypeOK
  BY <1>1, <1>2, <1>4 DEF TypeOK, Ways
<1>6. FramesInStep
  <2>1. ASSUME NEW k \in DOMAIN wire PROVE k <= frames <=> End(wire, k) <= decoder.arrived
    <3>1. k \in 1 .. Len(wire)
      BY WireFacts
    <3>2. End(wire, 0) + PreludeLen <= End(wire, k) /\ End(wire, k) \in Nat
      BY <3>1, <1>1, EndsGrow, WireFacts
    <3>3. QED
      BY <3>1, <3>2, <1>2, <1>3, StreamAssumption
  <2>2. QED
    BY <2>1, <1>2, <1>3 DEF FramesInStep, Stands
<1>7. Position
  BY <1>1, <1>2, <1>5, <1>6, StreamAssumption DEF Position, BufferBounded
<1>8. CapHolds
  <2>1. Capped(delivered)
    BY DEF Capped
  <2>2. QED
    BY <2>1, <1>4, <1>5, CapParts DEF CapHolds, Assembled, TypeOK
<1>9. QED
  BY <1>7, <1>8 DEF Inv, BlameIsRight, EndIsWhole

\* A read: lazy draining leaves at most twice what was pending.
LEMMA ReadKeeps ==
  ASSUME Inv, NEW n \in 0 .. MaxChunk, Read(n)
  PROVE  Inv'
<1>1. /\ decoder \in Decoders /\ Pending(decoder) >= 0 /\ Pending(decoder) <= MaxFrame
      /\ n \in Nat /\ n <= MaxChunk /\ MaxFrame \in Nat /\ MaxChunk \in Nat
  BY StreamAssumption DEF Inv, Position, TypeOK, Read
<1> DEFINE c == Compact(decoder)
<1>2. /\ c \in Decoders /\ c.base + c.start = decoder.base + decoder.start
      /\ c.arrived = decoder.arrived
      /\ c.start * 2 <= BufLen(c) \/ c.start = 0
      /\ Pending(c) = Pending(decoder)
  <2>1. CASE decoder.start > 0 /\ decoder.start * 2 > BufLen(decoder)
    <3>1. c = [base |-> decoder.base + decoder.start, start |-> 0, arrived |-> decoder.arrived]
      BY <2>1, <1>1 DEF Compact, Decoders
    <3>2. QED
      BY <3>1, <1>1 DEF Decoders, Pending, BufLen
  <2>2. CASE ~(decoder.start > 0 /\ decoder.start * 2 > BufLen(decoder))
    <3>1. c = decoder
      BY <2>2 DEF Compact
    <3>2. QED
      BY <3>1, <2>2, <1>1 DEF Decoders, Pending, BufLen
  <2>3. QED
    BY <2>1, <2>2
<1>3. decoder' = [base |-> c.base, start |-> c.start, arrived |-> c.arrived + n]
  BY <1>2 DEF Read, Push, Decoders
<1>4. /\ decoder' \in Decoders /\ Pending(decoder') >= 0
      /\ decoder'.base + decoder'.start = decoder.base + decoder.start
      /\ decoder'.arrived = decoder.arrived + n
      /\ BufLen(decoder') <= 2 * MaxFrame + MaxChunk
  BY <1>1, <1>2, <1>3 DEF Decoders, Pending, BufLen
<1>5. UNCHANGED <<wire, tool, frames, delivered>> /\ pc' = "decode"
      /\ decoder.arrived + n <= WireLen(wire)
  BY DEF Read, Goto
<1>6. TypeOK'
  BY <1>4, <1>5 DEF Inv, Position, TypeOK, Ways, Calls
<1>7. FramesInStep'
  BY <1>4, <1>5 DEF Inv, Position, FramesInStep
<1>8. Position'
  BY <1>4, <1>5, <1>6, <1>7 DEF Inv, Position, BufferBounded
<1>9. CapHolds'
  BY <1>5 DEF Inv, CapHolds, Assembled
<1>10. QED
  BY <1>5, <1>8, <1>9 DEF Inv, BlameIsRight, EndIsWhole

\* The frame in front, in a position that Inv allows.
LEMMA AtFront ==
  ASSUME Inv
  PROVE  /\ frames \in 0 .. Len(wire) /\ Len(wire) \in Nat /\ wire \in Wires
         /\ FrontFrames(wire, decoder) = {frames + 1} \cap 1 .. Len(wire)
         /\ Stands = End(wire, frames) /\ End(wire, frames) \in Nat
         /\ Pending(decoder) = decoder.arrived - End(wire, frames)
         /\ decoder.base \in Nat /\ decoder.start \in Nat /\ decoder.arrived \in Nat
<1>1. /\ frames \in 0 .. Len(wire) /\ wire \in Wires /\ decoder \in Decoders
      /\ Stands = End(wire, frames)
  BY DEF Inv, Position, TypeOK, FramesInStep, Stands
<1>2. FrontFrames(wire, decoder) = {frames + 1} \cap 1 .. Len(wire)
  BY <1>1, FrontIsNext DEF Stands
<1>3. decoder.base \in Nat /\ decoder.start \in Nat /\ decoder.arrived \in Nat
  BY <1>1 DEF Decoders
<1>4. Pending(decoder) = decoder.arrived - Stands
  BY <1>3 DEF Pending, BufLen, Stands
<1>5. QED
  BY <1>1, <1>2, <1>3, <1>4, WireFacts

\* next_frame() has nothing yet: what is left is less than a frame.
LEMMA NoFrameKeeps ==
  ASSUME Inv, NoFrame
  PROVE  Inv'
<1>1. UNCHANGED <<wire, decoder, tool, frames, delivered>> /\ pc' = "read" /\ NeedsMore(wire, decoder)
  BY DEF NoFrame, Goto
<1>2. Pending(decoder) <= MaxFrame
      /\ (frames < Len(wire) => decoder.arrived < End(wire, frames + 1))
  <2>1. ASSUME frames < Len(wire)
        PROVE  /\ frames + 1 \in 1 .. Len(wire) /\ wire[frames + 1] \in WireFrames
               /\ wire[frames + 1].size >= PreludeLen
               /\ End(wire, frames + 1) = End(wire, frames) + wire[frames + 1].size
               /\ ~PreludeRefused(wire[frames + 1]) => wire[frames + 1].claims = wire[frames + 1].size
    <3>1. frames + 1 \in 1 .. Len(wire)
      BY <2>1, AtFront
    <3>2. wire[frames + 1].at = End(wire, (frames + 1) - 1)
      BY <3>1, AtFront, WireFacts
    <3>3. (frames + 1) - 1 = frames
      BY AtFront
    <3>4. QED
      BY <3>1, <3>2, <3>3, AtFront, WireFacts
  <2>2. CASE Pending(decoder) < PreludeLen
    <3>1. Pending(decoder) <= MaxFrame
      BY <2>2, AtFront, StreamAssumption DEF MinFrame
    <3>2. ASSUME frames < Len(wire)
          PROVE  decoder.arrived < End(wire, frames + 1)
      <4>1. wire[frames + 1].size \in Nat
        BY <3>2, <2>1 DEF WireFrames
      <4>2. QED
        BY <4>1, <3>2, <2>1, <2>2, AtFront, StreamAssumption
    <3>3. QED
      BY <3>1, <3>2
  <2>3. CASE \E k \in FrontFrames(wire, decoder) :
               ~PreludeRefused(wire[k]) /\ Pending(decoder) < wire[k].claims
    <3>1. /\ frames + 1 \in 1 .. Len(wire) /\ ~PreludeRefused(wire[frames + 1])
          /\ Pending(decoder) < wire[frames + 1].claims
      BY <2>3, AtFront
    <3>2. frames < Len(wire)
      BY <3>1, AtFront
    <3>3. wire[frames + 1].claims <= MaxFrame /\ wire[frames + 1].claims \in Nat
          /\ wire[frames + 1].size \in Nat
      BY <3>1, <3>2, <2>1, StreamAssumption DEF PreludeRefused, WireFrames
    <3>4. QED
      BY <3>1, <3>2, <3>3, <2>1, AtFront, StreamAssumption
  <2>4. QED
    BY <1>1, <2>2, <2>3 DEF NeedsMore
<1>3. FramesInStep'
  <2>1. ASSUME NEW k \in DOMAIN wire
        PROVE  k <= frames <=> End(wire, k) <= decoder.arrived
    <3>1. k \in 1 .. Len(wire) /\ End(wire, k) \in Nat
      BY AtFront, WireFacts
    <3>2. CASE k <= frames
      <4>1. End(wire, k) <= End(wire, frames)
        <5>1. CASE k = frames
          BY <5>1, AtFront
        <5>2. CASE k < frames
          BY <5>2, <3>1, AtFront, EndsGrow, StreamAssumption
        <5>3. QED
          BY <5>1, <5>2, <3>2, <3>1, AtFront
      <4>2. Pending(decoder) >= 0
        BY DEF Inv, Position, TypeOK
      <4>3. QED
        BY <4>1, <4>2, <3>1, <3>2, AtFront
    <3>3. CASE k > frames
      <4>1. frames < Len(wire) /\ frames + 1 \in 1 .. Len(wire)
        BY <3>1, <3>3, AtFront
      <4>2. End(wire, frames + 1) <= End(wire, k) /\ End(wire, frames + 1) \in Nat
        <5>1. CASE k = frames + 1
          BY <5>1, <3>1
        <5>2. CASE frames + 1 < k
          BY <5>2, <4>1, <3>1, AtFront, EndsGrow, WireFacts, StreamAssumption
        <5>3. QED
          BY <5>1, <5>2, <3>3, <3>1, AtFront
      <4>3. QED
        BY <4>1, <4>2, <1>2, <3>1, <3>3, AtFront
    <3>4. QED
      BY <3>1, <3>2, <3>3, AtFront
  <2>2. QED
    BY <2>1, <1>1 DEF Inv, Position, FramesInStep
<1>4. Position'
  BY <1>1, <1>2, <1>3 DEF Inv, Position, TypeOK, Ways, BufferBounded, Calls
<1>5. CapHolds'
  BY <1>1 DEF Inv, CapHolds, Assembled
<1>6. QED
  BY <1>1, <1>4, <1>5 DEF Inv, BlameIsRight, EndIsWhole

\* The decoder gives up: the frame in front is there, and unsound.
LEMMA BadFrameKeeps ==
  ASSUME Inv, BadFrame, decoder.arrived <= WireLen(wire)
  PROVE  Inv'
<1>1. UNCHANGED <<wire, decoder, tool, frames, delivered>> /\ pc' = "undecodable"
      /\ Undecodable(wire, decoder)
  BY DEF BadFrame, Goto
<1>2. frames < Len(wire)
  <2>1. Pending(decoder) >= PreludeLen
    BY <1>1, AtFront, StreamAssumption DEF Undecodable, NeedsMore
  <2>2. End(wire, frames) < WireLen(wire)
    BY <2>1, AtFront, WireFacts, StreamAssumption DEF WireLen
  <2>3. QED
    BY <2>2, AtFront DEF WireLen
<1>3. frames + 1 \in FrontFrames(wire, decoder)
  BY <1>2, AtFront
<1>4. ~Sound(wire[frames + 1])
  BY <1>1, <1>3 DEF Undecodable, NextFrames
<1>5. QED
  BY <1>1, <1>2, <1>4, OverKeeps DEF Inv, BlameIsRight

\* The body ends inside a frame.
LEMMA EndInsideKeeps ==
  ASSUME Inv, EndInside
  PROVE  Inv'
<1>1. UNCHANGED <<wire, decoder, tool, frames, delivered>> /\ pc' = "truncated"
      /\ pc = "read" /\ Pending(decoder) > 0
  BY DEF EndInside, Goto
<1>2. decoder.arrived > End(wire, frames)
  BY <1>1, AtFront
<1>3. decoder.arrived < WireLen(wire)
  <2>1. CASE frames = Len(wire)
    BY <2>1, <1>2, AtFront DEF Inv, Position, WireLen
  <2>2. CASE frames < Len(wire)
    <3>1. Len(wire) \in DOMAIN wire /\ ~(Len(wire) <= frames)
      BY <2>2, AtFront, WireFacts
    <3>2. ~(End(wire, Len(wire)) <= decoder.arrived)
      BY <3>1, <1>1 DEF Inv, Position, FramesInStep
    <3>3. End(wire, Len(wire)) \in Nat
      BY AtFront, WireFacts
    <3>4. QED
      BY <3>2, <3>3, AtFront DEF WireLen
  <2>3. QED
    BY <2>1, <2>2, AtFront
<1>4. QED
  BY <1>1, <1>2, <1>3, OverKeeps DEF Inv, BlameIsRight

\* The body ends between two frames.
LEMMA EndCleanKeeps ==
  ASSUME Inv, EndClean
  PROVE  Inv'
<1>1. /\ UNCHANGED <<wire, decoder, frames>> /\ pc' = "ended" /\ Pending(decoder) = 0
      /\ delivered' = delivered \o Finish(tool)
      /\ tool' = IF tool.id = NoId THEN tool ELSE Idle
  BY DEF EndClean, Goto
<1>2. tool \in Calls /\ delivered \in Seq(Calls) /\ Capped(delivered) /\ tool.length <= MaxToolInput
  BY CapParts DEF Inv, Position, TypeOK, CapHolds, Assembled
<1>3. Finish(tool) \in Seq(Calls) /\ Capped(Finish(tool))
  <2>1. <<>> \in Seq(Calls) /\ Capped(<<>>) /\ <<tool>> \in Seq(Calls) /\ Capped(<<tool>>)
    BY <1>2 DEF Capped
  <2>2. QED
    BY <2>1 DEF Finish
<1>4. delivered' \in Seq(Calls) /\ Capped(delivered')
  BY <1>1, <1>2, <1>3 DEF Capped
<1>5. tool' \in Calls /\ tool'.length <= MaxToolInput /\ tool'.id = NoId
  BY <1>1, <1>2, StreamAssumption DEF Idle, Calls, NoName
<1>6. Calls' = Calls
  BY <1>1 DEF Calls
<1>7. CapHolds'
  <2>1. (\A call \in ToSet(Assembled) : call.length <= MaxToolInput)'
    BY <1>4, <1>5, <1>6, CapParts DEF Assembled
  <2>2. QED
    BY <2>1, <1>1 DEF CapHolds
<1>8. Position'
  BY <1>1, <1>4, <1>5, <1>6 DEF Inv, Position, TypeOK, Ways, FramesInStep, BufferBounded
<1>9. EndIsWhole'
  BY <1>1, <1>5, AtFront DEF EndIsWhole
<1>10. QED
  BY <1>1, <1>7, <1>8, <1>9 DEF Inv, BlameIsRight

\* A frame is taken: it was the next one, it is all there, and what it makes
\* of the parser keeps to the cap.
LEMMA TakenKeeps ==
  ASSUME Inv, NEW k \in DOMAIN wire, NEW result, result = Parse(tool, k, wire[k].payload),
         Taken(k, result), pc' \in {"decode", "stopped", "refused", "failed"},
         delivered' \in Seq(Calls), Capped(delivered')
  PROVE  /\ Position' /\ EndIsWhole'
         /\ frames' = k /\ wire' = wire /\ tool' = result.tool
         /\ (\A call \in ToSet(Assembled) : call.length <= MaxToolInput)'
<1>1. /\ k \in NextFrames(wire, decoder) /\ decoder' = Advance(wire, decoder, k)
      /\ frames' = frames + 1 /\ tool' = result.tool /\ wire' = wire
  BY DEF Taken
<1>2. k = frames + 1 /\ k \in 1 .. Len(wire)
  BY <1>1, AtFront DEF NextFrames
<1>3. /\ wire[k].claims = wire[k].size /\ wire[k].claims \in Nat
      /\ End(wire, k) = End(wire, frames) + wire[k].size
  <2>1. ~PreludeRefused(wire[k])
    BY <1>1 DEF NextFrames, Sound
  <2>2. wire[k].at = End(wire, k - 1) /\ k - 1 = frames
    BY <1>2, AtFront, WireFacts
  <2>3. wire[k] \in WireFrames
    BY <1>2, AtFront, WireFacts
  <2>4. wire[k].claims = wire[k].size /\ wire[k].claims \in Nat
    BY <2>1, <2>3, <1>2, AtFront, WireFacts DEF WireFrames
  <2>5. End(wire, k) = wire[k].at + wire[k].size
    BY <1>2, AtFront, WireFacts
  <2>6. QED
    BY <2>2, <2>4, <2>5
<1>4. Pending(decoder) >= wire[k].claims
  <2>1. ~NeedsMore(wire, decoder) /\ k \in FrontFrames(wire, decoder) /\ ~PreludeRefused(wire[k])
    BY <1>1 DEF NextFrames, Sound
  <2>2. QED
    BY <2>1, <1>3, AtFront DEF NeedsMore
<1>5. decoder' = [base |-> decoder.base, start |-> decoder.start + wire[k].claims,
                  arrived |-> decoder.arrived]
  BY <1>1 DEF Inv, Position, TypeOK, Decoders, Advance
<1>6. /\ decoder' \in Decoders /\ Pending(decoder') >= 0
      /\ decoder'.arrived = decoder.arrived /\ decoder'.base = decoder.base
      /\ decoder'.base + decoder'.start = End(wire, k)
  <2>1. /\ decoder'.base = decoder.base /\ decoder'.arrived = decoder.arrived
        /\ decoder'.start = decoder.start + wire[k].claims
    BY <1>5
  <2>2. /\ decoder.base \in Nat /\ decoder.start \in Nat /\ decoder.arrived \in Nat
        /\ decoder.base + decoder.start = End(wire, frames)
    BY DEF Inv, Position, TypeOK, Decoders, FramesInStep
  <2>3. decoder' \in Decoders
    BY <1>3, <1>5, <2>2 DEF Decoders
  <2>4. Pending(decoder') >= 0
    BY <1>3, <1>4, <2>1, <2>2 DEF Pending, BufLen
  <2>5. End(wire, frames) \in Nat /\ wire[k].claims \in Nat
    BY <1>3, <2>2
  <2>6. decoder'.base + decoder'.start = End(wire, k)
    BY <1>3, <2>1, <2>2, <2>5
  <2>7. QED
    BY <2>1, <2>3, <2>4, <2>6
<1>7. tool \in Calls /\ tool.length <= MaxToolInput
  BY CapParts DEF Inv, Position, TypeOK, CapHolds, Assembled
<1>8. tool' \in Calls /\ tool'.length <= MaxToolInput
  BY <1>1, <1>7, ParseKeeps DEF Inv, Position
<1>9. Calls' = Calls
  BY <1>1 DEF Calls
<1>10. TypeOK'
  BY <1>1, <1>2, <1>6, <1>8, <1>9 DEF TypeOK, Ways
<1>11. FramesInStep'
  BY <1>1, <1>2, <1>6 DEF FramesInStep
<1>12. Position'
  BY <1>1, <1>6, <1>10, <1>11 DEF Inv, Position, BufferBounded, BufLen
<1>13. (\A call \in ToSet(Assembled) : call.length <= MaxToolInput)'
  BY <1>8, CapParts DEF Assembled
<1>14. QED
  BY <1>1, <1>2, <1>12, <1>13 DEF EndIsWhole

\* What has been handed out, and what will be.
LEMMA Known ==
  ASSUME Inv, NEW k \in DOMAIN wire, NEW r, r = Parse(tool, k, wire[k].payload)
  PROVE  /\ delivered \in Seq(Calls) /\ Capped(delivered)
         /\ r.tool \in Calls /\ r.tool.length <= MaxToolInput
         /\ r.events \in Seq(Calls) /\ Capped(r.events)
         /\ r.status \in {"events", "failure", "error"}
         /\ r.status = "error" => wire[k].payload.kind \in {"malformed", "tool"}
         /\ r.status = "failure" => wire[k].payload.kind = "failure"
         /\ r.status = "error" /\ wire[k].payload.kind = "tool" => r.tool = Idle
<1>1. tool \in Calls /\ tool.length <= MaxToolInput /\ delivered \in Seq(Calls) /\ Capped(delivered)
  BY CapParts DEF Inv, Position, TypeOK, CapHolds, Assembled
<1>2. QED
  BY <1>1, ParseKeeps DEF Inv, Position

\* Handing out calls under the cap keeps all under the cap.
LEMMA CappedJoin ==
  ASSUME NEW C, NEW s \in Seq(C), NEW t \in Seq(C), Capped(s), Capped(t)
  PROVE  s \o t \in Seq(C) /\ Capped(s \o t)
  BY DEF Capped

\* So does handing out only the first of them.
LEMMA CappedFirst ==
  ASSUME NEW C, NEW s \in Seq(C), Capped(s), NEW m \in 1 .. Len(s)
  PROVE  SubSeq(s, 1, m) \in Seq(C) /\ Capped(SubSeq(s, 1, m))
  BY DEF Capped

\* All the events of a frame are pushed.
LEMMA DeliverKeeps ==
  ASSUME Inv, NEW k \in DOMAIN wire, Deliver(k)
  PROVE  Inv'
<1> DEFINE result == Parse(tool, k, wire[k].payload)
<1>1. Taken(k, result) /\ delivered' = delivered \o result.events /\ pc' = "decode"
  BY DEF Deliver, Goto
<1>2. delivered' \in Seq(Calls) /\ Capped(delivered')
  BY <1>1, Known, CappedJoin
<1> HIDE DEF result
<1>3. result = Parse(tool, k, wire[k].payload)
  BY DEF result
<1>4. QED
  BY <1>1, <1>2, <1>3, TakenKeeps DEF Inv, BlameIsRight, CapHolds

\* A local stop latches in the middle of a frame.
LEMMA DeliverAndStopKeeps ==
  ASSUME Inv, NEW k \in DOMAIN wire, DeliverAndStop(k)
  PROVE  Inv'
<1> DEFINE result == Parse(tool, k, wire[k].payload)
<1>1. /\ Taken(k, result) /\ pc' = "stopped"
      /\ \/ \E m \in 1 .. Len(result.events) :
              delivered' = delivered \o SubSeq(result.events, 1, m)
         \/ delivered' = delivered
  BY DEF DeliverAndStop, Goto
<1>2. delivered' \in Seq(Calls) /\ Capped(delivered')
  <2>1. /\ delivered \in Seq(Calls) /\ Capped(delivered)
        /\ result.events \in Seq(Calls) /\ Capped(result.events)
    BY Known
  <2>2. CASE delivered' = delivered
    BY <2>1, <2>2
  <2>3. ASSUME NEW m \in 1 .. Len(result.events),
               delivered' = delivered \o SubSeq(result.events, 1, m)
        PROVE  delivered' \in Seq(Calls) /\ Capped(delivered')
    <3>1. SubSeq(result.events, 1, m) \in Seq(Calls) /\ Capped(SubSeq(result.events, 1, m))
      BY <2>1, CappedFirst
    <3>2. QED
      BY <2>1, <2>3, <3>1, CappedJoin
  <2>4. QED
    BY <1>1, <2>2, <2>3
<1> HIDE DEF result
<1>3. result = Parse(tool, k, wire[k].payload)
  BY DEF result
<1>4. QED
  BY <1>1, <1>2, <1>3, TakenKeeps DEF Inv, BlameIsRight, CapHolds

\* The frame is an upstream failure, or its payload is refused.
LEMMA GiveUpKeeps ==
  ASSUME Inv, NEW k \in DOMAIN wire, GiveUp(k)
  PROVE  Inv'
<1> DEFINE result == Parse(tool, k, wire[k].payload)
<1>1. /\ Taken(k, result) /\ result.status # "events" /\ delivered' = delivered
      /\ pc' = IF result.status = "failure" THEN "failed" ELSE "refused"
  BY DEF GiveUp, Goto
<1> HIDE DEF result
<1>2. result = Parse(tool, k, wire[k].payload)
  BY DEF result
<1>3. /\ delivered' \in Seq(Calls) /\ Capped(delivered')
      /\ result.status \in {"failure", "error"}
      /\ result.status = "error" => wire[k].payload.kind \in {"malformed", "tool"}
      /\ result.status = "failure" => wire[k].payload.kind = "failure"
      /\ result.status = "error" /\ wire[k].payload.kind = "tool" => result.tool = Idle
  BY <1>1, <1>2, Known
<1>4. /\ Position' /\ EndIsWhole'
      /\ frames' = k /\ wire' = wire /\ tool' = result.tool
      /\ (\A call \in ToSet(Assembled) : call.length <= MaxToolInput)'
  BY <1>1, <1>2, <1>3, TakenKeeps
<1>5. BlameIsRight'
  BY <1>1, <1>3, <1>4 DEF BlameIsRight
<1>6. CapHolds'
  BY <1>1, <1>3, <1>4 DEF CapHolds
<1>7. QED
  BY <1>4, <1>5, <1>6 DEF Inv

\* The invariant.
THEOREM Invariance == Spec => []Inv
<1>1. ASSUME Inv, [Next]_vars
      PROVE  Inv'
  <2>1. CASE Reading
    <3>1. ASSUME NEW n \in 0 .. MaxChunk, Read(n)
          PROVE  Inv'
      BY <1>1, <3>1, ReadKeeps
    <3>2. CASE Break
      BY <1>1, <3>2, OverKeeps DEF Break, Goto, Inv, BlameIsRight
    <3>3. CASE EndInside
      BY <1>1, <3>3, EndInsideKeeps
    <3>4. CASE EndClean
      BY <1>1, <3>4, EndCleanKeeps
    <3>5. QED
      BY <2>1, <3>1, <3>2, <3>3, <3>4 DEF Reading
  <2>2. CASE Decoding
    <3>1. CASE NoFrame
      BY <1>1, <3>1, NoFrameKeeps
    <3>2. CASE BadFrame
      BY <1>1, <3>2, BadFrameKeeps DEF Inv, Position
    <3>3. ASSUME NEW k \in DOMAIN wire, Deliver(k)
          PROVE  Inv'
      BY <1>1, <3>3, DeliverKeeps
    <3>4. ASSUME NEW k \in DOMAIN wire, DeliverAndStop(k)
          PROVE  Inv'
      BY <1>1, <3>4, DeliverAndStopKeeps
    <3>5. ASSUME NEW k \in DOMAIN wire, GiveUp(k)
          PROVE  Inv'
      BY <1>1, <3>5, GiveUpKeeps
    <3>6. QED
      BY <2>2, <3>1, <3>2, <3>3, <3>4, <3>5 DEF Decoding
  <2>3. CASE UNCHANGED vars
    BY <1>1, <2>3 DEF vars, Inv, Position, TypeOK, FramesInStep, BufferBounded, BlameIsRight,
                      EndIsWhole, CapHolds, Assembled, Calls
  <2>4. QED
    BY <1>1, <2>1, <2>2, <2>3 DEF Next, Over
<1>2. QED
  BY InitInv, <1>1, PTL DEF Spec

\* Every state is well typed; the read position never leaves the buffer.
THEOREM TypeCorrect == Spec => []TypeOK
<1>1. Inv => TypeOK
  BY DEF Inv, Position
<1>2. QED
  BY <1>1, Invariance, PTL

\* The buffer of the decoder never holds more than two frames and one read,
\* although it is drained only when more than half of it has been taken.
THEOREM BufferIsBounded == Spec => []BufferBounded
<1>1. Inv => BufferBounded
  BY DEF Inv, Position
<1>2. QED
  BY <1>1, Invariance, PTL

\* However the bytes are cut, between two reads exactly the frames that have
\* arrived in full have been taken.
THEOREM CutsDoNotMatter == Spec => []FramesInStep
<1>1. Inv => FramesInStep
  BY DEF Inv, Position
<1>2. QED
  BY <1>1, Invariance, PTL

\* A body is given up only for what the upstream did, and one that ended well was
\* delivered whole (Pump::next, next_frame).
THEOREM EndsAreHonest == Spec => []EndIsHonest
<1>1. Inv => EndIsHonest
  BY DEF Inv, EndIsHonest
<1>2. QED
  BY <1>1, Invariance, PTL

\* No call above the cap is held or handed out.
THEOREM CapAlwaysHolds == Spec => []CapHolds
<1>1. Inv => CapHolds
  BY DEF Inv
<1>2. QED
  BY <1>1, Invariance, PTL
-----------------------------------------------------------------------------
(* The fragments.  A step hands out the call in the accumulator, replaces  *)
(* it by one that may also hold the new fragment, or does one after the    *)
(* other; HandedOut and Replaced say what each of the two keeps.           *)

\* A call of the first n frames is made of its own fragments, in order.
Own(w, call, n) ==
  /\ Parts(call) \subseteq 1 .. n
  /\ \A k \in Parts(call) : w[k].payload.id \in {call.id, NoId}
  /\ \A i, j \in DOMAIN call.input : i < j => call.input[i] < call.input[j]

\* The calls handed out and the one in flight are, and share no fragment.
AllOwn(w, calls, call, n) ==
  /\ Own(w, call, n)
  /\ \A p \in DOMAIN calls : Own(w, calls[p], n) /\ Parts(calls[p]) \cap Parts(call) = {}
  /\ \A p, q \in DOMAIN calls : p < q => Parts(calls[p]) \cap Parts(calls[q]) = {}

\* Fragment k is text and says whose it is.
Says(w, k) ==
  w[k].payload.kind = "tool" /\ w[k].payload.input = "text" /\ w[k].payload.id # NoId

\* An object among the first n frames has replaced it.
Superseded(w, k, n) ==
  \E j \in k + 1 .. n : /\ w[j].payload.kind = "tool" /\ w[j].payload.input = "object"
                        /\ w[j].payload.id \in {w[k].payload.id, NoId}

\* None of them is lost among the first n frames.
AllKept(w, calls, call, n) ==
  \A k \in 1 .. n :
    Says(w, k) =>
      \/ \E p \in DOMAIN calls : k \in ToSet(calls[p].input)
      \/ k \in ToSet(call.input)
      \/ Superseded(w, k, n)

\* What fragment k makes of call c: nothing but k comes in, and what goes is
\* superseded or was nobody's.
Continues(w, c, new, k) ==
  /\ Own(w, new, k)
  /\ Parts(new) \subseteq Parts(c) \cup {k}
  /\ Says(w, k) => k \in ToSet(new.input)
  /\ \A j \in ToSet(c.input) :
       Says(w, j) => j \in ToSet(new.input) \/ Superseded(w, j, k)

\* The invariant.
Accounted ==
  /\ AllOwn(wire, delivered, tool, frames)
  /\ pc \in {"read", "decode", "ended"} => AllKept(wire, delivered, tool, frames)

\* Two elements, one added behind the other.
LEMMA PairMade ==
  ASSUME NEW x, NEW y
  PROVE  Append(<<x>>, y) = <<x, y>>
<1> DEFINE made == Append(<<x>>, y)
<1>1. <<x>> \in Seq({x, y}) /\ Len(<<x>>) = 1 /\ <<x>>[1] = x
  OBVIOUS
<1>2. made \in Seq({x, y}) /\ Len(made) = 2 /\ made[1] = x /\ made[2] = y
  BY <1>1
<1>3. <<x, y>> \in Seq({x, y}) /\ Len(<<x, y>>) = 2 /\ <<x, y>>[1] = x /\ <<x, y>>[2] = y
  OBVIOUS
<1> HIDE DEF made
<1>4. made = <<x, y>>
  BY <1>2, <1>3
<1>5. QED
  BY <1>4 DEF made

\* The idle accumulator holds no part of any call.
LEMMA IdleIsEmpty == Parts(Idle) = {} /\ ToSet(Idle.input) = {} /\ \A w, n : Own(w, Idle, n)
  BY DEF Parts, Idle, ToSet, NoName, Own

\* Handing out the call in the accumulator, whatever takes its place.
LEMMA HandedOut ==
  ASSUME NEW w, NEW C, NEW calls \in Seq(C), NEW call \in C, NEW n \in Nat,
         AllOwn(w, calls, call, n)
  PROVE  /\ AllOwn(w, Append(calls, call), Idle, n)
         /\ AllKept(w, calls, call, n) => AllKept(w, Append(calls, call), Idle, n)
<1> DEFINE all == Append(calls, call)
<1>1. Len(calls) \in Nat /\ DOMAIN calls = 1 .. Len(calls)
  OBVIOUS
<1>2. DOMAIN all = 1 .. Len(calls) + 1 /\ all[Len(calls) + 1] = call
      /\ \A p \in 1 .. Len(calls) : all[p] = calls[p]
  OBVIOUS
<1>3. \A p \in 1 .. Len(calls) + 1 : p \in 1 .. Len(calls) \/ p = Len(calls) + 1
  BY <1>1
<1>4. Len(calls) + 1 \in 1 .. Len(calls) + 1
      /\ 1 .. Len(calls) \subseteq 1 .. Len(calls) + 1
  BY <1>1
<1> HIDE DEF all
<1>5. \A p \in DOMAIN all : Own(w, all[p], n) /\ Parts(all[p]) \cap Parts(Idle) = {}
  BY <1>1, <1>2, <1>3, IdleIsEmpty DEF AllOwn
<1>6. ASSUME NEW p \in DOMAIN all, NEW q \in DOMAIN all, p < q
      PROVE  Parts(all[p]) \cap Parts(all[q]) = {}
  <2>1. p \in 1 .. Len(calls) /\ all[p] = calls[p]
    BY <1>1, <1>2, <1>6
  <2>2. CASE q = Len(calls) + 1
    BY <2>1, <2>2, <1>1, <1>2 DEF AllOwn
  <2>3. CASE q \in 1 .. Len(calls)
    BY <2>1, <2>3, <1>1, <1>2, <1>6 DEF AllOwn
  <2>4. QED
    BY <2>2, <2>3, <1>2, <1>3
<1>7. AllOwn(w, all, Idle, n)
  BY <1>5, <1>6, IdleIsEmpty DEF AllOwn
<1>8. AllKept(w, calls, call, n) => AllKept(w, all, Idle, n)
  <2>1. ASSUME NEW k, (\E p \in DOMAIN calls : k \in ToSet(calls[p].input)) \/ k \in ToSet(call.input)
        PROVE  \E p \in DOMAIN all : k \in ToSet(all[p].input)
    <3>1. CASE k \in ToSet(call.input)
      BY <3>1, <1>2, <1>4
    <3>2. CASE \E p \in DOMAIN calls : k \in ToSet(calls[p].input)
      BY <3>2, <1>1, <1>2, <1>4
    <3>3. QED
      BY <2>1, <3>1, <3>2
  <2>2. QED
    BY <2>1 DEF AllKept
<1>9. QED
  BY <1>7, <1>8 DEF all

\* The next frame makes something else of the call in the accumulator.
LEMMA ReplacedBy ==
  ASSUME NEW w, NEW calls, NEW call, NEW new, NEW n \in Nat,
         AllOwn(w, calls, call, n), Continues(w, call, new, n + 1)
  PROVE  /\ AllOwn(w, calls, new, n + 1)
         /\ AllKept(w, calls, call, n) => AllKept(w, calls, new, n + 1)
<1>1. 1 .. n \subseteq 1 .. n + 1 /\ n + 1 \notin 1 .. n /\ n + 1 \in 1 .. n + 1
      /\ \A k \in 1 .. n + 1 : k \in 1 .. n \/ k = n + 1
  OBVIOUS
<1>2. ASSUME NEW p \in DOMAIN calls
      PROVE  Own(w, calls[p], n + 1) /\ Parts(calls[p]) \cap Parts(new) = {}
  <2>1. Own(w, calls[p], n) /\ Parts(calls[p]) \cap Parts(call) = {}
    BY DEF AllOwn
  <2>2. Parts(new) \subseteq Parts(call) \cup {n + 1}
    BY DEF Continues
  <2>3. Own(w, calls[p], n + 1)
    BY <2>1, <1>1 DEF Own
  <2>4. n + 1 \notin Parts(calls[p])
    BY <2>1, <1>1 DEF Own
  <2>5. QED
    BY <2>1, <2>2, <2>3, <2>4
<1>3. AllOwn(w, calls, new, n + 1)
  BY <1>2 DEF AllOwn, Continues
<1>4. ASSUME AllKept(w, calls, call, n), NEW k \in 1 .. n + 1, Says(w, k)
      PROVE  \/ \E p \in DOMAIN calls : k \in ToSet(calls[p].input)
             \/ k \in ToSet(new.input)
             \/ Superseded(w, k, n + 1)
  <2>1. CASE k = n + 1
    BY <2>1, <1>4 DEF Continues
  <2>2. CASE k \in 1 .. n
    <3>1. CASE \E p \in DOMAIN calls : k \in ToSet(calls[p].input)
      BY <3>1
    <3>2. CASE k \in ToSet(call.input)
      BY <3>2, <1>4 DEF Continues
    <3>3. CASE Superseded(w, k, n)
      <4>1. k + 1 .. n \subseteq k + 1 .. n + 1
        BY <2>2
      <4>2. QED
        BY <3>3, <4>1 DEF Superseded
    <3>4. QED
      BY <2>2, <3>1, <3>2, <3>3, <1>4 DEF AllKept
  <2>3. QED
    BY <2>1, <2>2, <1>1
<1>5. QED
  BY <1>3, <1>4 DEF AllKept

\* A frame that leaves the accumulator alone, or empties it.
LEMMA NothingNew ==
  ASSUME NEW w, NEW call, NEW n \in Nat, Own(w, call, n), ~Says(w, n + 1)
  PROVE  Continues(w, call, call, n + 1)
<1>1. 1 .. n \subseteq 1 .. n + 1
  OBVIOUS
<1>2. QED
  BY <1>1 DEF Continues, Own

\* A fragment added to a call that is its own.
LEMMA FragmentAdded ==
  ASSUME NEW w, NEW c \in Calls, NEW n \in Nat, Own(w, c, n),
         NEW v, v = w[n + 1].payload, v \in Payloads, v.kind = "tool", v.id \in {c.id, NoId},
         NEW new, new = Extended(Named(c, n + 1, v), n + 1, v)
  PROVE  Continues(w, c, new, n + 1)
<1> DEFINE k == n + 1
           named == Named(c, k, v)
<1>1. /\ named.id = c.id /\ named.input = c.input
      /\ named.name \in {c.name, k}
      /\ named = [id |-> c.id, name |-> named.name, input |-> c.input, length |-> c.length]
  BY DEF Named, Calls
<1>2. /\ new.id = c.id /\ new.name \in {c.name, k}
      /\ new.input = CASE v.input = "text" -> Append(c.input, k)
                       [] v.input = "object" -> <<k>>
                       [] OTHER -> c.input
  <2>1. v.input \in {"none", "text", "object"}
    BY DEF Payloads
  <2>2. CASE v.input = "text"
    <3>1. new = [named EXCEPT !.input = Append(@, k), !.length = @ + v.length]
      BY <2>2 DEF Extended
    <3>2. QED
      BY <3>1, <2>2, <1>1
  <2>3. CASE v.input = "object"
    <3>1. new = [named EXCEPT !.input = <<k>>, !.length = v.length]
      BY <2>3 DEF Extended
    <3>2. QED
      BY <3>1, <2>3, <1>1
  <2>4. CASE v.input = "none"
    <3>1. new = named
      BY <2>4 DEF Extended
    <3>2. QED
      BY <3>1, <2>4, <1>1
  <2>5. QED
    BY <2>1, <2>2, <2>3, <2>4
<1>3. c.input \in Seq(Nat) /\ Len(c.input) \in Nat /\ DOMAIN c.input = 1 .. Len(c.input)
      /\ ToSet(c.input) \subseteq 1 .. n
  <2>1. c.input \in Seq(Nat)
    BY DEF Calls
  <2>2. QED
    BY <2>1 DEF Own, Parts
<1> HIDE DEF named
<1>4. /\ ToSet(new.input) \subseteq ToSet(c.input) \cup {k}
      /\ v.input = "text" => k \in ToSet(new.input)
      /\ v.input # "object" => ToSet(c.input) \subseteq ToSet(new.input)
      /\ \A i, j \in DOMAIN new.input : i < j => new.input[i] < new.input[j]
  <2>1. CASE v.input = "text"
    <3> DEFINE longer == Append(c.input, k)
    <3>1. new.input = longer
      BY <1>2, <2>1
    <3>2. DOMAIN longer = 1 .. Len(c.input) + 1 /\ longer[Len(c.input) + 1] = k
          /\ \A i \in 1 .. Len(c.input) : longer[i] = c.input[i]
      BY <1>3
    <3>3. \A i \in 1 .. Len(c.input) + 1 : i \in 1 .. Len(c.input) \/ i = Len(c.input) + 1
      BY <1>3
    <3>4. 1 .. Len(c.input) \subseteq 1 .. Len(c.input) + 1 /\ Len(c.input) + 1 \in 1 .. Len(c.input) + 1
      BY <1>3
    <3> HIDE DEF longer
    <3>5. ToSet(longer) = ToSet(c.input) \cup {k}
      BY <1>3, <3>2, <3>3, <3>4 DEF ToSet
    <3>6. ASSUME NEW i \in DOMAIN longer, NEW j \in DOMAIN longer, i < j
          PROVE  longer[i] < longer[j]
      <4>1. i \in 1 .. Len(c.input) /\ longer[i] = c.input[i]
        BY <3>2, <3>6, <1>3
      <4>2. CASE j = Len(c.input) + 1
        <5>1. c.input[i] \in 1 .. n
          BY <4>1, <1>3 DEF ToSet
        <5>2. QED
          BY <5>1, <4>1, <4>2, <3>2
      <4>3. CASE j \in 1 .. Len(c.input)
        BY <4>1, <4>3, <3>2, <3>6, <1>3 DEF Own
      <4>4. QED
        BY <4>2, <4>3, <3>2, <3>3
    <3>7. QED
      BY <3>1, <3>5, <3>6, <2>1
  <2>2. CASE v.input = "object"
    <3>1. new.input = <<k>>
      BY <1>2, <2>2
    <3>2. QED
      BY <3>1, <2>2 DEF ToSet
  <2>3. CASE v.input \notin {"text", "object"}
    <3>1. new.input = c.input
      BY <1>2, <2>3
    <3>2. QED
      BY <3>1, <2>3 DEF Own
  <2>4. QED
    BY <2>1, <2>2, <2>3
<1>5. Parts(new) \subseteq Parts(c) \cup {k}
  BY <1>2, <1>4 DEF Parts
<1>6. Own(w, new, k)
  <2>1. 1 .. n \subseteq 1 .. k /\ k \in 1 .. k
    OBVIOUS
  <2>2. Parts(new) \subseteq 1 .. k
    BY <2>1, <1>5 DEF Own
  <2>3. \A j \in Parts(new) : w[j].payload.id \in {new.id, NoId}
    BY <1>5, <1>2 DEF Own
  <2>4. QED
    BY <2>2, <2>3, <1>4 DEF Own
<1>7. ASSUME NEW j \in ToSet(c.input), Says(w, j)
      PROVE  j \in ToSet(new.input) \/ Superseded(w, j, k)
  <2>1. CASE v.input # "object"
    BY <2>1, <1>4
  <2>2. CASE v.input = "object"
    <3>1. w[j].payload.id \in {c.id, NoId} /\ j \in 1 .. n
      BY <1>3 DEF Own, Parts
    <3>2. v.id \in {w[j].payload.id, NoId}
      BY <3>1, <1>7 DEF Says
    <3>3. k \in j + 1 .. k
      BY <3>1
    <3>4. QED
      BY <2>2, <3>2, <3>3 DEF Superseded
  <2>3. QED
    BY <2>1, <2>2
<1>8. Says(w, k) => k \in ToSet(new.input)
  BY <1>4 DEF Says
<1>9. QED
  BY <1>5, <1>6, <1>7, <1>8 DEF Continues

\* What a fragment of a tool call makes of the accumulator, x, continues what
\* the accumulator held, or a new call when what it held was handed out or was
\* nobody's.
LEMMA ToolUseShape ==
  ASSUME NEW w, NEW t \in Calls, NEW n \in Nat, Own(w, t, n), n + 1 \in DOMAIN wire,
         NEW v, v = w[n + 1].payload, v \in Payloads, v.kind = "tool",
         NEW r, r = ToolUse(t, n + 1, v), r.status = "events"
  PROVE  \E x :
           /\ r.tool = IF v.stop THEN Idle ELSE x
           /\ \/ /\ r.events = IF v.stop THEN <<x>> ELSE <<>>
                 /\ Continues(w, t, x, n + 1)
              \/ /\ r.events = IF v.stop THEN <<t, x>> ELSE <<t>>
                 /\ Continues(w, Idle, x, n + 1)
<1> DEFINE k == n + 1
           base == Current(t, k, v)
           x == Extended(Named(base, k, v), k, v)
<1>1. ~OverCap(Named(base, k, v), v)
  BY DEF ToolUse, Result
<1>2. /\ r.tool = IF v.stop THEN Idle ELSE x
      /\ r.events = IF v.stop THEN Append(Flushed(t, v), x) ELSE Flushed(t, v)
  BY <1>1 DEF ToolUse, Result
<1>3. CASE ~Opens(t, v)
  <2>1. base = t /\ Flushed(t, v) = <<>>
    BY <1>3 DEF Current, Flushed
  <2>2. v.id \in {t.id, NoId}
    BY <1>3 DEF Opens
  <2>3. Continues(w, t, x, k)
    BY <2>1, <2>2, FragmentAdded
  <2> HIDE DEF x
  <2>4. QED
    BY <1>2, <2>1, <2>3
<1>4. CASE Opens(t, v)
  <2>1. base = OpenedCall(t, k, v)
    BY <1>4 DEF Current
  <2>2. /\ base = [id |-> base.id, name |-> NoName, input |-> <<>>, length |-> 0]
        /\ base.id \in {v.id, Uuid(k)} /\ v.id \in {base.id, NoId}
    BY <2>1 DEF OpenedCall, Idle
  <2>3. base \in Calls
    <3>1. base.id \in Ids \cup {NoId} \cup {Uuid(j) : j \in DOMAIN wire}
      BY <2>2 DEF Payloads
    <3>2. NoName \in Nat /\ <<>> \in Seq(Nat)
      BY DEF NoName
    <3>3. ASSUME NEW id \in Ids \cup {NoId} \cup {Uuid(j) : j \in DOMAIN wire}
          PROVE  [id |-> id, name |-> NoName, input |-> <<>>, length |-> 0] \in Calls
      BY <3>2 DEF Calls
    <3> HIDE DEF base
    <3>4. QED
      BY <3>1, <3>3, <2>2
  <2>4. Parts(base) = {} /\ ToSet(base.input) = {} /\ base.input = <<>>
    BY <2>2 DEF Parts, ToSet
  <2>5. Own(w, base, n)
    BY <2>4 DEF Own
  <2> HIDE DEF base
  <2>6. Continues(w, base, x, k)
    BY <2>2, <2>3, <2>5, FragmentAdded
  <2> HIDE DEF x
  <2>7. Continues(w, Idle, x, k)
    BY <2>4, <2>6, IdleIsEmpty DEF Continues
  <2>8. CASE t.id # NoId
    <3>1. Flushed(t, v) = <<t>>
      BY <1>4, <2>8 DEF Flushed
    <3> HIDE DEF x
    <3>3. Append(<<t>>, x) = <<t, x>>
      BY PairMade
    <3>2. QED
      BY <1>2, <2>7, <3>1, <3>3
  <2>9. CASE t.id = NoId
    <3>1. Flushed(t, v) = <<>>
      BY <2>9 DEF Flushed
    <3>2. \A j \in ToSet(t.input) : ~Says(w, j)
      BY <2>9 DEF Own, Parts, Says
    <3>3. Continues(w, t, x, k)
      BY <2>7, <3>2, IdleIsEmpty DEF Continues
    <3>4. QED
      BY <1>2, <3>1, <3>3
  <2>10. QED
    BY <2>8, <2>9
<1>5. QED
  BY <1>3, <1>4

\* One frame: what it hands out and what it leaves in the accumulator.
LEMMA ParseAccounts ==
  ASSUME NEW w, NEW calls \in Seq(Calls), NEW t \in Calls, NEW n \in Nat,
         AllOwn(w, calls, t, n), n + 1 \in DOMAIN wire, w[n + 1].payload \in Payloads,
         NEW r, r = Parse(t, n + 1, w[n + 1].payload), r.status = "events"
  PROVE  /\ AllOwn(w, calls \o r.events, r.tool, n + 1)
         /\ AllKept(w, calls, t, n) => AllKept(w, calls \o r.events, r.tool, n + 1)
<1> DEFINE k == n + 1
           v == w[k].payload
           Passes(s, c) == /\ AllOwn(w, s, c, k)
                           /\ AllKept(w, calls, t, n) => AllKept(w, s, c, k)
<1>1. Own(w, t, n)
  BY DEF AllOwn
<1>2. CASE v.kind # "tool"
  <2>1. r.events = <<>> /\ r.tool = t
    BY <1>2 DEF Parse, Result
  <2>2. Continues(w, t, t, k)
    BY <1>1, <1>2, NothingNew DEF Says
  <2>3. Passes(calls, t)
    BY <2>2, ReplacedBy
  <2>4. calls \o r.events = calls
    BY <2>1
  <2>5. QED
    BY <2>1, <2>3, <2>4
<1>3. CASE v.kind = "tool"
  <2>1. r = ToolUse(t, k, v)
    BY <1>3 DEF Parse
  <2>2. PICK x :
          /\ r.tool = IF v.stop THEN Idle ELSE x
          /\ \/ /\ r.events = IF v.stop THEN <<x>> ELSE <<>>
                /\ Continues(w, t, x, k)
             \/ /\ r.events = IF v.stop THEN <<t, x>> ELSE <<t>>
                /\ Continues(w, Idle, x, k)
    BY <1>1, <1>3, <2>1, ToolUseShape
  <2> DEFINE C == Calls \cup {x}
  <2>3. calls \in Seq(C) /\ Append(calls, t) \in Seq(C) /\ x \in C
    OBVIOUS
  <2>4. ASSUME NEW s \in Seq(C), Passes(s, x), calls \o r.events = IF v.stop THEN Append(s, x) ELSE s
        PROVE  Passes(calls \o r.events, r.tool)
    <3>1. CASE v.stop
      <4>1. /\ AllOwn(w, Append(s, x), Idle, k)
            /\ AllKept(w, s, x, k) => AllKept(w, Append(s, x), Idle, k)
        <5>1. k \in Nat /\ x \in C /\ s \in Seq(C) /\ AllOwn(w, s, x, k)
          BY <2>3, <2>4
        <5> HIDE DEF C, k
        <5>2. QED
          BY <5>1, HandedOut
      <4>2. QED
        BY <4>1, <3>1, <2>2, <2>4
    <3>2. CASE ~v.stop
      BY <3>2, <2>2, <2>4
    <3>3. QED
      BY <3>1, <3>2
  <2>5. CASE r.events = (IF v.stop THEN <<x>> ELSE <<>>) /\ Continues(w, t, x, k)
    <3>1. Passes(calls, x)
      BY <2>5, ReplacedBy
    <3>2. calls \o r.events = IF v.stop THEN Append(calls, x) ELSE calls
      <4>1. calls \o <<x>> = Append(calls, x) /\ calls \o <<>> = calls
        BY <2>3
      <4>2. QED
        BY <4>1, <2>5
    <3>3. Passes(calls \o r.events, r.tool)
      <4> HIDE DEF Passes, C
      <4>1. QED
        BY <3>1, <3>2, <2>3, <2>4
    <3>4. QED
      BY <3>3
  <2>6. CASE r.events = (IF v.stop THEN <<t, x>> ELSE <<t>>) /\ Continues(w, Idle, x, k)
    <3>1. /\ AllOwn(w, Append(calls, t), Idle, n)
          /\ AllKept(w, calls, t, n) => AllKept(w, Append(calls, t), Idle, n)
      BY HandedOut
    <3>2. Passes(Append(calls, t), x)
      BY <2>6, <3>1, ReplacedBy
    <3>3. calls \o r.events = IF v.stop THEN Append(Append(calls, t), x) ELSE Append(calls, t)
      <4>1. calls \o <<t, x>> = Append(Append(calls, t), x) /\ calls \o <<t>> = Append(calls, t)
        BY <2>3
      <4>2. QED
        BY <4>1, <2>6
    <3>4. Passes(calls \o r.events, r.tool)
      <4> HIDE DEF Passes, C
      <4>1. QED
        BY <3>2, <3>3, <2>3, <2>4
    <3>5. QED
      BY <3>4
  <2>7. QED
    BY <2>2, <2>5, <2>6
<1>4. QED
  BY <1>2, <1>3

\* Handing out only the first calls mixes nothing up either.
LEMMA FirstOwn ==
  ASSUME NEW w, NEW C, NEW s \in Seq(C), NEW e \in Seq(C), NEW t, NEW n \in Nat,
         AllOwn(w, s \o e, t, n), NEW m \in 1 .. Len(e)
  PROVE  AllOwn(w, s \o SubSeq(e, 1, m), t, n)
<1> DEFINE all == s \o e
           some == s \o SubSeq(e, 1, m)
<1>1. /\ DOMAIN some \subseteq DOMAIN all
      /\ \A p \in DOMAIN some : some[p] = all[p]
  OBVIOUS
<1> HIDE DEF all, some
<1>2. AllOwn(w, all, t, n) => AllOwn(w, some, t, n)
  BY <1>1 DEF AllOwn
<1>3. QED
  BY <1>2 DEF all, some

\* Every step accounts for the fragments it takes.
LEMMA StepAccounts ==
  ASSUME Inv, Accounted, [Next]_vars
  PROVE  Accounted'
<1>1. /\ tool \in Calls /\ delivered \in Seq(Calls) /\ wire \in Wires
      /\ frames \in 0 .. Len(wire) /\ Len(wire) \in Nat
  BY WireFacts DEF Inv, Position, TypeOK
<1>2. frames \in Nat
  BY <1>1
<1>3. CASE UNCHANGED <<wire, tool, frames, delivered>> /\ (pc' \in {"read", "decode", "ended"} => pc \in {"read", "decode", "ended"})
  BY <1>3 DEF Accounted
<1>4. CASE EndClean
  <2>1. /\ wire' = wire /\ frames' = frames /\ pc = "read"
        /\ delivered' = delivered \o Finish(tool)
        /\ tool' = IF tool.id = NoId THEN tool ELSE Idle
    BY <1>4 DEF EndClean
  <2>2. CASE tool.id = NoId
    <3>1. delivered' = delivered /\ tool' = tool
      BY <2>1, <2>2, <1>1 DEF Finish
    <3>2. QED
      BY <3>1, <2>1 DEF Accounted
  <2>3. CASE tool.id # NoId
    <3>1. delivered' = Append(delivered, tool) /\ tool' = Idle
      BY <2>1, <2>3, <1>1 DEF Finish
    <3>2. /\ AllOwn(wire, Append(delivered, tool), Idle, frames)
          /\ AllKept(wire, delivered, tool, frames) => AllKept(wire, Append(delivered, tool), Idle, frames)
      BY <1>1, <1>2, HandedOut DEF Accounted
    <3>3. QED
      BY <3>1, <3>2, <2>1 DEF Accounted
  <2>4. QED
    BY <2>2, <2>3
<1>5. ASSUME NEW k \in DOMAIN wire, Deliver(k) \/ DeliverAndStop(k) \/ GiveUp(k)
      PROVE  Accounted'
  <2> DEFINE r == Parse(tool, k, wire[k].payload)
  <2>1. Taken(k, r) /\ pc = "decode"
    BY <1>5 DEF Deliver, DeliverAndStop, GiveUp, Taken
  <2>2. /\ k = frames + 1 /\ wire' = wire /\ frames' = frames + 1 /\ tool' = r.tool
        /\ wire[k].payload \in Payloads
    <3>1. k \in NextFrames(wire, decoder) /\ wire' = wire /\ frames' = frames + 1 /\ tool' = r.tool
      BY <2>1 DEF Taken
    <3>2. k = frames + 1
      BY <3>1, AtFront DEF NextFrames
    <3>3. wire[k] \in WireFrames
      BY <1>1, WireFacts
    <3>4. QED
      BY <3>1, <3>2, <3>3 DEF WireFrames
  <2>3. /\ AllOwn(wire, delivered, tool, frames)
        /\ AllKept(wire, delivered, tool, frames)
    BY <2>1 DEF Accounted
  <2>4. r.events \in Seq(Calls) /\ r.tool \in {tool, Idle} \cup {r.tool}
    BY Known
  <2>5. r.status = "events" => /\ AllOwn(wire, delivered \o r.events, r.tool, k)
                               /\ AllKept(wire, delivered \o r.events, r.tool, k)
    BY <1>1, <1>2, <2>2, <2>3, ParseAccounts
  <2>6. CASE Deliver(k)
    <3>1. r.status = "events" /\ delivered' = delivered \o r.events
      BY <2>6 DEF Deliver
    <3> HIDE DEF r
    <3>2. QED
      BY <3>1, <2>2, <2>5 DEF Accounted
  <2>7. CASE DeliverAndStop(k)
    <3>1. /\ r.status = "events" /\ pc' = "stopped"
          /\ \/ \E m \in 1 .. Len(r.events) : delivered' = delivered \o SubSeq(r.events, 1, m)
             \/ wire[k].payload.kind = "plain" /\ delivered' = delivered
      BY <2>7 DEF DeliverAndStop, Goto
    <3>2. ASSUME NEW m \in 1 .. Len(r.events), delivered' = delivered \o SubSeq(r.events, 1, m)
          PROVE  Accounted'
      <4>1. AllOwn(wire, delivered \o SubSeq(r.events, 1, m), r.tool, k)
        <5> HIDE DEF r
        <5>1. QED
          BY <1>1, <1>2, <2>2, <2>4, <2>5, <3>1, FirstOwn
      <4> HIDE DEF r
      <4>2. QED
        BY <4>1, <3>1, <3>2, <2>2 DEF Accounted
    <3>3. CASE wire[k].payload.kind = "plain" /\ delivered' = delivered
      <4>1. r.events = <<>>
        BY <3>3 DEF Parse, Result
      <4>2. delivered \o r.events = delivered
        BY <4>1, <1>1
      <4> HIDE DEF r
      <4>3. QED
        BY <4>2, <3>1, <3>3, <2>2, <2>5 DEF Accounted
    <3>4. QED
      BY <3>1, <3>2, <3>3
  <2>8. CASE GiveUp(k)
    <3>1. /\ r.status # "events" /\ pc' \in {"failed", "refused"} /\ delivered' = delivered
      BY <2>8 DEF GiveUp, Goto
    <3>2. r.tool \in {tool, Idle}
      BY <3>1 DEF Parse, ToolUse, Result
    <3>3. Own(wire, r.tool, k) /\ Parts(r.tool) \subseteq Parts(tool)
      <4>1. 1 .. frames \subseteq 1 .. k
        BY <1>2, <2>2
      <4>2. Own(wire, tool, k)
        BY <4>1, <2>3 DEF AllOwn, Own
      <4>3. QED
        BY <4>2, <3>2, IdleIsEmpty
    <3>4. \A p \in DOMAIN delivered : Own(wire, delivered[p], k)
      <4>1. 1 .. frames \subseteq 1 .. k
        BY <1>2, <2>2
      <4>2. QED
        BY <4>1, <2>3 DEF AllOwn, Own
    <3> HIDE DEF r
    <3>5. AllOwn(wire, delivered, r.tool, k)
      BY <3>3, <3>4, <2>3 DEF AllOwn
    <3>6. QED
      BY <3>1, <3>5, <2>2 DEF Accounted
  <2>9. QED
    BY <1>5, <2>6, <2>7, <2>8
<1>6. QED
  <2>1. CASE Reading
    BY <2>1, <1>3, <1>4 DEF Reading, Read, Break, EndInside, Goto
  <2>2. CASE Decoding
    BY <2>2, <1>3, <1>5 DEF Decoding, NoFrame, BadFrame, Goto
  <2>3. CASE UNCHANGED vars
    BY <2>3, <1>3 DEF vars
  <2>4. QED
    BY <2>1, <2>2, <2>3 DEF Next, Over

\* What the invariant says of the calls, in the words of the property.
LEMMA AccountedMeans ==
  ASSUME Inv, Accounted
  PROVE  FragmentsAccounted
<1>1. tool \in Calls /\ delivered \in Seq(Calls) /\ frames \in Nat
  BY DEF Inv, Position, TypeOK
<1> DEFINE all == Append(delivered, tool)
           n == Len(delivered)
<1>2. n \in Nat /\ DOMAIN delivered = 1 .. n /\ DOMAIN all = 1 .. n + 1
      /\ all[n + 1] = tool /\ \A p \in 1 .. n : all[p] = delivered[p]
  BY <1>1
<1>3. \A p \in 1 .. n + 1 : p \in 1 .. n \/ p = n + 1
  BY <1>2
<1>4. n + 1 \in 1 .. n + 1 /\ 1 .. n \subseteq 1 .. n + 1
  BY <1>2
<1> HIDE DEF all, n
<1>5. \A p \in DOMAIN all : Own(wire, all[p], frames)
  BY <1>2, <1>3 DEF Accounted, AllOwn
<1>6. ASSUME NEW p \in DOMAIN all, NEW q \in DOMAIN all, p < q
      PROVE  Parts(all[p]) \cap Parts(all[q]) = {}
  <2>1. p \in 1 .. n
    BY <1>2, <1>6
  <2>2. CASE q \in 1 .. n
    BY <2>1, <2>2, <1>2, <1>6 DEF Accounted, AllOwn
  <2>3. CASE q = n + 1
    BY <2>1, <2>3, <1>2 DEF Accounted, AllOwn
  <2>4. QED
    BY <2>2, <2>3, <1>2, <1>3
<1>7. Assembled = all
  BY DEF Assembled, all
<1>8. OwnFragmentsOnce
  BY <1>5, <1>6, <1>7 DEF OwnFragmentsOnce, Own
<1>9. FragmentsKept
  <2>1. SUFFICES ASSUME pc \in {"read", "decode", "ended"}, NEW k \in 1 .. frames,
                        Fragment(k, "text"), wire[k].payload.id # NoId
                 PROVE  \/ \E call \in ToSet(all) : k \in ToSet(call.input)
                        \/ \E j \in k + 1 .. frames :
                             Fragment(j, "object") /\ wire[j].payload.id \in {wire[k].payload.id, NoId}
    BY <1>7 DEF FragmentsKept
  <2>2. Says(wire, k)
    BY <2>1 DEF Says, Fragment
  <2>3. CASE \E p \in DOMAIN delivered : k \in ToSet(delivered[p].input)
    <3>1. PICK p \in 1 .. n : k \in ToSet(delivered[p].input)
      BY <2>3, <1>2
    <3>2. all[p] \in ToSet(all) /\ all[p] = delivered[p]
      BY <3>1, <1>2, <1>4 DEF ToSet
    <3>3. QED
      BY <3>1, <3>2
  <2>4. CASE k \in ToSet(tool.input)
    <3>1. tool \in ToSet(all)
      BY <1>2, <1>4 DEF ToSet
    <3>2. QED
      BY <3>1, <2>4
  <2>5. CASE Superseded(wire, k, frames)
    BY <2>5 DEF Superseded, Fragment
  <2>6. QED
    BY <2>1, <2>2, <2>3, <2>4, <2>5 DEF Accounted, AllKept
<1>10. QED
  BY <1>8, <1>9 DEF FragmentsAccounted

\* However the fragments of several calls are interleaved, a call is made of
\* fragments of its own id, in order, none is handed out twice, and none that says
\* whose it is is lost; it is not said that one call has all of those of its id
\* (EventParser::tool_use, finish, and the loop of Pump::next).
THEOREM FragmentsAreAccounted == Spec => []FragmentsAccounted
<1>1. Init => Accounted
  <2> SUFFICES ASSUME Init PROVE Accounted
    OBVIOUS
  <2>1. tool = Idle /\ delivered = <<>> /\ frames = 0
    BY DEF Init
  <2>2. AllOwn(wire, <<>>, Idle, 0) /\ AllKept(wire, <<>>, Idle, 0)
    BY IdleIsEmpty DEF AllOwn, AllKept
  <2>3. QED
    BY <2>1, <2>2 DEF Accounted
<1>2. Spec => []Accounted
  <2>1. Inv /\ Accounted /\ [Next]_vars => Accounted'
    BY StepAccounts
  <2>2. QED
    BY <1>1, <2>1, Invariance, PTL DEF Spec
<1>3. Inv /\ Accounted => FragmentsAccounted
  BY AccountedMeans
<1>4. QED
  BY <1>2, <1>3, Invariance, PTL
==============================================================================

----------------------------- MODULE EventStream -----------------------------
(***************************************************************************)
(* One response body on its way to the translator: the loop of Pump::next  *)
(* (server/pump.rs) around the frame decoder and the event parser.  A read *)
(* brings a chunk of any length; every frame it completes is parsed, and   *)
(* the tool calls that come of it are pushed to the translator, which may  *)
(* latch a local stop at any of them.  The body may break or end at any    *)
(* byte.  Nothing here awaits but the read.                                *)
(***************************************************************************)
EXTENDS FrameDecoder, EventParser, SequencesExt

CONSTANT MaxChunk    \* bound on the bytes of one read

ASSUME StreamAssumption ==
  /\ PreludeLen \in Nat \ {0} /\ TrailerLen \in Nat /\ MaxFrame \in Nat /\ MaxHeaders \in Nat
  /\ MaxToolInput \in Nat /\ MaxChunk \in Nat
  /\ MinFrame <= MaxFrame

WireFrames ==
  [at : Nat, size : Nat, claims : Nat, headers : Nat, crc : {"good", "prelude", "message"},
   parses : BOOLEAN, payload : Payloads]

ASSUME WireAssumption == \A w \in Wires : w \in Seq(WireFrames) /\ WellFormed(w)

ASSUME IdAssumption ==
  /\ NoId \notin Ids
  /\ \A w \in Wires : \A k \in DOMAIN w : Uuid(k) \notin Ids \cup {NoId}

VARIABLES
  wire,        \* what the upstream sends
  decoder,     \* Pump.decoder
  tool,        \* the accumulator of Pump.parser
  frames,      \* Pump.frames, the frames decoded
  pc,          \* where next() stands, or how the body went
  delivered    \* the tool calls pushed to the translator

vars == <<wire, decoder, tool, frames, pc, delivered>>

Init ==
  /\ wire \in Wires
  /\ decoder = NewDecoder
  /\ tool = Idle
  /\ frames = 0
  /\ pc = "read"
  /\ delivered = <<>>

Goto(place) == pc' = place

\* bytes.next() brings a chunk.
Read(n) ==
  /\ pc = "read"
  /\ decoder.arrived + n <= WireLen(wire)
  /\ decoder' = Push(decoder, n)
  /\ Goto("decode")
  /\ UNCHANGED <<wire, tool, frames, delivered>>

\* A transport error.
Break ==
  /\ pc = "read"
  /\ Goto("lost")
  /\ UNCHANGED <<wire, decoder, tool, frames, delivered>>

\* The body ends inside a frame.
EndInside ==
  /\ pc = "read"
  /\ Pending(decoder) > 0
  /\ Goto("truncated")
  /\ UNCHANGED <<wire, decoder, tool, frames, delivered>>

\* An end that nobody checks against the buffer.
EndAnywhere ==
  /\ pc = "read"
  /\ delivered' = delivered \o Finish(tool)
  /\ tool' = IF tool.id = NoId THEN tool ELSE Idle
  /\ Goto("ended")
  /\ UNCHANGED <<wire, decoder, frames>>

\* The body ends between two frames: the call in flight is complete.
EndClean ==
  /\ pc = "read"
  /\ Pending(decoder) = 0
  /\ delivered' = delivered \o Finish(tool)
  /\ tool' = IF tool.id = NoId THEN tool ELSE Idle
  /\ Goto("ended")
  /\ UNCHANGED <<wire, decoder, frames>>

\* next_frame() has nothing yet: next() returns and will read on.
NoFrame ==
  /\ pc = "decode"
  /\ NeedsMore(wire, decoder)
  /\ Goto("read")
  /\ UNCHANGED <<wire, decoder, tool, frames, delivered>>

BadFrame ==
  /\ pc = "decode"
  /\ Undecodable(wire, decoder)
  /\ Goto("undecodable")
  /\ UNCHANGED <<wire, decoder, tool, frames, delivered>>

\* The next frame is taken and parsed into result.
Taken(k, result) ==
  /\ pc = "decode"
  /\ k \in NextFrames(wire, decoder)
  /\ decoder' = Advance(wire, decoder, k)
  /\ frames' = frames + 1
  /\ tool' = result.tool
  /\ UNCHANGED wire

\* The events are pushed one by one.
Deliver(k) ==
  LET result == Parse(tool, k, wire[k].payload)
  IN /\ result.status = "events"
     /\ Taken(k, result)
     /\ delivered' = delivered \o result.events
     /\ Goto("decode")

\* A local stop latches at an event: the rest of this frame's are dropped.
\* An event that is not a tool call may latch one too.
DeliverAndStop(k) ==
  LET result == Parse(tool, k, wire[k].payload)
  IN /\ result.status = "events"
     /\ Taken(k, result)
     /\ \/ \E m \in 1 .. Len(result.events) :
             delivered' = delivered \o SubSeq(result.events, 1, m)
        \/ wire[k].payload.kind = "plain" /\ UNCHANGED delivered
     /\ Goto("stopped")

\* The event is an upstream failure, or the payload is refused.
GiveUp(k) ==
  LET result == Parse(tool, k, wire[k].payload)
  IN /\ result.status # "events"
     /\ Taken(k, result)
     /\ Goto(IF result.status = "failure" THEN "failed" ELSE "refused")
     /\ UNCHANGED delivered

Reading == (\E n \in 0 .. MaxChunk : Read(n)) \/ Break \/ EndInside \/ EndClean

Decoding ==
  \/ NoFrame \/ BadFrame
  \/ \E k \in DOMAIN wire : Deliver(k) \/ DeliverAndStop(k) \/ GiveUp(k)

\* The body is read no further: next() only repeats how it went.
Over == pc \notin {"read", "decode"} /\ UNCHANGED vars

Next == Reading \/ Decoding \/ Over

Spec == Init /\ [][Next]_vars
-----------------------------------------------------------------------------
Calls == [id : Ids \cup {NoId} \cup {Uuid(k) : k \in DOMAIN wire}, name : Nat,
          input : Seq(Nat), length : Nat]

Ways == {"read", "decode", "lost", "truncated", "ended", "undecodable", "refused",
         "failed", "stopped"}

\* Types; in particular the read position never leaves the buffer.
TypeOK ==
  /\ decoder \in Decoders /\ Pending(decoder) >= 0
  /\ tool \in Calls
  /\ frames \in 0 .. Len(wire)
  /\ pc \in Ways
  /\ delivered \in Seq(Calls)

\* The buffer is drained lazily, only when more than half of it has been
\* taken, and yet never holds more than two frames and one read.
BufferBounded == BufLen(decoder) <= 2 * MaxFrame + MaxChunk

\* However the bytes were cut: between two reads exactly the frames that have
\* arrived in full have been taken, in order, and the decoder stands at the
\* beginning of the next one.
FramesInStep ==
  /\ decoder.base + decoder.start = End(wire, frames)
  /\ pc = "read" => \A k \in DOMAIN wire : k <= frames <=> End(wire, k) <= decoder.arrived

\* The decoder gives up only over what the upstream did: a frame that is
\* unsound, a body cut inside a frame, a payload of the last frame.
BlameIsRight ==
  /\ pc = "undecodable" => frames < Len(wire) /\ ~Sound(wire[frames + 1])
  /\ pc = "truncated" => decoder.arrived < WireLen(wire) /\ decoder.arrived > End(wire, frames)
  /\ pc \in {"refused", "failed"} => wire[frames].payload.kind \in {"malformed", "tool", "failure"}

Assembled == Append(delivered, tool)

Parts(call) == ToSet(call.input) \cup ({call.name} \ {NoName})

\* Fragments of several calls may be interleaved, repeated or without an id:
\* a call is made of its own fragments, in the order they came, and none is
\* handed out twice.
OwnFragmentsOnce ==
  /\ \A p \in DOMAIN Assembled :
       LET call == Assembled[p] IN
       /\ \A k \in Parts(call) : wire[k].payload.id \in {call.id, NoId}
       /\ \A i, j \in DOMAIN call.input : i < j => call.input[i] < call.input[j]
  /\ \A p, q \in DOMAIN Assembled : p < q => Parts(Assembled[p]) \cap Parts(Assembled[q]) = {}

Fragment(k, form) == wire[k].payload.kind = "tool" /\ wire[k].payload.input = form

\* No fragment that says whose it is gets lost on the way, whichever call it
\* is interleaved with and whether a stop ever comes: it is in a call, unless
\* an object replaced it.
FragmentsKept ==
  pc \in {"read", "decode", "ended"} =>
    \A k \in 1 .. frames :
      Fragment(k, "text") /\ wire[k].payload.id # NoId =>
        \/ \E call \in ToSet(Assembled) : k \in ToSet(call.input)
        \/ \E j \in k + 1 .. frames :
             Fragment(j, "object") /\ wire[j].payload.id \in {wire[k].payload.id, NoId}

\* A body that ended well was delivered whole: every frame of what arrived was
\* taken and no call is left in flight.
EndIsWhole ==
  pc = "ended" => decoder.arrived = End(wire, frames) /\ tool.id = NoId

\* FragmentsAccounted: whichever way the fragments of several calls are
\* interleaved, none that says whose it is gets lost, goes to a call of another
\* id or is handed out twice (EventParser::tool_use).  It is not said that the
\* fragments of one id are in one call: one that a fragment of another id
\* interrupts is handed out as it is, and what follows is a second call of its id.
FragmentsAccounted == OwnFragmentsOnce /\ FragmentsKept

\* The loop ends for the reason there is, and well only if nothing is missing.
EndIsHonest == BlameIsRight /\ EndIsWhole

\* No call above the cap is handed out or held, and none survives its refusal.
CapHolds ==
  /\ \A call \in ToSet(Assembled) : call.length <= MaxToolInput
  /\ pc = "refused" /\ wire[frames].payload.kind = "tool" => tool = Idle
=============================================================================

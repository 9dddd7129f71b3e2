---------------------------- MODULE FrameDecoder ----------------------------
(***************************************************************************)
(* The frame decoder (kiro-trust-protocol, eventstream.rs): bytes arrive   *)
(* in chunks cut anywhere, frames leave.  Frames are taken from the front  *)
(* of the buffer by advancing "start"; push() drains what has been taken   *)
(* once it is more than half of the buffer.                                *)
(*                                                                         *)
(* What the upstream sends is a fixed sequence of frames, wire.  A byte is *)
(* its position in that stream, so the buffer is an interval: it holds the *)
(* positions base .. arrived - 1.  A frame records where it begins (at),   *)
(* its bytes (size), the total and the header length that its prelude      *)
(* claims, and what its checksums and its header block are worth.          *)
(***************************************************************************)
EXTENDS Integers, Sequences

CONSTANTS
  Wires,          \* what the upstream may send
  PreludeLen,     \* PRELUDE_LEN
  TrailerLen,     \* the message CRC
  MaxFrame,       \* MAX_FRAME_BYTES
  MaxHeaders      \* MAX_HEADERS_BYTES

MinFrame == PreludeLen + TrailerLen

\* The bytes of the first k frames.
End(wire, k) == IF k = 0 THEN 0 ELSE wire[k].at + wire[k].size

WireLen(wire) == End(wire, Len(wire))

\* The prelude of frame f is refused: its checksum, a total outside the
\* limits, or headers that overrun the body or the cap.
PreludeRefused(f) ==
  \/ f.crc = "prelude"
  \/ f.claims < MinFrame
  \/ f.claims > MaxFrame
  \/ f.headers > f.claims - PreludeLen - TrailerLen
  \/ f.headers > MaxHeaders

\* What is only seen once the whole frame is there.
BodyRefused(f) == f.crc = "message" \/ ~f.parses

Sound(f) == ~PreludeRefused(f) /\ ~BodyRefused(f)

\* Frames follow each other without a gap, none shorter than a prelude, and
\* the upstream never signs a length that is within the limits but wrong.
WellFormed(wire) ==
  \A k \in DOMAIN wire :
    /\ wire[k].at = End(wire, k - 1)
    /\ wire[k].size >= PreludeLen
    /\ ~PreludeRefused(wire[k]) => wire[k].claims = wire[k].size
    /\ \A j \in 1 .. k - 1 : End(wire, j) <= wire[k].at

-----------------------------------------------------------------------------
Decoders == [base : Nat, start : Nat, arrived : Nat]

NewDecoder == [base |-> 0, start |-> 0, arrived |-> 0]

BufLen(d) == d.arrived - d.base

Pending(d) == BufLen(d) - d.start

\* A buffer that is never drained.
KeepAll(d) == d

Compact(d) ==
  IF d.start > 0 /\ d.start * 2 > BufLen(d)
  THEN [d EXCEPT !.base = @ + d.start, !.start = 0]
  ELSE d

\* push() of a chunk of n bytes.
Push(d, n) == [Compact(d) EXCEPT !.arrived = @ + n]

\* The frame that begins at the read position, if one does.
FrontFrames(wire, d) == {k \in DOMAIN wire : wire[k].at = d.base + d.start}

\* A decoder that waits for the byte after the frame.
NeedsOneMore(wire, d) ==
  \/ Pending(d) < PreludeLen
  \/ \E k \in FrontFrames(wire, d) :
       ~PreludeRefused(wire[k]) /\ Pending(d) <= wire[k].claims

\* next_frame(): nothing yet, an error, or a frame.  Anything that is not
\* the beginning of a frame fails the checksum of the prelude.
NeedsMore(wire, d) ==
  \/ Pending(d) < PreludeLen
  \/ \E k \in FrontFrames(wire, d) :
       ~PreludeRefused(wire[k]) /\ Pending(d) < wire[k].claims

NextFrames(wire, d) == {k \in FrontFrames(wire, d) : ~NeedsMore(wire, d) /\ Sound(wire[k])}

Undecodable(wire, d) == ~NeedsMore(wire, d) /\ NextFrames(wire, d) = {}

Advance(wire, d, k) == [d EXCEPT !.start = @ + wire[k].claims]
=============================================================================

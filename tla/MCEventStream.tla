---------------------------- MODULE MCEventStream ----------------------------
(***************************************************************************)
(* Wires for TLC: every sequence of three tool fragments, and a few longer *)
(* ones of frames of every size, some of them unsound.                     *)
(***************************************************************************)
EXTENDS EventStream, FiniteSets

CONSTANTS a, b

Blank == [kind |-> "plain", id |-> NoId, name |-> "absent", input |-> "none",
          length |-> 0, stop |-> FALSE]

Of(kind) == [Blank EXCEPT !.kind = kind]

Piece(id, name, input, stop) ==
  [kind |-> "tool", id |-> id, name |-> name, input |-> input,
   length |-> IF input = "none" THEN 0 ELSE 1, stop |-> stop]

\* A fragment of every form, the rare ones once: an object or an end with a
\* name, a fragment of nobody that has one.
Fragments ==
  {Piece(id, name, "text", stop) : id \in {a, b}, name \in {"absent", "given"}, stop \in BOOLEAN}
  \cup {Piece(id, "absent", input, stop) :
          id \in {a, b}, input \in {"none", "object"}, stop \in BOOLEAN}
  \cup {Piece(NoId, name, "text", stop) : name \in {"absent", "given"}, stop \in BOOLEAN}
  \cup {Piece(NoId, "empty", "none", FALSE)}

Frame(size, payload) ==
  [at |-> 0, size |-> size, claims |-> size, headers |-> 0, crc |-> "good",
   parses |-> TRUE, payload |-> payload]

\* Puts the frames one after the other.
Laid(list) ==
  LET before[k \in 1 .. Len(list)] ==
        IF k = 1 THEN 0 ELSE before[k - 1] + list[k - 1].size
  IN [k \in 1 .. Len(list) |-> [list[k] EXCEPT !.at = before[k]]]

At(position, payload) == [Frame(3, payload) EXCEPT !.at = position]

FragmentWires(fragments) ==
  {<<At(0, x), At(3, y), At(6, z)>> : x \in fragments, y \in fragments, z \in fragments}

Unsound ==
  LET f == Frame(4, Blank)
  IN {[f EXCEPT !.crc = "prelude"], [f EXCEPT !.crc = "message"], [f EXCEPT !.parses = FALSE],
      [f EXCEPT !.claims = 2], [f EXCEPT !.claims = MaxFrame + 1],
      [f EXCEPT !.headers = 2], [Frame(5, Blank) EXCEPT !.headers = 2]}

Text == Piece(a, "absent", "text", FALSE)

LongWires ==
  {Laid(<<Frame(5, Text), Frame(s, Blank), Frame(5, Text), Frame(4, v), Frame(t, Blank), Frame(5, Blank)>>) :
     s \in 3 .. 5, t \in 4 .. 5, v \in {Text, Of("skipped"), Of("failure"), Of("malformed")}}
  \cup {Laid(<<Frame(4, Text), Frame(5, Blank), bad, Frame(3, Text)>>) : bad \in Unsound}

MCWires == FragmentWires(Fragments) \cup LongWires
==============================================================================

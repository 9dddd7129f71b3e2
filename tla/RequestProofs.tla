--------------------------- MODULE RequestProofs ---------------------------
(***************************************************************************)
(* What holds of every request whose messages and blocks are sequences and *)
(* whose tools have schemas in which nesting ends: the alternation of the  *)
(* turns, the order of uses and results, the count of the pictures, the    *)
(* tools' names, what is said, the schemas sent and the routing.           *)
(*                                                                         *)
(* IInv follows roles and lengths alone.  BInv adds what the messages are  *)
(* made of: every pass that merges, inserts or splits leaves the whole as  *)
(* it is, puts one synthetic message in, or joins a run of plain messages  *)
(* (Shaped).  PInv, CInv, UInv, TInv and SInv rest on that.  The schemas   *)
(* follow from TInv, once the recursion of the sanitizer is known to end   *)
(* (SanitizedIs); the routing has an invariant of its own, RInv, and rests *)
(* on the rows of the catalog being of different models (RowsAre).         *)
(***************************************************************************)
EXTENDS RequestTranslation, TLAPS, SequenceTheorems, FiniteSetTheorems, WellFoundedInduction

Speakers == {"user", "assistant"}

Spoken(seq, roles) ==
  IsSeq(seq) /\ \A i \in DOMAIN seq : IsMessage(seq[i]) /\ seq[i].role \in roles

\* What holds before each pass: the roles left, and the order the passes have
\* already established.
IInv ==
  /\ stage \in {"parse", "tools", "textualize", "roles", "merge", "alternate", "history",
                "current", "sent", "refused"}
  /\ stage = "parse" => /\ request \in Requests /\ msgs = request.messages
                        /\ out = <<>> /\ history = <<>>
  /\ stage \in {"tools", "textualize", "roles"} =>
       /\ Spoken(msgs, Roles) /\ msgs # <<>>
       /\ out = <<>> /\ history = <<>>
  /\ stage = "merge" =>
       /\ Spoken(msgs, Speakers) /\ Spoken(out, Speakers)
       /\ msgs # <<>> \/ out # <<>>
       /\ history = <<>>
  /\ stage = "alternate" =>
       /\ Spoken(msgs, Speakers) /\ Spoken(out, Speakers) /\ Alternates(out)
       /\ out = <<>> => msgs # <<>> /\ msgs[1].role = "user"
       /\ history = <<>>
  /\ stage = "history" =>
       /\ Spoken(msgs, Speakers) /\ Alternates(msgs)
       /\ msgs # <<>> => msgs[Len(msgs)].role = "assistant"
       /\ IsSeq(history) /\ Len(history) <= Len(msgs)
       /\ \A i \in DOMAIN history : history[i].role = msgs[i].role
  /\ stage \in {"current", "sent"} =>
       /\ IsSeq(history) /\ Alternates(history)
       /\ history # <<>> => history[Len(history)].role = "assistant"

-----------------------------------------------------------------------------
(* Sequences of anything.                                                  *)

\* A sequence over any set is a sequence of its own elements.
LEMMA SeqIs == ASSUME NEW S, NEW s \in Seq(S) PROVE IsSeq(s)
  BY DEF IsSeq, ToSet

\* A sequence is the function of its positions, and each element is in ToSet.
LEMMA IsSeqFacts ==
  ASSUME NEW s, IsSeq(s)
  PROVE  /\ s \in Seq(ToSet(s)) /\ Len(s) \in Nat /\ DOMAIN s = 1..Len(s)
         /\ s = <<>> <=> Len(s) = 0
  BY DEF IsSeq

\* The empty sequence is one.
LEMMA EmptyIsSeq == IsSeq(<<>>)
<1>1. <<>> \in Seq({})
  OBVIOUS
<1> QED BY <1>1, SeqIs, Zenon

\* Two sequences put together: length and elements, position by position.
LEMMA ConcatIsSeq ==
  ASSUME NEW s, NEW t, IsSeq(s), IsSeq(t)
  PROVE  /\ IsSeq(s \o t) /\ Len(s \o t) = Len(s) + Len(t)
         /\ \A i \in 1..Len(s \o t) : (s \o t)[i] = IF i <= Len(s) THEN s[i] ELSE t[i - Len(s)]
<1> DEFINE U == ToSet(s) \cup ToSet(t)
<1>1. s \in Seq(U) /\ t \in Seq(U)
  <2>1. s \in Seq(ToSet(s)) /\ t \in Seq(ToSet(t))
    BY IsSeqFacts
  <2> QED BY <2>1
<1> HIDE DEF U
<1>2. s \o t \in Seq(U)
  BY <1>1
<1>3. IsSeq(s \o t)
  BY <1>2, SeqIs
<1> QED BY <1>1, <1>3

\* An element added behind: length and elements, position by position.
LEMMA AppendIsSeq ==
  ASSUME NEW s, NEW e, IsSeq(s)
  PROVE  /\ IsSeq(Append(s, e)) /\ Len(Append(s, e)) = Len(s) + 1
         /\ \A i \in 1..Len(s) : Append(s, e)[i] = s[i]
         /\ Append(s, e)[Len(s) + 1] = e
<1> DEFINE U == ToSet(s) \cup {e}
<1>1. s \in Seq(U) /\ e \in U
  <2>1. s \in Seq(ToSet(s))
    BY IsSeqFacts
  <2> QED BY <2>1
<1> HIDE DEF U
<1>2. Append(s, e) \in Seq(U)
  BY <1>1
<1>3. IsSeq(Append(s, e))
  BY <1>2, SeqIs
<1> QED BY <1>1, <1>3

\* A piece cut out: length and elements, position by position.
LEMMA SubSeqIsSeq ==
  ASSUME NEW s, IsSeq(s), NEW m \in Nat \ {0}, NEW n \in Nat, n <= Len(s)
  PROVE  /\ IsSeq(SubSeq(s, m, n))
         /\ Len(SubSeq(s, m, n)) = IF m <= n THEN n - m + 1 ELSE 0
         /\ \A i \in 1..Len(SubSeq(s, m, n)) : SubSeq(s, m, n)[i] = s[m + i - 1]
<1>1. s \in Seq(ToSet(s)) /\ Len(s) \in Nat
  BY IsSeqFacts
<1>2. SubSeq(s, m, n) \in Seq(ToSet(s))
  BY <1>1
<1>3. IsSeq(SubSeq(s, m, n))
  BY <1>2, SeqIs
<1> QED BY <1>1, <1>3

\* A function over the positions of a sequence is a sequence of the same length.
LEMMA MapIsSeq ==
  ASSUME NEW s, IsSeq(s), NEW t, DOMAIN t = DOMAIN s, t = [i \in DOMAIN s |-> t[i]]
  PROVE  IsSeq(t) /\ Len(t) = Len(s)
<1>1. Len(s) \in Nat /\ DOMAIN s = 1..Len(s)
  BY IsSeqFacts
<1> DEFINE U == {t[i] : i \in DOMAIN s}
<1>2. t \in Seq(U)
  BY <1>1
<1>3. IsSeq(t)
  BY <1>2, SeqIs, Zenon
<1> HIDE DEF U
<1>4. Len(t) = Len(s)
  BY <1>1, <1>2
<1> QED BY <1>3, <1>4

-----------------------------------------------------------------------------
(* The passes.                                                             *)

\* The passes over single messages change neither how many there are nor, but for one, the roles.
LEMMA RolesKept ==
  ASSUME NEW seq, NEW i, IsMessage(seq[i])
  PROVE  /\ TextualizeAll(seq[i]).role = seq[i].role /\ IsMessage(TextualizeAll(seq[i]))
         /\ TextualizeOrphans(seq, i).role = seq[i].role /\ IsMessage(TextualizeOrphans(seq, i))
<1> DEFINE m == seq[i]
<1>1. \A c : /\ [m EXCEPT !.content = c].role = m.role
             /\ [m EXCEPT !.content = c].content = c
             /\ IsMessage([m EXCEPT !.content = c])
  BY DEF IsMessage
<1>2. TextualizeAll(m).role = m.role /\ IsMessage(TextualizeAll(m))
  BY <1>1 DEF TextualizeAll
<1>3. TextualizeOrphans(seq, i).role = m.role /\ IsMessage(TextualizeOrphans(seq, i))
  BY <1>1 DEF TextualizeOrphans, IsMessage
<1> QED BY <1>2, <1>3

\* Textualize leaves every role as it is.
LEMMA TextualizeStep == ASSUME IInv, Textualize PROVE IInv'
<1>1. Spoken(msgs, Roles) /\ msgs # <<>> /\ out = <<>> /\ history = <<>>
  BY DEF IInv, Textualize
<1>2. IsSeq(msgs') /\ Len(msgs') = Len(msgs) /\ DOMAIN msgs' = DOMAIN msgs
  <2>1. DOMAIN msgs' = DOMAIN msgs /\ msgs' = [i \in DOMAIN msgs |-> msgs'[i]]
    BY DEF Textualize
  <2> QED BY <1>1, <2>1, MapIsSeq DEF Spoken
<1>3. ASSUME NEW i \in DOMAIN msgs PROVE IsMessage(msgs'[i]) /\ msgs'[i].role \in Roles
  <2>1. IsMessage(msgs[i]) /\ msgs[i].role \in Roles
    BY <1>1 DEF Spoken
  <2>2. msgs'[i] = IF entries = <<>> THEN TextualizeAll(msgs[i]) ELSE TextualizeOrphans(msgs, i)
    BY DEF Textualize
  <2> QED BY <2>1, <2>2, RolesKept
<1>4. Spoken(msgs', Roles) /\ msgs' # <<>>
  BY <1>1, <1>2, <1>3, IsSeqFacts DEF Spoken
<1> QED BY <1>1, <1>4 DEF IInv, Textualize, Spoken

\* After NormalizeRoles only users and assistants speak.
LEMMA RolesStep == ASSUME IInv, NormalizeRoles PROVE IInv'
<1>1. Spoken(msgs, Roles) /\ msgs # <<>> /\ out = <<>> /\ history = <<>>
  BY DEF IInv, NormalizeRoles
<1>2. IsSeq(msgs') /\ Len(msgs') = Len(msgs) /\ DOMAIN msgs' = DOMAIN msgs
  <2>1. DOMAIN msgs' = DOMAIN msgs /\ msgs' = [i \in DOMAIN msgs |-> msgs'[i]]
    BY DEF NormalizeRoles
  <2> QED BY <1>1, <2>1, MapIsSeq DEF Spoken
<1>3. ASSUME NEW i \in DOMAIN msgs PROVE IsMessage(msgs'[i]) /\ msgs'[i].role \in Speakers
  <2>1. IsMessage(msgs[i]) /\ msgs[i].role \in Roles
    BY <1>1 DEF Spoken
  <2>2. msgs'[i] = [msgs[i] EXCEPT !.role = IF @ = "other" THEN "user" ELSE @]
    BY DEF NormalizeRoles
  <2> QED BY <2>1, <2>2 DEF IsMessage, Roles, Speakers
<1>4. Spoken(msgs', Speakers) /\ msgs' # <<>>
  BY <1>1, <1>2, <1>3, IsSeqFacts DEF Spoken
<1>5. Spoken(<<>>, Speakers)
  BY EmptyIsSeq, IsSeqFacts DEF Spoken
<1> QED BY <1>1, <1>4, <1>5 DEF IInv, NormalizeRoles, Spoken

\* A message of a known role may be added.
LEMMA SpokenAppend ==
  ASSUME NEW s, NEW m, NEW roles, Spoken(s, roles), IsMessage(m), m.role \in roles
  PROVE  Spoken(Append(s, m), roles) /\ Append(s, m) # <<>>
<1>1. IsSeq(s) /\ Len(s) \in Nat /\ DOMAIN s = 1..Len(s)
  BY IsSeqFacts DEF Spoken
<1>2. /\ IsSeq(Append(s, m)) /\ Len(Append(s, m)) = Len(s) + 1
      /\ DOMAIN Append(s, m) = 1..(Len(s) + 1) /\ Append(s, m) # <<>>
  BY <1>1, AppendIsSeq, IsSeqFacts
<1>3. ASSUME NEW i \in 1..(Len(s) + 1)
      PROVE  IsMessage(Append(s, m)[i]) /\ Append(s, m)[i].role \in roles
  <2>1. CASE i = Len(s) + 1
    BY <1>1, <2>1, AppendIsSeq
  <2>2. CASE i \in 1..Len(s)
    BY <1>1, <2>2, AppendIsSeq DEF Spoken
  <2> QED BY <1>1, <2>1, <2>2
<1> QED BY <1>2, <1>3 DEF Spoken

\* A part of the messages has their roles.
LEMMA SpokenSubSeq ==
  ASSUME NEW s, NEW roles, Spoken(s, roles), NEW m \in Nat \ {0}, NEW n \in Nat, n <= Len(s)
  PROVE  Spoken(SubSeq(s, m, n), roles)
<1>1. IsSeq(s) /\ Len(s) \in Nat /\ DOMAIN s = 1..Len(s)
  BY IsSeqFacts DEF Spoken
<1> DEFINE t == SubSeq(s, m, n)
<1>2. /\ IsSeq(t) /\ Len(t) = (IF m <= n THEN n - m + 1 ELSE 0)
      /\ \A i \in 1..Len(t) : t[i] = s[m + i - 1]
  BY <1>1, SubSeqIsSeq
<1> HIDE DEF t
<1>3. DOMAIN t = 1..Len(t)
  BY <1>2, IsSeqFacts
<1>4. \A i \in DOMAIN t : m + i - 1 \in DOMAIN s /\ t[i] = s[m + i - 1]
  BY <1>1, <1>2, <1>3
<1> QED BY <1>2, <1>4 DEF Spoken, t

\* MergeRun passes on what it takes, under its role.
LEMMA MergeStep == ASSUME IInv, MergeRun PROVE IInv'
<1>1. Spoken(msgs, Speakers) /\ Spoken(out, Speakers) /\ history = <<>>
  BY DEF IInv, MergeRun
<1>2. IsSeq(msgs) /\ Len(msgs) \in Nat /\ DOMAIN msgs = 1..Len(msgs)
  BY <1>1, IsSeqFacts DEF Spoken
<1>3. PICK n \in DOMAIN msgs :
        /\ out' = Append(out, IF n = 1 THEN msgs[1] ELSE Joined(SubSeq(msgs, 1, n)))
        /\ msgs' = SubSeq(msgs, n + 1, Len(msgs))
  BY DEF MergeRun
<1>4. IsMessage(msgs[1]) /\ msgs[1].role \in Speakers
  BY <1>1, <1>2 DEF Spoken
<1>5. IsMessage(Joined(SubSeq(msgs, 1, n))) /\ Joined(SubSeq(msgs, 1, n)).role = msgs[1].role
  <2>1. SubSeq(msgs, 1, n)[1] = msgs[1]
    BY <1>2, SubSeqIsSeq
  <2> QED BY <2>1 DEF Joined, IsMessage
<1>6. Spoken(out', Speakers) /\ out' # <<>>
  BY <1>1, <1>3, <1>4, <1>5, SpokenAppend
<1>7. Spoken(msgs', Speakers)
  BY <1>1, <1>2, <1>3, SpokenSubSeq
<1> QED BY <1>1, <1>6, <1>7 DEF IInv, MergeRun, Spoken

\* A synthetic message has the role it is given.
LEMMA SaysIs ==
  ASSUME NEW role, NEW text
  PROVE  IsMessage(Says(role, text)) /\ Says(role, text).role = role
  BY DEF Says, IsMessage

\* StartWithUser leaves a user in front.
LEMMA StartStep == ASSUME IInv, StartWithUser PROVE IInv'
<1>1. Spoken(out, Speakers) /\ out # <<>> /\ history = <<>>
  BY DEF IInv, StartWithUser
<1>2. IsSeq(out) /\ Len(out) \in Nat \ {0} /\ DOMAIN out = 1..Len(out)
  BY <1>1, IsSeqFacts DEF Spoken
<1>3. IsMessage(out[1]) /\ out[1].role \in Speakers
  BY <1>1, <1>2 DEF Spoken
<1> DEFINE pre == IF out[1].role # "user" THEN <<Says("user", SyntheticEmpty)>> ELSE <<>>
<1>4. IsSeq(pre) /\ Len(pre) \in {0, 1} /\ (Len(pre) = 0 <=> out[1].role = "user")
      /\ (Len(pre) = 1 => pre[1] = Says("user", SyntheticEmpty))
  <2>1. CASE out[1].role = "user"
    BY <2>1, EmptyIsSeq
  <2>2. CASE out[1].role # "user"
    <3>1. \A m : <<m>> \in Seq({m}) /\ Len(<<m>>) = 1 /\ <<m>>[1] = m
      OBVIOUS
    <3>2. pre = <<Says("user", SyntheticEmpty)>>
      BY <2>2
    <3>3. IsSeq(pre)
      BY <3>1, <3>2, SeqIs
    <3>4. Len(pre) = 1 /\ pre[1] = Says("user", SyntheticEmpty)
      BY <3>1, <3>2
    <3> HIDE DEF pre
    <3> QED BY <2>2, <3>3, <3>4
  <2> QED BY <2>1, <2>2
<1>5. msgs' = pre \o out
  BY DEF StartWithUser
<1> HIDE DEF pre
<1>6. /\ IsSeq(msgs') /\ Len(msgs') = Len(pre) + Len(out)
      /\ \A i \in 1..Len(msgs') : msgs'[i] = IF i <= Len(pre) THEN pre[i] ELSE out[i - Len(pre)]
  BY <1>2, <1>4, <1>5, ConcatIsSeq
<1>7. DOMAIN msgs' = 1..Len(msgs') /\ msgs' # <<>>
  BY <1>2, <1>4, <1>6, IsSeqFacts
<1>8. ASSUME NEW i \in 1..Len(msgs')
      PROVE  IsMessage(msgs'[i]) /\ msgs'[i].role \in Speakers /\ (i = 1 => msgs'[i].role = "user")
  <2>1. CASE i <= Len(pre)
    <3>1. i = 1 /\ msgs'[i] = Says("user", SyntheticEmpty)
      BY <1>4, <1>6, <2>1
    <3> QED BY <3>1, SaysIs DEF Speakers
  <2>2. CASE ~(i <= Len(pre))
    <3>1. i - Len(pre) \in 1..Len(out) /\ msgs'[i] = out[i - Len(pre)]
      BY <1>2, <1>4, <1>6, <2>2
    <3>2. i = 1 => out[1].role = "user" /\ i - Len(pre) = 1
      BY <1>4, <2>2
    <3> QED BY <1>1, <1>2, <3>1, <3>2 DEF Spoken
  <2> QED BY <2>1, <2>2
<1>9. Spoken(msgs', Speakers) /\ msgs'[1].role = "user"
  BY <1>2, <1>4, <1>6, <1>7, <1>8 DEF Spoken
<1>10. Spoken(<<>>, Speakers) /\ Alternates(<<>>)
  BY EmptyIsSeq, IsSeqFacts DEF Spoken, Alternates
<1> QED BY <1>1, <1>7, <1>9, <1>10 DEF IInv, StartWithUser, Spoken, Alternates

\* A turn of the role opposite to the last one keeps the alternation.
LEMMA AlternatesAppend ==
  ASSUME NEW s, NEW m, IsSeq(s), Alternates(s),
         m.role = IF s = <<>> THEN "user" ELSE Opposite(s[Len(s)].role)
  PROVE  Alternates(Append(s, m))
<1>1. Len(s) \in Nat /\ DOMAIN s = 1..Len(s) /\ (s = <<>> <=> Len(s) = 0)
  BY IsSeqFacts
<1>2. DOMAIN Append(s, m) = 1..(Len(s) + 1)
  BY AppendIsSeq, IsSeqFacts
<1>3. ASSUME NEW i \in 1..(Len(s) + 1)
      PROVE  Append(s, m)[i].role = IF i = 1 THEN "user" ELSE Opposite(Append(s, m)[i - 1].role)
  <2>1. CASE i \in 1..Len(s)
    <3>1. s[i].role = IF i = 1 THEN "user" ELSE Opposite(s[i - 1].role)
      BY <1>1, <2>1 DEF Alternates
    <3>2. Append(s, m)[i] = s[i] /\ (i # 1 => Append(s, m)[i - 1] = s[i - 1])
      BY <1>1, <2>1, AppendIsSeq
    <3> QED BY <3>1, <3>2
  <2>2. CASE i = Len(s) + 1
    <3>1. Append(s, m)[i] = m
      BY <2>2, AppendIsSeq
    <3>2. CASE i = 1
      <4>1. s = <<>>
        BY <1>1, <2>2, <3>2
      <4> QED BY <3>1, <3>2, <4>1
    <3>3. CASE i # 1
      <4>1. s # <<>> /\ i - 1 = Len(s) /\ i - 1 \in 1..Len(s)
        BY <1>1, <2>2, <3>3
      <4>2. Append(s, m)[i - 1] = s[Len(s)]
        BY <4>1, AppendIsSeq
      <4> QED BY <3>1, <3>3, <4>1, <4>2
    <3> QED BY <3>2, <3>3
  <2> QED BY <1>1, <2>1, <2>2
<1> QED BY <1>2, <1>3 DEF Alternates

\* Alternate keeps what it has passed alternating.
LEMMA AlternateStep == ASSUME IInv, Alternate PROVE IInv'
<1> DEFINE m == msgs[1]
           filled == IF out # <<>> /\ Last(out).role = m.role
                     THEN Append(out, Says(Opposite(m.role), SyntheticEmpty)) ELSE out
<1>1. /\ Spoken(msgs, Speakers) /\ Spoken(out, Speakers) /\ Alternates(out) /\ history = <<>>
      /\ out = <<>> => msgs[1].role = "user"
      /\ msgs # <<>> /\ msgs' = Tail(msgs) /\ out' = Append(filled, m)
  BY DEF IInv, Alternate
<1>2. IsSeq(msgs) /\ Len(msgs) \in Nat \ {0} /\ DOMAIN msgs = 1..Len(msgs)
  BY <1>1, IsSeqFacts DEF Spoken
<1>3. IsSeq(out) /\ Len(out) \in Nat /\ DOMAIN out = 1..Len(out) /\ (out = <<>> <=> Len(out) = 0)
  BY <1>1, IsSeqFacts DEF Spoken
<1>4. IsMessage(m) /\ m.role \in Speakers
  BY <1>1, <1>2 DEF Spoken
<1>5. out # <<>> => Last(out) = out[Len(out)] /\ out[Len(out)].role \in Speakers
  BY <1>1, <1>3 DEF Spoken, Last
<1> HIDE DEF m
<1>6. /\ Spoken(filled, Speakers) /\ Alternates(filled)
      /\ m.role = IF filled = <<>> THEN "user" ELSE Opposite(filled[Len(filled)].role)
  <2>1. CASE out # <<>> /\ Last(out).role = m.role
    <3>1. Says(Opposite(m.role), SyntheticEmpty).role = Opposite(m.role)
          /\ IsMessage(Says(Opposite(m.role), SyntheticEmpty))
      BY SaysIs
    <3>2. Opposite(m.role) \in Speakers /\ m.role = Opposite(Opposite(m.role))
      BY <1>4 DEF Opposite, Speakers
    <3>3. Spoken(filled, Speakers) /\ filled # <<>>
      BY <1>1, <2>1, <3>1, <3>2, SpokenAppend
    <3>4. Alternates(filled)
      BY <1>1, <1>3, <1>5, <2>1, <3>1, AlternatesAppend
    <3>5. filled[Len(filled)] = Says(Opposite(m.role), SyntheticEmpty)
      <4>1. filled = Append(out, Says(Opposite(m.role), SyntheticEmpty))
        BY <2>1
      <4> HIDE DEF filled
      <4> QED BY <1>3, <4>1, AppendIsSeq
    <3> QED BY <3>1, <3>2, <3>3, <3>4, <3>5
  <2>2. CASE ~(out # <<>> /\ Last(out).role = m.role)
    <3>1. filled = out
      BY <2>2
    <3>2. out # <<>> => m.role = Opposite(out[Len(out)].role)
      BY <1>4, <1>5, <2>2 DEF Opposite, Speakers
    <3> HIDE DEF filled
    <3> QED BY <1>1, <3>1, <3>2 DEF m
  <2> QED BY <2>1, <2>2
<1> HIDE DEF filled
<1>7. Spoken(out', Speakers) /\ out' # <<>>
  BY <1>1, <1>4, <1>6, SpokenAppend
<1>8. Alternates(out')
  BY <1>1, <1>6, AlternatesAppend DEF Spoken
<1>9. Spoken(msgs', Speakers)
  <2>1. msgs' = SubSeq(msgs, 2, Len(msgs))
    BY <1>1, <1>2
  <2>2. 2 \in Nat \ {0} /\ Len(msgs) \in Nat /\ Len(msgs) <= Len(msgs)
    BY <1>2
  <2>3. Spoken(SubSeq(msgs, 2, Len(msgs)), Speakers)
    BY <1>1, <2>2, SpokenSubSeq, Zenon
  <2> QED BY <2>1, <2>3
<1> QED BY <1>1, <1>7, <1>8, <1>9 DEF IInv, Alternate, Spoken

\* Split leaves a history that ends with an assistant.
LEMMA SplitStep == ASSUME IInv, Split PROVE IInv'
<1>1. /\ Spoken(out, Speakers) /\ Alternates(out) /\ out # <<>> /\ history = <<>>
      /\ IF Last(out).role = "assistant" THEN msgs' = out ELSE msgs' = Front(out)
  BY DEF IInv, Split
<1>2. IsSeq(out) /\ Len(out) \in Nat \ {0} /\ DOMAIN out = 1..Len(out)
  BY <1>1, IsSeqFacts DEF Spoken
<1>3. Last(out) = out[Len(out)] /\ out[Len(out)].role \in Speakers
  BY <1>1, <1>2 DEF Last, Spoken
<1>4. Spoken(msgs', Speakers) /\ Alternates(msgs')
      /\ (msgs' # <<>> => msgs'[Len(msgs')].role = "assistant")
  <2>1. CASE Last(out).role = "assistant"
    BY <1>1, <1>3, <2>1
  <2>2. CASE Last(out).role # "assistant"
    <3>1. msgs' = SubSeq(out, 1, Len(out) - 1)
      BY <1>1, <2>2 DEF Front
    <3>2. Spoken(msgs', Speakers) /\ Len(msgs') = Len(out) - 1
          /\ \A i \in 1..(Len(out) - 1) : msgs'[i] = out[i]
      <4> DEFINE n == Len(out) - 1
      <4>1. 1 \in Nat \ {0} /\ n \in Nat /\ n <= Len(out)
        BY <1>2
      <4> HIDE DEF n
      <4>2. Spoken(SubSeq(out, 1, n), Speakers)
        BY <1>1, <4>1, SpokenSubSeq, Zenon
      <4>3. /\ Len(SubSeq(out, 1, n)) = n
            /\ \A i \in 1..n : SubSeq(out, 1, n)[i] = out[i]
        BY <1>2, <4>1, SubSeqIsSeq
      <4> QED BY <3>1, <4>2, <4>3 DEF n
    <3>3. DOMAIN msgs' = 1..(Len(out) - 1) /\ (msgs' = <<>> <=> Len(out) = 1)
      BY <1>2, <3>2, IsSeqFacts DEF Spoken
    <3>4. \A i \in 1..Len(out) : out[i].role = IF i = 1 THEN "user" ELSE Opposite(out[i - 1].role)
      BY <1>1, <1>2 DEF Alternates
    <3>5. Alternates(msgs')
      <4>1. ASSUME NEW i \in 1..(Len(out) - 1)
            PROVE  msgs'[i].role = IF i = 1 THEN "user" ELSE Opposite(msgs'[i - 1].role)
        <5>1. msgs'[i] = out[i] /\ (i # 1 => msgs'[i - 1] = out[i - 1])
          BY <1>2, <3>2
        <5> QED BY <1>2, <3>4, <5>1
      <4> QED BY <3>3, <4>1 DEF Alternates
    <3>6. ASSUME msgs' # <<>> PROVE msgs'[Len(msgs')].role = "assistant"
      <4>1. Len(out) - 1 \in 1..Len(out) /\ Len(out) # 1
        BY <1>2, <3>3, <3>6
      <4>2. out[Len(out)].role = "user" /\ out[Len(out) - 1].role \in Speakers
        BY <1>1, <1>2, <1>3, <2>2, <4>1 DEF Speakers, Spoken
      <4>3. out[Len(out) - 1].role = "assistant"
        BY <1>2, <3>4, <4>1, <4>2 DEF Opposite, Speakers
      <4> QED BY <1>2, <3>2, <4>1, <4>3
    <3> QED BY <3>2, <3>5, <3>6
  <2> QED BY <2>1, <2>2
<1>5. IsSeq(<<>>) /\ Len(<<>>) = 0 /\ DOMAIN <<>> = {} /\ Len(msgs') \in Nat
  BY <1>4, EmptyIsSeq, IsSeqFacts DEF Spoken
<1> QED BY <1>1, <1>4, <1>5 DEF IInv, Split

\* A turn has the role it is given.
LEMMA TurnIs ==
  ASSUME NEW role, NEW text, NEW uses, NEW results
  PROVE  Turn(role, text, uses, results).role = role
  BY DEF Turn

\* A turn put behind the history, under the role of its message.
LEMMA HistoryGrows ==
  ASSUME IInv, stage = "history", UNCHANGED <<stage, msgs>>,
         NEW i, i = Len(history) + 1, i <= Len(msgs),
         NEW t, t.role = msgs[i].role, history' = Append(history, t)
  PROVE  IInv'
<1>1. /\ Spoken(msgs, Speakers) /\ IsSeq(history)
      /\ \A k \in DOMAIN history : history[k].role = msgs[k].role
  BY DEF IInv
<1>2. Len(history) \in Nat /\ DOMAIN history = 1..Len(history) /\ Len(msgs) \in Nat
  BY <1>1, IsSeqFacts DEF Spoken
<1>3. /\ IsSeq(history') /\ Len(history') = Len(history) + 1
      /\ DOMAIN history' = 1..(Len(history) + 1)
      /\ \A k \in 1..Len(history) : history'[k] = history[k]
      /\ history'[Len(history) + 1] = t
  BY <1>1, AppendIsSeq, IsSeqFacts
<1>4. \A k \in DOMAIN history' : history'[k].role = msgs[k].role
  BY <1>1, <1>2, <1>3
<1> QED BY <1>2, <1>3, <1>4 DEF IInv

\* Each message becomes one turn under its role.
LEMMA HistoryStep == ASSUME IInv, HistoryUser \/ HistoryAssistant PROVE IInv'
<1>1. CASE HistoryUser
  BY <1>1, TurnIs, HistoryGrows DEF HistoryUser
<1>2. CASE HistoryAssistant
  BY <1>2, TurnIs, HistoryGrows DEF HistoryAssistant
<1> QED BY <1>1, <1>2

\* The system prompt and its acknowledgement stand in front and alternate.
LEMMA SystemStep == ASSUME IInv, PlaceSystemPrompt PROVE IInv'
<1>1. /\ IsSeq(history) /\ Alternates(msgs) /\ Len(history) = Len(msgs) /\ IsSeq(msgs)
      /\ \A i \in DOMAIN history : history[i].role = msgs[i].role
      /\ msgs # <<>> => msgs[Len(msgs)].role = "assistant"
  BY DEF IInv, PlaceSystemPrompt, Spoken
<1>2. /\ Len(history) \in Nat /\ DOMAIN history = 1..Len(history)
      /\ DOMAIN msgs = 1..Len(history) /\ (history = <<>> <=> msgs = <<>>)
  BY <1>1, IsSeqFacts
<1>3. Alternates(history)
  <2>1. ASSUME NEW i \in DOMAIN history
        PROVE  history[i].role = IF i = 1 THEN "user" ELSE Opposite(history[i - 1].role)
    <3>1. msgs[i].role = IF i = 1 THEN "user" ELSE Opposite(msgs[i - 1].role)
      BY <1>1, <1>2 DEF Alternates
    <3>2. history[i].role = msgs[i].role /\ (i # 1 => history[i - 1].role = msgs[i - 1].role)
      BY <1>1, <1>2
    <3> QED BY <3>1, <3>2
  <2> QED BY <2>1 DEF Alternates
<1>4. history # <<>> => history[Len(history)].role = "assistant"
  BY <1>1, <1>2
<1> DEFINE a == Turn("user", <<Piece("synthetic", "system")>>, <<>>, <<>>)
           b == Turn("assistant", <<Piece("synthetic", "ack")>>, <<>>, <<>>)
<1>5. history' = (IF request.system THEN <<a, b>> ELSE <<>>) \o history /\ stage' = "current"
  BY DEF PlaceSystemPrompt
<1>6. a.role = "user" /\ b.role = "assistant"
  BY TurnIs
<1> HIDE DEF a, b
<1>7. CASE ~request.system
  <2>1. history' = history
    <3>1. history \in Seq(ToSet(history))
      BY <1>1, IsSeqFacts
    <3> QED BY <1>5, <1>7, <3>1
  <2> QED BY <1>1, <1>3, <1>4, <1>5, <2>1 DEF IInv
<1>8. CASE request.system
  <2>1. IsSeq(<<a, b>>) /\ Len(<<a, b>>) = 2 /\ <<a, b>>[1] = a /\ <<a, b>>[2] = b
    <3>1. <<a, b>> \in Seq({a, b})
      OBVIOUS
    <3>2. IsSeq(<<a, b>>)
      BY <3>1, SeqIs
    <3> QED BY <3>2
  <2> DEFINE pair == <<a, b>>
  <2>2. history' = pair \o history
    BY <1>5, <1>8
  <2>3. IsSeq(pair) /\ Len(pair) = 2 /\ pair[1] = a /\ pair[2] = b
    BY <2>1
  <2> HIDE DEF pair
  <2>4. /\ IsSeq(history') /\ Len(history') = Len(history) + 2
        /\ \A i \in 1..(Len(history) + 2) : history'[i] = IF i <= 2 THEN pair[i] ELSE history[i - 2]
    <3>1. /\ IsSeq(pair \o history) /\ Len(pair \o history) = Len(pair) + Len(history)
          /\ \A i \in 1..Len(pair \o history) :
               (pair \o history)[i] = IF i <= Len(pair) THEN pair[i] ELSE history[i - Len(pair)]
      BY <1>1, <2>3, ConcatIsSeq, Zenon
    <3>2. Len(pair \o history) = Len(history) + 2
      BY <1>2, <2>3, <3>1
    <3> QED BY <2>2, <2>3, <3>1, <3>2
  <2>5. DOMAIN history' = 1..(Len(history) + 2)
    BY <2>4, IsSeqFacts
  <2>6. ASSUME NEW i \in 1..(Len(history) + 2)
        PROVE  history'[i].role = IF i = 1 THEN "user" ELSE Opposite(history'[i - 1].role)
    <3>1. CASE i = 1
      BY <1>2, <1>6, <2>3, <2>4, <3>1
    <3>2. CASE i = 2
      <4>1. history'[2] = b /\ history'[1] = a
        BY <1>2, <2>3, <2>4
      <4> QED BY <1>6, <3>2, <4>1 DEF Opposite
    <3>3. CASE i = 3
      <4>1. history'[3] = history[1] /\ history'[2] = b /\ 1 \in DOMAIN history
        BY <1>2, <2>3, <2>4, <3>3
      <4>2. history[1].role = "user"
        BY <1>3, <4>1 DEF Alternates
      <4> QED BY <1>6, <3>3, <4>1, <4>2 DEF Opposite
    <3>4. CASE i > 3
      <4>1. /\ history'[i] = history[i - 2] /\ history'[i - 1] = history[(i - 2) - 1]
            /\ i - 2 \in DOMAIN history /\ i - 2 # 1
        BY <1>2, <2>4, <3>4
      <4>2. history[i - 2].role = Opposite(history[(i - 2) - 1].role)
        BY <1>3, <4>1 DEF Alternates
      <4> QED BY <3>4, <4>1, <4>2
    <3> QED BY <1>2, <3>1, <3>2, <3>3, <3>4
  <2>7. Alternates(history')
    BY <2>5, <2>6 DEF Alternates
  <2>8. history'[Len(history')].role = "assistant"
    <3>1. CASE history = <<>>
      BY <1>2, <1>6, <2>3, <2>4, <3>1, IsSeqFacts
    <3>2. CASE history # <<>>
      <4>1. Len(history) # 0
        BY <1>1, <3>2, IsSeqFacts
      <4> QED BY <1>2, <1>4, <2>4, <3>2, <4>1
    <3> QED BY <3>1, <3>2
  <2> QED BY <1>5, <2>4, <2>7, <2>8 DEF IInv
<1> QED BY <1>7, <1>8

\* A request that is not refused has messages.
LEMMA RouteStep == ASSUME IInv, Route PROVE IInv'
<1>1. request \in Requests /\ msgs = request.messages /\ msgs # <<>> /\ out = <<>> /\ history = <<>>
  BY DEF IInv, Route, Refusable
<1>2. Spoken(msgs, Roles)
  BY <1>1, RequestsAssumption DEF Spoken, WellMade, ToSet
<1> QED BY <1>1, <1>2 DEF IInv, Route, Spoken

-----------------------------------------------------------------------------
\* IInv is an invariant.
THEOREM Invariance == Spec => []IInv
<1>1. Init => IInv
  BY DEF Init, IInv
<1>2. IInv /\ [Next]_vars => IInv'
  <2> SUFFICES ASSUME IInv, [Next]_vars PROVE IInv'
    OBVIOUS
  <2>1. CASE Reject \/ RefuseImages
    BY <2>1 DEF Reject, RefuseImages, IInv
  <2>2. CASE Route
    BY <2>2, RouteStep
  <2>3. CASE ConvertTools
    BY <2>3 DEF ConvertTools, IInv, Spoken
  <2>4. CASE Textualize
    BY <2>4, TextualizeStep
  <2>5. CASE NormalizeRoles
    BY <2>5, RolesStep
  <2>6. CASE MergeRun
    BY <2>6, MergeStep
  <2>7. CASE StartWithUser
    BY <2>7, StartStep
  <2>8. CASE Alternate
    BY <2>8, AlternateStep
  <2>9. CASE Split
    BY <2>9, SplitStep
  <2>10. CASE HistoryUser \/ HistoryAssistant
    BY <2>10, HistoryStep
  <2>11. CASE PlaceSystemPrompt
    BY <2>11, SystemStep
  <2>12. CASE Finish
    BY <2>12 DEF Finish, IInv, Alternates
  <2>13. CASE UNCHANGED vars
    BY <2>13 DEF vars, IInv, Spoken, Alternates
  <2> QED BY <2>1, <2>2, <2>3, <2>4, <2>5, <2>6, <2>7, <2>8, <2>9, <2>10, <2>11, <2>12, <2>13
          DEF Next, Done
<1> QED BY <1>1, <1>2, PTL DEF Spec

\* The payload of every request starts with a user's turn and alternates up to the
\* current message, for all requests and limits.
THEOREM AlternationTheorem == Spec => []HistoryAlternates
<1>1. IInv => HistoryAlternates
  <2> SUFFICES ASSUME IInv, stage = "sent" PROVE Alternates(Turns)
    BY DEF HistoryAlternates
  <2>1. /\ IsSeq(history) /\ Alternates(history)
        /\ history # <<>> => history[Len(history)].role = "assistant"
    BY DEF IInv
  <2> DEFINE m == Turn("user", current.text, <<>>, current.results)
  <2>2. m.role = "user"
    BY TurnIs
  <2>3. Turns = Append(history, m)
    BY DEF Turns
  <2> HIDE DEF m
  <2> QED BY <2>1, <2>2, <2>3, AlternatesAppend DEF Opposite
<1> QED BY <1>1, Invariance, PTL

-----------------------------------------------------------------------------
(* Flattening and keeping.                                                 *)

\* A set of naturals that is not empty has a least element.
LEMMA LeastNat ==
  ASSUME NEW T \in SUBSET Nat, T # {}
  PROVE  \E n \in T : \A m \in T : n <= m
<1> DEFINE Below == {0 .. m : m \in T}
<1>1. Below \subseteq FiniteSubsetsOf(Nat) /\ Below # {}
  <2>1. ASSUME NEW m \in T
        PROVE  0 .. m \in FiniteSubsetsOf(Nat)
    <3>1. IsFiniteSet(0 .. m)
      BY FS_Interval
    <3>2. 0 .. m \subseteq Nat
      OBVIOUS
    <3>3. QED
      BY <3>1, <3>2 DEF FiniteSubsetsOf
  <2>2. QED
    BY <2>1
<1> HIDE DEF Below
<1>2. PICK least \in Below :
        \A other \in Below : ~ (<<other, least>> \in StrictSubsetOrdering(Nat))
  BY <1>1, FS_StrictSubsetOrderingWellFounded, WFMin
<1>3. PICK n \in T : least = 0 .. n
  BY <1>2 DEF Below
<1>4. ASSUME NEW m \in T, m < n
      PROVE  FALSE
  <2>1. 0 .. m \in Below
    BY DEF Below
  <2>2. /\ 0 .. m \in SUBSET Nat /\ 0 .. n \in SUBSET Nat
        /\ 0 .. m \subseteq 0 .. n /\ 0 .. m # 0 .. n
    BY <1>4
  <2>3. <<0 .. m, 0 .. n>> \in StrictSubsetOrdering(Nat)
    BY <2>2 DEF StrictSubsetOrdering
  <2>4. QED
    BY <1>2, <1>3, <2>1, <2>3
<1>5. QED
  BY <1>4

\* Induction over the naturals, with the set of what satisfies the claim in the
\* place of a predicate.
LEMMA UpTheNaturals ==
  ASSUME NEW Good, 0 \in Good, \A n \in Nat : n \in Good => n + 1 \in Good
  PROVE  Nat \subseteq Good
<1> SUFFICES ASSUME Nat \ Good # {}
             PROVE  FALSE
  OBVIOUS
<1>1. PICK n \in Nat \ Good : \A m \in Nat \ Good : n <= m
  BY LeastNat
<1>2. n - 1 \in Nat /\ n - 1 \in Good
  BY <1>1
<1>3. QED
  BY <1>1, <1>2

\* The same up to a bound.
LEMMA UpTo ==
  ASSUME NEW n \in Nat, NEW Good, 0 \in Good, \A i \in 0..(n - 1) : i \in Good => i + 1 \in Good
  PROVE  0..n \subseteq Good
<1> DEFINE T == {i \in Nat : i \in 0..n => i \in Good}
<1>1. 0 \in T /\ \A i \in Nat : i \in T => i + 1 \in T
  OBVIOUS
<1> HIDE DEF T
<1>2. Nat \subseteq T
  BY <1>1, UpTheNaturals
<1> QED BY <1>2 DEF T

\* A sequence of sequences.
Lists(s) == IsSeq(s) /\ \A i \in DOMAIN s : IsSeq(s[i])

\* One turn of FlattenSeq.
Turned(f, s) == f = [i \in 1..Len(s) |-> IF i = 1 THEN s[i] ELSE f[i - 1] \o s[i]]

\* The recursion of FlattenSeq defines it.
LEMMA FlattenIs ==
  ASSUME NEW s, IsSeq(s), s # <<>>
  PROVE  \E f : Turned(f, s) /\ FlattenSeq(s) = f[Len(s)]
<1>1. Len(s) \in Nat \ {0}
  BY IsSeqFacts
<1> DEFINE n == Len(s)
           Upto(f, m) == f = [i \in 1..m |-> IF i = 1 THEN s[i] ELSE f[i - 1] \o s[i]]
           Good == {m \in Nat : \E f : Upto(f, m)}
<1>2. 0 \in Good
  <2> DEFINE f == [i \in 1..0 |-> IF i = 1 THEN s[i] ELSE s[i]]
  <2>1. f = [i \in 1..0 |-> IF i = 1 THEN s[i] ELSE f[i - 1] \o s[i]]
    OBVIOUS
  <2> HIDE DEF f
  <2> QED BY <2>1
<1>3. ASSUME NEW m \in Nat, m \in Good PROVE m + 1 \in Good
  <2>1. PICK f : Upto(f, m)
    BY <1>3
  <2> DEFINE g == [i \in 1..(m + 1) |-> IF i = m + 1
                                       THEN IF i = 1 THEN s[i] ELSE f[m] \o s[i]
                                       ELSE f[i]]
  <2>2. ASSUME NEW i \in 1..(m + 1)
        PROVE  g[i] = IF i = 1 THEN s[i] ELSE g[i - 1] \o s[i]
    <3>1. CASE i = m + 1
      BY <3>1
    <3>2. CASE i # m + 1
      <4>1. i \in 1..m /\ g[i] = f[i] /\ (i # 1 => i - 1 \in 1..m /\ g[i - 1] = f[i - 1])
        BY <3>2
      <4> HIDE DEF g
      <4>2. f[i] = IF i = 1 THEN s[i] ELSE f[i - 1] \o s[i]
        BY <2>1, <4>1
      <4> QED BY <4>1, <4>2
    <3> QED BY <3>1, <3>2
  <2>3. g = [i \in 1..(m + 1) |-> g[i]]
    OBVIOUS
  <2> HIDE DEF g
  <2>4. Upto(g, m + 1)
    BY <2>2, <2>3
  <2> HIDE DEF Upto
  <2> QED BY <2>4
<1>4. n \in Good
  <2> HIDE DEF Good
  <2> QED BY <1>1, <1>2, <1>3, UpTheNaturals
<1> DEFINE P(f) == Upto(f, n)
           made == CHOOSE f : P(f)
<1>5. FlattenSeq(s) = made[n]
  BY <1>1 DEF FlattenSeq
<1>6. \E f : P(f)
  BY <1>4
<1>7. P(made)
  <2> HIDE DEF P
  <2> QED BY <1>6
<1>8. Turned(made, s)
  BY <1>7 DEF Turned
<1> HIDE DEF made
<1> QED BY <1>5, <1>8

\* Nothing flattened is nothing.
LEMMA FlattenEmpty == FlattenSeq(<<>>) = <<>>
  BY DEF FlattenSeq

\* What is flattened is a sequence, and one list more is put behind.
LEMMA FlattenAppend ==
  ASSUME NEW s, NEW x, Lists(s), IsSeq(x)
  PROVE  /\ IsSeq(FlattenSeq(s)) /\ Lists(Append(s, x))
         /\ FlattenSeq(Append(s, x)) = FlattenSeq(s) \o x
<1> DEFINE t == Append(s, x)
           n == Len(s)
<1>1. /\ IsSeq(s) /\ n \in Nat /\ DOMAIN s = 1..n /\ (s = <<>> <=> n = 0)
      /\ IsSeq(t) /\ Len(t) = n + 1 /\ DOMAIN t = 1..(n + 1) /\ t # <<>>
      /\ \A i \in 1..n : t[i] = s[i]
      /\ t[n + 1] = x
  BY IsSeqFacts, AppendIsSeq DEF Lists
<1> HIDE DEF t, n
<1>2. Lists(t)
  BY <1>1 DEF Lists
<1>3. PICK g : Turned(g, t) /\ FlattenSeq(t) = g[n + 1]
  BY <1>1, FlattenIs
<1>4. \A i \in 1..(n + 1) : g[i] = IF i = 1 THEN t[i] ELSE g[i - 1] \o t[i]
  BY <1>1, <1>3 DEF Turned
<1>5. CASE n = 0
  <2>1. s = <<>> /\ FlattenSeq(s) = <<>>
    BY <1>1, <1>5, FlattenEmpty
  <2>2. FlattenSeq(t) = x
    BY <1>1, <1>3, <1>4, <1>5
  <2>3. <<>> \o x = x
    <3>1. x \in Seq(ToSet(x))
      BY IsSeqFacts
    <3> QED BY <3>1
  <2> QED BY <1>2, <2>1, <2>2, <2>3, EmptyIsSeq DEF t
<1>6. CASE n # 0
  <2>1. PICK f : Turned(f, s) /\ FlattenSeq(s) = f[n]
    BY <1>1, <1>6, FlattenIs DEF n
  <2>2. \A i \in 1..n : f[i] = IF i = 1 THEN s[i] ELSE f[i - 1] \o s[i]
    BY <1>1, <2>1 DEF Turned, n
  <2> DEFINE Good == {i \in Nat : i \in 1..n => f[i] = g[i] /\ IsSeq(f[i])}
  <2>3. 0 \in Good
    OBVIOUS
  <2>4. ASSUME NEW i \in Nat, i \in Good PROVE i + 1 \in Good
    <3> SUFFICES ASSUME i + 1 \in 1..n PROVE f[i + 1] = g[i + 1] /\ IsSeq(f[i + 1])
      OBVIOUS
    <3>1. s[i + 1] = t[i + 1] /\ IsSeq(s[i + 1]) /\ i + 1 \in 1..(n + 1)
      BY <1>1 DEF Lists
    <3>2. CASE i = 0
      BY <1>4, <2>2, <3>1, <3>2
    <3>3. CASE i # 0
      <4>1. i \in 1..n /\ (i + 1) - 1 = i /\ i + 1 # 1
        BY <1>1, <3>3
      <4>2. f[i] = g[i] /\ IsSeq(f[i])
        BY <2>4, <4>1
      <4>3. f[i + 1] = f[i] \o s[i + 1] /\ g[i + 1] = g[i] \o t[i + 1]
        BY <1>4, <2>2, <3>1, <4>1
      <4> QED BY <3>1, <4>2, <4>3, ConcatIsSeq
    <3> QED BY <3>2, <3>3
  <2>5. n \in Good
    <3> HIDE DEF Good
    <3> QED BY <1>1, <2>3, <2>4, UpTheNaturals
  <2>6. f[n] = g[n] /\ IsSeq(f[n])
    BY <1>1, <1>6, <2>5
  <2>7. g[n + 1] = g[n] \o x
    <3>1. n + 1 \in 1..(n + 1) /\ n + 1 # 1 /\ (n + 1) - 1 = n /\ t[n + 1] = x
      BY <1>1, <1>6
    <3> QED BY <1>4, <3>1
  <2> QED BY <1>2, <1>3, <2>1, <2>6, <2>7 DEF t
<1> QED BY <1>5, <1>6

\* A sequence over any set that holds its elements.
LEMMA SeqWithin ==
  ASSUME NEW s, IsSeq(s), NEW S, ToSet(s) \subseteq S
  PROVE  s \in Seq(S)
  BY IsSeqFacts, SeqMonotonic, Zenon

\* Two sequences of one length with the same elements are one.
LEMMA SeqSame ==
  ASSUME NEW s, NEW t, IsSeq(s), IsSeq(t), Len(s) = Len(t), \A i \in 1..Len(s) : s[i] = t[i]
  PROVE  s = t
<1>1. s = [i \in 1..Len(s) |-> s[i]] /\ t = [i \in 1..Len(t) |-> t[i]]
  BY IsSeqFacts
<1> QED BY <1>1

\* Nothing put before or behind changes nothing.
LEMMA ConcatNothing ==
  ASSUME NEW s, IsSeq(s)
  PROVE  s \o <<>> = s /\ <<>> \o s = s
<1>1. s \in Seq(ToSet(s))
  BY IsSeqFacts
<1> QED BY <1>1, ConcatEmptySeq

\* Putting sequences together is associative.
LEMMA ConcatAssoc ==
  ASSUME NEW s, NEW t, NEW u, IsSeq(s), IsSeq(t), IsSeq(u)
  PROVE  (s \o t) \o u = s \o (t \o u)
<1> DEFINE S == ToSet(s) \cup ToSet(t) \cup ToSet(u)
<1>1. s \in Seq(S) /\ t \in Seq(S) /\ u \in Seq(S)
  <2>1. ToSet(s) \subseteq S /\ ToSet(t) \subseteq S /\ ToSet(u) \subseteq S
    OBVIOUS
  <2> HIDE DEF S
  <2> QED BY <2>1, SeqWithin
<1> HIDE DEF S
<1> QED BY <1>1, ConcatAssociative

\* The elements, by position; only the empty sequence has none.
LEMMA ElementsOf ==
  ASSUME NEW s, IsSeq(s)
  PROVE  ToSet(s) = {s[i] : i \in 1..Len(s)} /\ (s = <<>> <=> ToSet(s) = {})
<1>1. DOMAIN s = 1..Len(s) /\ Len(s) \in Nat /\ (s = <<>> <=> Len(s) = 0)
  BY IsSeqFacts
<1>2. ToSet(s) = {s[i] : i \in 1..Len(s)}
  BY <1>1 DEF ToSet
<1>3. 1..Len(s) = {} <=> Len(s) = 0
  BY <1>1
<1> QED BY <1>1, <1>2, <1>3

\* Two sequences put together have the elements of both.
LEMMA ConcatElements ==
  ASSUME NEW s, NEW t, IsSeq(s), IsSeq(t)
  PROVE  ToSet(s \o t) = ToSet(s) \cup ToSet(t)
<1>1. /\ IsSeq(s \o t) /\ Len(s \o t) = Len(s) + Len(t)
      /\ \A i \in 1..Len(s \o t) : (s \o t)[i] = IF i <= Len(s) THEN s[i] ELSE t[i - Len(s)]
  BY ConcatIsSeq
<1>2. Len(s) \in Nat /\ Len(t) \in Nat
  BY IsSeqFacts
<1>3. /\ ToSet(s) = {s[i] : i \in 1..Len(s)} /\ ToSet(t) = {t[i] : i \in 1..Len(t)}
      /\ ToSet(s \o t) = {(s \o t)[i] : i \in 1..Len(s \o t)}
  BY <1>1, ElementsOf
<1> DEFINE u == s \o t
<1> HIDE DEF u
<1>4. ASSUME NEW i \in 1..Len(u) PROVE u[i] \in ToSet(s) \cup ToSet(t)
  <2>1. CASE i <= Len(s)
    BY <1>1, <1>2, <1>3, <1>4, <2>1 DEF u
  <2>2. CASE ~(i <= Len(s))
    <3>1. i - Len(s) \in 1..Len(t) /\ u[i] = t[i - Len(s)]
      BY <1>1, <1>2, <2>2 DEF u
    <3> QED BY <1>3, <3>1
  <2> QED BY <2>1, <2>2
<1>5. ASSUME NEW i \in 1..Len(s) PROVE s[i] \in ToSet(u)
  <2>1. i \in 1..Len(u) /\ u[i] = s[i]
    BY <1>1, <1>2 DEF u
  <2> QED BY <1>3, <2>1 DEF u
<1>6. ASSUME NEW i \in 1..Len(t) PROVE t[i] \in ToSet(u)
  <2>1. i + Len(s) \in 1..Len(u) /\ ~(i + Len(s) <= Len(s)) /\ (i + Len(s)) - Len(s) = i
    BY <1>1, <1>2 DEF u
  <2>2. u[i + Len(s)] = t[(i + Len(s)) - Len(s)]
    BY <1>1, <2>1 DEF u
  <2> QED BY <1>3, <2>1, <2>2 DEF u
<1>7. ToSet(u) = {u[i] : i \in 1..Len(u)}
  BY <1>3 DEF u
<1>8. ToSet(u) = ToSet(s) \cup ToSet(t)
  BY <1>3, <1>4, <1>5, <1>6, <1>7
<1> QED BY <1>8 DEF u

\* An element added behind is added to the elements.
LEMMA AppendElements ==
  ASSUME NEW s, NEW x, IsSeq(s)
  PROVE  ToSet(Append(s, x)) = ToSet(s) \cup {x}
<1> DEFINE u == Append(s, x)
<1>1. /\ IsSeq(u) /\ Len(u) = Len(s) + 1 /\ u[Len(s) + 1] = x
      /\ \A i \in 1..Len(s) : u[i] = s[i]
  BY AppendIsSeq
<1>2. Len(s) \in Nat
  BY IsSeqFacts
<1> HIDE DEF u
<1>3. ToSet(s) = {s[i] : i \in 1..Len(s)} /\ ToSet(u) = {u[i] : i \in 1..(Len(s) + 1)}
  BY <1>1, ElementsOf
<1>4. \A i \in 1..(Len(s) + 1) : i = Len(s) + 1 \/ i \in 1..Len(s)
  BY <1>2
<1>5. \A i \in 1..Len(s) : i \in 1..(Len(s) + 1)
  BY <1>2
<1>6. Len(s) + 1 \in 1..(Len(s) + 1)
  BY <1>2
<1>7. ToSet(u) = ToSet(s) \cup {x}
  BY <1>1, <1>3, <1>4, <1>5, <1>6
<1> QED BY <1>7 DEF u

\* Induction over the sequences of a set, with the set of those that satisfy the claim.
LEMMA BySequence ==
  ASSUME NEW S, NEW Good, <<>> \in Good,
         \A s \in Seq(S) : \A x \in S : s \in Good => Append(s, x) \in Good
  PROVE  Seq(S) \subseteq Good
<1> DEFINE T == {n \in Nat : \A s \in Seq(S) : Len(s) = n => s \in Good}
<1>1. 0 \in T
  BY EmptySeq
<1>2. ASSUME NEW n \in Nat, n \in T PROVE n + 1 \in T
  <2> SUFFICES ASSUME NEW s \in Seq(S), Len(s) = n + 1 PROVE s \in Good
    OBVIOUS
  <2> DEFINE front == SubSeq(s, 1, n)
  <2>1. front \in Seq(S) /\ Len(front) = n /\ s[n + 1] \in S
    OBVIOUS
  <2>2. s = Append(front, s[n + 1])
    OBVIOUS
  <2> HIDE DEF front
  <2>3. front \in Good
    BY <1>2, <2>1
  <2>4. Append(front, s[n + 1]) \in Good
    BY <2>1, <2>3
  <2> QED BY <2>2, <2>4
<1>3. Nat \subseteq T
  <2> HIDE DEF T
  <2> QED BY <1>1, <1>2, UpTheNaturals
<1>4. \A s \in Seq(S) : Len(s) \in Nat
  OBVIOUS
<1> QED BY <1>3, <1>4

-----------------------------------------------------------------------------
\* A sequence taken through a function, and what the function yields flattened.
Mapped(s, m) == [i \in DOMAIN s |-> m[s[i]]]
Flat(s, m)   == FlattenSeq(Mapped(s, m))

\* The function yields a sequence for each element of S.
Yields(m, S) == \A x \in S : IsSeq(m[x])

\* Mapping goes along with adding an element.
LEMMA MapAppend ==
  ASSUME NEW s, NEW x, NEW m, IsSeq(s)
  PROVE  Mapped(Append(s, x), m) = Append(Mapped(s, m), m[x])
<1> DEFINE u == Append(s, x)
           mu == Mapped(u, m)
           ms == Mapped(s, m)
<1>1. /\ IsSeq(u) /\ Len(u) = Len(s) + 1 /\ u[Len(s) + 1] = x /\ DOMAIN u = 1..(Len(s) + 1)
      /\ \A i \in 1..Len(s) : u[i] = s[i]
  BY AppendIsSeq, IsSeqFacts
<1>2. Len(s) \in Nat /\ DOMAIN s = 1..Len(s)
  BY IsSeqFacts
<1> HIDE DEF u
<1>3. DOMAIN mu = DOMAIN u /\ mu = [i \in DOMAIN u |-> mu[i]] /\ \A i \in DOMAIN u : mu[i] = m[u[i]]
  BY DEF Mapped
<1>4. DOMAIN ms = DOMAIN s /\ ms = [i \in DOMAIN s |-> ms[i]] /\ \A i \in DOMAIN s : ms[i] = m[s[i]]
  BY DEF Mapped
<1> HIDE DEF mu, ms
<1>5. IsSeq(mu) /\ Len(mu) = Len(s) + 1 /\ IsSeq(ms) /\ Len(ms) = Len(s)
  BY <1>1, <1>3, <1>4, MapIsSeq
<1> DEFINE am == Append(ms, m[x])
<1>6. /\ IsSeq(am) /\ Len(am) = Len(s) + 1 /\ am[Len(s) + 1] = m[x]
      /\ \A i \in 1..Len(s) : am[i] = ms[i]
  BY <1>5, AppendIsSeq
<1> HIDE DEF am
<1>7. ASSUME NEW i \in 1..(Len(s) + 1) PROVE mu[i] = am[i]
  <2>1. CASE i = Len(s) + 1
    BY <1>1, <1>3, <1>6, <2>1
  <2>2. CASE i \in 1..Len(s)
    BY <1>1, <1>2, <1>3, <1>4, <1>6, <2>2
  <2> QED BY <1>2, <2>1, <2>2
<1>8. mu = am
  BY <1>5, <1>6, <1>7, SeqSame
<1> QED BY <1>8 DEF mu, am, ms, u

\* Mapping to sequences gives a sequence of sequences, as long as the first.
LEMMA MapLists ==
  ASSUME NEW S, NEW s \in Seq(S), NEW m, Yields(m, S)
  PROVE  Lists(Mapped(s, m)) /\ Len(Mapped(s, m)) = Len(s)
<1> DEFINE ms == Mapped(s, m)
<1>1. IsSeq(s) /\ DOMAIN s = 1..Len(s)
  BY SeqIs, IsSeqFacts
<1>2. DOMAIN ms = DOMAIN s /\ ms = [i \in DOMAIN s |-> ms[i]] /\ \A i \in DOMAIN s : ms[i] = m[s[i]]
  BY DEF Mapped
<1> HIDE DEF ms
<1>3. IsSeq(ms) /\ Len(ms) = Len(s)
  BY <1>1, <1>2, MapIsSeq
<1>4. \A i \in DOMAIN s : s[i] \in S
  BY <1>1
<1>5. Lists(ms)
  BY <1>2, <1>3, <1>4 DEF Lists, Yields
<1> QED BY <1>3, <1>5 DEF ms

\* Nothing is gathered from nothing.
LEMMA FlatEmpty == \A m : Flat(<<>>, m) = <<>>
<1> SUFFICES ASSUME NEW m PROVE Flat(<<>>, m) = <<>>
  OBVIOUS
<1>1. Mapped(<<>>, m) = <<>>
  BY DEF Mapped
<1> QED BY <1>1, FlattenEmpty DEF Flat

\* What is gathered grows by what the element added has.
LEMMA FlatAppend ==
  ASSUME NEW S, NEW s \in Seq(S), NEW x \in S, NEW m, Yields(m, S)
  PROVE  IsSeq(Flat(s, m)) /\ Flat(Append(s, x), m) = Flat(s, m) \o m[x]
<1>1. Lists(Mapped(s, m)) /\ IsSeq(m[x]) /\ IsSeq(s)
  BY MapLists, SeqIs DEF Yields
<1>2. Mapped(Append(s, x), m) = Append(Mapped(s, m), m[x])
  BY <1>1, MapAppend
<1> QED BY <1>1, <1>2, FlattenAppend DEF Flat

\* What is gathered is a sequence.
LEMMA FlatIsSeq ==
  ASSUME NEW S, NEW s \in Seq(S), NEW m, Yields(m, S)
  PROVE  IsSeq(Flat(s, m))
<1>1. Lists(Mapped(s, m)) /\ IsSeq(<<>>)
  BY MapLists, EmptyIsSeq
<1> QED BY <1>1, FlattenAppend DEF Flat

\* Gathering goes along with putting together.
LEMMA FlatConcat ==
  ASSUME NEW S, NEW s \in Seq(S), NEW t \in Seq(S), NEW m, Yields(m, S)
  PROVE  Flat(s \o t, m) = Flat(s, m) \o Flat(t, m)
<1> DEFINE Good == {u \in Seq(S) : Flat(s \o u, m) = Flat(s, m) \o Flat(u, m)}
<1>1. <<>> \in Good
  <2>1. s \o <<>> = s
    BY ConcatEmptySeq
  <2>2. Flat(s, m) \o <<>> = Flat(s, m)
    BY FlatIsSeq, ConcatNothing
  <2>3. <<>> \in Seq(S) /\ Flat(<<>>, m) = <<>>
    BY EmptySeq, FlatEmpty
  <2> QED BY <2>1, <2>2, <2>3
<1>2. ASSUME NEW u \in Seq(S), NEW x \in S, u \in Good PROVE Append(u, x) \in Good
  <2>1. s \o Append(u, x) = Append(s \o u, x) /\ s \o u \in Seq(S) /\ Append(u, x) \in Seq(S)
    OBVIOUS
  <2>2. Flat(Append(s \o u, x), m) = Flat(s \o u, m) \o m[x]
    BY <2>1, FlatAppend
  <2>3. Flat(Append(u, x), m) = Flat(u, m) \o m[x]
    BY FlatAppend
  <2>4. IsSeq(Flat(s, m)) /\ IsSeq(Flat(u, m)) /\ IsSeq(m[x])
    BY FlatIsSeq DEF Yields
  <2>5. (Flat(s, m) \o Flat(u, m)) \o m[x] = Flat(s, m) \o (Flat(u, m) \o m[x])
    <3> DEFINE a == Flat(s, m)  b == Flat(u, m)  c == m[x]
    <3>1. IsSeq(a) /\ IsSeq(b) /\ IsSeq(c)
      BY <2>4
    <3> HIDE DEF a, b, c
    <3>2. (a \o b) \o c = a \o (b \o c)
      BY <3>1, ConcatAssoc, SMTT(20)
    <3> QED BY <3>2 DEF a, b, c
  <2>6. Flat(s \o u, m) = Flat(s, m) \o Flat(u, m)
    BY <1>2
  <2>7. Flat(s \o Append(u, x), m) = Flat(s, m) \o Flat(Append(u, x), m)
    BY <2>1, <2>2, <2>3, <2>5, <2>6
  <2> QED BY <2>1, <2>7
<1>3. Seq(S) \subseteq Good
  <2> HIDE DEF Good
  <2> QED BY <1>1, <1>2, BySequence
<1> QED BY <1>3

\* What is gathered from one element is what it has.
LEMMA FlatOne ==
  ASSUME NEW x, NEW m, IsSeq(m[x])
  PROVE  Flat(<<x>>, m) = m[x]
<1>1. <<>> \in Seq({x}) /\ Append(<<>>, x) = <<x>> /\ Yields(m, {x})
  BY DEF Yields
<1>2. Flat(<<x>>, m) = <<>> \o m[x]
  BY <1>1, FlatAppend, FlatEmpty, ZenonT(30)
<1> QED BY <1>2, ConcatNothing

\* What is in a flattened sequence comes from one of the lists.
LEMMA FlatElements ==
  ASSUME NEW S, NEW s \in Seq(S), NEW m, Yields(m, S)
  PROVE  ToSet(Flat(s, m)) = UNION {ToSet(m[x]) : x \in ToSet(s)}
<1> DEFINE Good == {u \in Seq(S) : ToSet(Flat(u, m)) = UNION {ToSet(m[x]) : x \in ToSet(u)}}
<1>1. <<>> \in Good
  <2>1. ToSet(<<>>) = {}
    BY EmptyIsSeq, ElementsOf
  <2> QED BY <2>1, FlatEmpty
<1>2. ASSUME NEW u \in Seq(S), NEW x \in S, u \in Good PROVE Append(u, x) \in Good
  <2>1. Flat(Append(u, x), m) = Flat(u, m) \o m[x] /\ IsSeq(Flat(u, m)) /\ IsSeq(m[x])
    BY FlatAppend DEF Yields
  <2>2. ToSet(Flat(Append(u, x), m)) = ToSet(Flat(u, m)) \cup ToSet(m[x])
    BY <2>1, ConcatElements
  <2>3. ToSet(Append(u, x)) = ToSet(u) \cup {x}
    BY SeqIs, AppendElements
  <2>4. Append(u, x) \in Seq(S) /\ ToSet(Flat(u, m)) = UNION {ToSet(m[y]) : y \in ToSet(u)}
    BY <1>2
  <2> QED BY <2>2, <2>3, <2>4
<1>3. Seq(S) \subseteq Good
  <2> HIDE DEF Good
  <2> QED BY <1>1, <1>2, BySequence
<1> QED BY <1>3

\* A sequence of one element.
LEMMA OneIsSeq == \A x : IsSeq(<<x>>) /\ Len(<<x>>) = 1 /\ <<x>>[1] = x /\ ToSet(<<x>>) = {x}
<1> SUFFICES ASSUME NEW x PROVE IsSeq(<<x>>) /\ Len(<<x>>) = 1 /\ <<x>>[1] = x /\ ToSet(<<x>>) = {x}
  OBVIOUS
<1>1. <<x>> \in Seq({x}) /\ Len(<<x>>) = 1 /\ <<x>>[1] = x
  OBVIOUS
<1>2. IsSeq(<<x>>)
  BY <1>1, SeqIs
<1>3. ToSet(<<x>>) = {<<x>>[i] : i \in 1..Len(<<x>>)}
  BY <1>2, ElementsOf
<1> QED BY <1>1, <1>2, <1>3

-----------------------------------------------------------------------------
\* The elements of s that are in T: Keep with a set in the place of a test.
Kept(s, T) == FlattenSeq([i \in DOMAIN s |-> IF s[i] \in T THEN <<s[i]>> ELSE <<>>])

\* The list each element of S contributes.
One(S, T) == [x \in S |-> IF x \in T THEN <<x>> ELSE <<>>]

\* The sequence of an element that is in T, and else nothing, is a sequence.
LEMMA OneYields == \A S, T : Yields(One(S, T), S)
<1> SUFFICES ASSUME NEW S, NEW T, NEW x \in S PROVE IsSeq(One(S, T)[x])
  BY DEF Yields
<1>1. One(S, T)[x] = IF x \in T THEN <<x>> ELSE <<>>
  BY DEF One
<1> QED BY <1>1, OneIsSeq, EmptyIsSeq, Zenon

\* Keeping elements is gathering them.
LEMMA KeptIsFlat ==
  ASSUME NEW S, NEW s \in Seq(S), NEW T
  PROVE  Kept(s, T) = Flat(s, One(S, T))
<1>1. \A i \in DOMAIN s : s[i] \in S
  OBVIOUS
<1>2. \A x \in S : One(S, T)[x] = IF x \in T THEN <<x>> ELSE <<>>
  BY DEF One
<1>3. \A i \in DOMAIN s : One(S, T)[s[i]] = IF s[i] \in T THEN <<s[i]>> ELSE <<>>
  BY <1>1, <1>2
<1>4. [i \in DOMAIN s |-> IF s[i] \in T THEN <<s[i]>> ELSE <<>>] = [i \in DOMAIN s |-> One(S,
        T)[s[i]]]
  BY <1>3
<1> QED BY <1>4, Zenon DEF Kept, Flat, Mapped

\* What is kept is a sequence of the elements in T.
LEMMA KeptIsSeq ==
  ASSUME NEW s, NEW T, IsSeq(s)
  PROVE  IsSeq(Kept(s, T)) /\ ToSet(Kept(s, T)) = ToSet(s) \cap T
<1> DEFINE S == ToSet(s)
<1>1. s \in Seq(S)
  BY IsSeqFacts
<1>2. Kept(s, T) = Flat(s, One(S, T)) /\ Yields(One(S, T), S)
  BY <1>1, KeptIsFlat, OneYields
<1>3. ToSet(Kept(s, T)) = UNION {ToSet(One(S, T)[x]) : x \in ToSet(s)}
  BY <1>1, <1>2, FlatElements
<1>4. \A x \in S : ToSet(One(S, T)[x]) = {x} \cap T
  <2> SUFFICES ASSUME NEW x \in S PROVE ToSet(One(S, T)[x]) = {x} \cap T
    OBVIOUS
  <2>1. One(S, T)[x] = IF x \in T THEN <<x>> ELSE <<>>
    BY DEF One
  <2>2. ToSet(<<x>>) = {x} /\ ToSet(<<>>) = {}
    BY OneIsSeq, EmptyIsSeq, ElementsOf
  <2> QED BY <2>1, <2>2
<1>5. IsSeq(Kept(s, T))
  BY <1>1, <1>2, FlatIsSeq
<1>6. UNION {ToSet(One(S, T)[x]) : x \in S} = S \cap T
  BY <1>4
<1> QED BY <1>3, <1>5, <1>6

\* Nothing is kept of nothing.
LEMMA KeptEmpty == \A T : Kept(<<>>, T) = <<>>
<1> SUFFICES ASSUME NEW T PROVE Kept(<<>>, T) = <<>>
  OBVIOUS
<1>1. <<>> \in Seq({})
  OBVIOUS
<1> QED BY <1>1, KeptIsFlat, FlatEmpty

\* An element added behind is kept behind, if it is kept.
LEMMA KeptAppend ==
  ASSUME NEW s, NEW x, NEW T, IsSeq(s)
  PROVE  Kept(Append(s, x), T) = IF x \in T THEN Append(Kept(s, T), x) ELSE Kept(s, T)
<1> DEFINE S == ToSet(s) \cup {x}
<1>1. s \in Seq(S) /\ x \in S /\ Append(s, x) \in Seq(S)
  <2>1. s \in Seq(S) /\ x \in S
    BY SeqWithin
  <2> HIDE DEF S
  <2> QED BY <2>1
<1>2. One(S, T)[x] = IF x \in T THEN <<x>> ELSE <<>>
  BY <1>1 DEF One
<1> HIDE DEF S
<1>3. Kept(Append(s, x), T) = Kept(s, T) \o One(S, T)[x]
  <2> DEFINE m == One(S, T)
  <2>1. Yields(m, S) /\ Kept(s, T) = Flat(s, m) /\ Kept(Append(s, x), T) = Flat(Append(s, x), m)
    BY <1>1, KeptIsFlat, OneYields
  <2> HIDE DEF m
  <2>2. Flat(Append(s, x), m) = Flat(s, m) \o m[x]
    BY <1>1, <2>1, FlatAppend
  <2> QED BY <2>1, <2>2 DEF m
<1>4. IsSeq(Kept(s, T))
  BY KeptIsSeq
<1>5. Kept(s, T) \o <<>> = Kept(s, T)
  BY <1>4, ConcatNothing
<1>6. Kept(s, T) \o <<x>> = Append(Kept(s, T), x)
  <2> DEFINE k == Kept(s, T)
  <2>1. k \in Seq(ToSet(k) \cup {x})
    BY <1>4, SeqWithin
  <2> HIDE DEF k
  <2>2. k \o <<x>> = Append(k, x)
    BY <2>1
  <2> QED BY <2>2 DEF k
<1> QED BY <1>2, <1>3, <1>5, <1>6

\* Keeping goes along with putting together.
LEMMA KeptConcat ==
  ASSUME NEW s, NEW t, NEW T, IsSeq(s), IsSeq(t)
  PROVE  Kept(s \o t, T) = Kept(s, T) \o Kept(t, T)
<1> DEFINE S == ToSet(s) \cup ToSet(t)
<1>1. s \in Seq(S) /\ t \in Seq(S)
  BY SeqWithin
<1> HIDE DEF S
<1>2. s \o t \in Seq(S)
  BY <1>1
<1> DEFINE m == One(S, T)
<1>3. Yields(m, S) /\ Kept(s, T) = Flat(s, m) /\ Kept(t, T) = Flat(t, m)
        /\ Kept(s \o t, T) = Flat(s \o t, m)
  BY <1>1, <1>2, KeptIsFlat, OneYields
<1> HIDE DEF m
<1>4. Flat(s \o t, m) = Flat(s, m) \o Flat(t, m)
  BY <1>1, <1>3, FlatConcat
<1> QED BY <1>3, <1>4

\* Only the elements decide.
LEMMA KeptSame ==
  ASSUME NEW s, NEW T, NEW U, IsSeq(s), \A x \in ToSet(s) : x \in T <=> x \in U
  PROVE  Kept(s, T) = Kept(s, U)
<1>1. \A i \in DOMAIN s : s[i] \in T <=> s[i] \in U
  BY DEF ToSet
<1>2. [i \in DOMAIN s |-> IF s[i] \in T THEN <<s[i]>> ELSE <<>>]
        = [i \in DOMAIN s |-> IF s[i] \in U THEN <<s[i]>> ELSE <<>>]
  BY <1>1
<1> QED BY <1>2, Zenon DEF Kept

\* Everything is kept if all is in T.
LEMMA KeptAll ==
  ASSUME NEW s, NEW T, IsSeq(s), ToSet(s) \subseteq T
  PROVE  Kept(s, T) = s
<1> DEFINE S == ToSet(s)
           Good == {u \in Seq(S) : Kept(u, S) = u}
<1>1. s \in Seq(S)
  BY IsSeqFacts
<1>2. <<>> \in Good
  BY KeptEmpty, EmptySeq
<1>3. ASSUME NEW u \in Seq(S), NEW x \in S, u \in Good PROVE Append(u, x) \in Good
  BY <1>3, SeqIs, KeptAppend
<1>4. Seq(S) \subseteq Good
  <2> HIDE DEF Good, S
  <2> QED BY <1>2, <1>3, BySequence
<1>5. Kept(s, S) = s
  BY <1>1, <1>4
<1> QED BY <1>5, KeptSame

\* Nothing is kept if nothing is in T.
LEMMA KeptNone ==
  ASSUME NEW s, NEW T, IsSeq(s)
  PROVE  Kept(s, T) = <<>> <=> ToSet(s) \cap T = {}
  BY KeptIsSeq, ElementsOf

-----------------------------------------------------------------------------
(* Messages.                                                               *)

\* A sequence of well-made messages.
Sound(seq) == IsSeq(seq) /\ \A m \in ToSet(seq) : WellMade(m)

\* The pieces a block shows, by block.
Shown(S) == [b \in S |-> IF b.kind \in Skipped THEN <<>> ELSE b.pieces]

\* extract_text gathers the pieces of the blocks that are shown.
LEMMA ExtractIsFlat ==
  ASSUME NEW S, NEW c \in Seq(S)
  PROVE  ExtractText(c) = Flat(c, Shown(S))
<1>1. \A i \in DOMAIN c : c[i] \in S
  OBVIOUS
<1>2. \A b \in S : Shown(S)[b] = IF b.kind \in Skipped THEN <<>> ELSE b.pieces
  BY DEF Shown
<1>3. [i \in DOMAIN c |-> IF c[i].kind \in Skipped THEN <<>> ELSE c[i].pieces]
        = [i \in DOMAIN c |-> Shown(S)[c[i]]]
  BY <1>1, <1>2
<1> QED BY <1>3, Zenon DEF ExtractText, Flat, Mapped

\* What a block shows is a sequence of pieces.
LEMMA ShownYields ==
  ASSUME NEW S, \A b \in S : IsSeq(b.pieces)
  PROVE  Yields(Shown(S), S)
<1> SUFFICES ASSUME NEW b \in S PROVE IsSeq(Shown(S)[b])
  BY DEF Yields
<1>1. Shown(S)[b] = IF b.kind \in Skipped THEN <<>> ELSE b.pieces
  BY DEF Shown
<1> QED BY <1>1, EmptyIsSeq

\* The text of a message is a sequence of pieces.
LEMMA ExtractIsSeq ==
  ASSUME NEW m, WellMade(m)
  PROVE  IsSeq(ExtractText(m.content))
<1> DEFINE S == ToSet(m.content)
<1>1. m.content \in Seq(S) /\ \A b \in S : IsSeq(b.pieces)
  BY IsSeqFacts DEF WellMade
<1> HIDE DEF S
<1> QED BY <1>1, ExtractIsFlat, ShownYields, FlatIsSeq

\* A text block has its text and nothing else.
LEMMA TextBlockIs ==
  ASSUME NEW text
  PROVE  /\ TextBlock(text).kind = "text" /\ TextBlock(text).pieces = text
         /\ TextBlock(text).images = <<>>
         /\ ~IsToolUse(TextBlock(text)) /\ ~IsToolResult(TextBlock(text))
<1>1. /\ TextBlock(text).kind = "text" /\ TextBlock(text).pieces = text
      /\ TextBlock(text).images = <<>>
  BY DEF TextBlock, Block
<1> QED BY <1>1 DEF IsToolUse, IsToolResult

\* A message of one text.
LEMMA OneTextIs ==
  ASSUME NEW m, NEW text, m.content = <<TextBlock(text)>>, IsMessage(m), IsSeq(text)
  PROVE  WellMade(m) /\ IsPlainText(m) /\ ToSet(m.content) = {TextBlock(text)}
<1> DEFINE b == TextBlock(text)
<1>1. b.kind = "text" /\ b.pieces = text /\ b.images = <<>>
  BY TextBlockIs
<1>2. m.content = <<b>>
  OBVIOUS
<1> HIDE DEF b
<1>3. IsSeq(m.content) /\ Len(m.content) = 1 /\ m.content[1] = b /\ ToSet(m.content) = {b}
  BY <1>2, OneIsSeq
<1>4. DOMAIN m.content = {1}
  BY <1>3, IsSeqFacts
<1>5. WellMade(m)
  BY <1>1, <1>3, EmptyIsSeq DEF WellMade
<1>6. IsPlainText(m)
  BY <1>1, <1>3, <1>4 DEF IsPlainText
<1> QED BY <1>3, <1>5, <1>6 DEF b

\* A synthetic message is well made, is plain text and has one piece.
LEMMA SaysIsSound ==
  ASSUME NEW role, NEW p
  PROVE  /\ WellMade(Says(role, p)) /\ IsPlainText(Says(role, p)) /\ Says(role, p).role = role
         /\ Says(role, p).content = <<TextBlock(<<p>>)>>
         /\ ToSet(Says(role, p).content) = {TextBlock(<<p>>)}
<1>1. Says(role, p).content = <<TextBlock(<<p>>)>> /\ IsMessage(Says(role, p))
        /\ Says(role, p).role = role
  BY SaysIs DEF Says
<1>2. IsSeq(<<p>>)
  BY OneIsSeq
<1> QED BY <1>1, <1>2, OneTextIs

\* The text of messages that are joined.
JoinedText(run) ==
  FlattenSeq([i \in DOMAIN run |->
    (IF i = 1 THEN <<>> ELSE <<Piece("newline", "")>>) \o ExtractText(run[i].content)])

\* What merge_adjacent_same_role makes of a run is well made and plain text.
LEMMA JoinedIsSound ==
  ASSUME NEW run, Sound(run)
  PROVE  /\ WellMade(Joined(run)) /\ IsPlainText(Joined(run)) /\ Joined(run).role = run[1].role
         /\ Joined(run).content = <<TextBlock(JoinedText(run))>> /\ IsSeq(JoinedText(run))
         /\ ToSet(Joined(run).content) = {TextBlock(JoinedText(run))}
<1> DEFINE parts == [i \in DOMAIN run |->
             (IF i = 1 THEN <<>> ELSE <<Piece("newline", "")>>) \o ExtractText(run[i].content)]
<1>1. /\ IsSeq(run) /\ DOMAIN parts = DOMAIN run /\ parts = [i \in DOMAIN run |-> parts[i]]
      /\ \A i \in DOMAIN run :
           parts[i] = (IF i = 1 THEN <<>> ELSE <<Piece("newline",
               "")>>) \o ExtractText(run[i].content)
  BY DEF Sound
<1>2. JoinedText(run) = FlattenSeq(parts)
  BY DEF JoinedText
<1> HIDE DEF parts
<1>3. ASSUME NEW i \in DOMAIN run PROVE IsSeq(parts[i])
  <2>1. IsSeq(ExtractText(run[i].content))
    BY ExtractIsSeq DEF Sound, ToSet
  <2>2. IsSeq(<<>>) /\ IsSeq(<<Piece("newline", "")>>)
    BY EmptyIsSeq, OneIsSeq
  <2> DEFINE pre == IF i = 1 THEN <<>> ELSE <<Piece("newline", "")>>
             text == ExtractText(run[i].content)
  <2>3. IsSeq(pre) /\ IsSeq(text) /\ parts[i] = pre \o text
    BY <1>1, <2>1, <2>2
  <2> HIDE DEF pre, text
  <2> QED BY <2>3, ConcatIsSeq
<1>4. Lists(parts)
  BY <1>1, <1>3, MapIsSeq DEF Lists
<1>5. IsSeq(JoinedText(run))
  BY <1>2, <1>4, FlattenAppend, EmptyIsSeq
<1>6. /\ Joined(run).content = <<TextBlock(JoinedText(run))>> /\ Joined(run).role = run[1].role
      /\ IsMessage(Joined(run))
  BY DEF Joined, JoinedText, IsMessage
<1> QED BY <1>5, <1>6, OneTextIs

\* Sequences of well-made messages.
LEMMA SoundRules ==
  /\ Sound(<<>>)
  /\ \A s, t : Sound(s) /\ Sound(t) => Sound(s \o t)
  /\ \A s, m : Sound(s) /\ WellMade(m) => Sound(Append(s, m))
  /\ \A m : WellMade(m) => Sound(<<m>>)
<1>1. Sound(<<>>)
  BY EmptyIsSeq, ElementsOf DEF Sound
<1>2. \A s, t : Sound(s) /\ Sound(t) => Sound(s \o t)
  BY ConcatIsSeq, ConcatElements DEF Sound
<1>3. \A s, m : Sound(s) /\ WellMade(m) => Sound(Append(s, m))
  BY AppendIsSeq, AppendElements DEF Sound
<1>4. \A m : WellMade(m) => Sound(<<m>>)
  <2> SUFFICES ASSUME NEW m, WellMade(m) PROVE Sound(<<m>>)
    OBVIOUS
  <2>1. IsSeq(<<m>>) /\ ToSet(<<m>>) = {m}
    BY OneIsSeq
  <2> QED BY <2>1 DEF Sound
<1> QED BY <1>1, <1>2, <1>3, <1>4

\* A part of well-made messages is well made.
LEMMA SoundPart ==
  ASSUME NEW s, Sound(s), NEW i \in Nat \ {0}, NEW n \in Nat, n <= Len(s)
  PROVE  Sound(SubSeq(s, i, n))
<1> DEFINE t == SubSeq(s, i, n)
<1>1. /\ IsSeq(t) /\ Len(t) = (IF i <= n THEN n - i + 1 ELSE 0)
      /\ \A k \in 1..Len(t) : t[k] = s[i + k - 1]
  BY SubSeqIsSeq DEF Sound
<1>2. Len(s) \in Nat /\ ToSet(s) = {s[k] : k \in 1..Len(s)}
  BY IsSeqFacts, ElementsOf DEF Sound
<1> HIDE DEF t
<1>3. \A k \in 1..Len(t) : i + k - 1 \in 1..Len(s)
  BY <1>1, <1>2
<1>4. ToSet(t) = {t[k] : k \in 1..Len(t)}
  BY <1>1, ElementsOf
<1>5. ToSet(t) \subseteq ToSet(s)
  BY <1>1, <1>2, <1>3, <1>4
<1> QED BY <1>1, <1>5 DEF Sound, t

-----------------------------------------------------------------------------
(* What the passes do to the conversation as a whole.                      *)

\* The messages passed, those still to pass and the one that becomes current.
Whole ==
  IF stage \in {"parse", "tools", "textualize", "roles"} THEN msgs
  ELSE IF stage \in {"merge", "alternate"} THEN out \o msgs ELSE Append(msgs, last)

\* A text is put between two messages of one role, or at an end.
Inserts(old, new) ==
  \E a, b, role, p :
    /\ Sound(a) /\ Sound(b)
    /\ old = a \o b /\ new = (a \o <<Says(role, p)>>) \o b
    /\ role \in Speakers /\ p \in {SyntheticEmpty, SyntheticContinue}
    /\ a # <<>> /\ b # <<>> => a[Len(a)].role = b[1].role

\* Plain messages of one role become one.
Joins(old, new) ==
  \E a, run, b :
    /\ Sound(a) /\ Sound(run) /\ Sound(b)
    /\ old = (a \o run) \o b /\ new = (a \o <<Joined(run)>>) \o b
    /\ Len(run) > 1 /\ \A m \in ToSet(run) : IsPlainText(m) /\ m.role = run[1].role

Shaped(old, new) == new = old \/ Inserts(old, new) \/ Joins(old, new)

\* A sequence is its beginning and its end.
LEMMA Parted ==
  ASSUME NEW s, IsSeq(s), NEW n \in Nat, n <= Len(s)
  PROVE  s = SubSeq(s, 1, n) \o SubSeq(s, n + 1, Len(s))
<1>1. s \in Seq(ToSet(s)) /\ Len(s) \in Nat
  BY IsSeqFacts
<1>2. 1 \in 1..(Len(s) + 1) /\ n \in (1 - 1)..Len(s) /\ Len(s) \in n..Len(s)
  BY <1>1
<1>3. SubSeq(s, 1, n) \o SubSeq(s, n + 1, Len(s)) = SubSeq(s, 1, Len(s))
  BY <1>1, <1>2, ConcatAdjacentSubSeq
<1>4. SubSeq(s, 1, Len(s)) = s
  BY <1>1, SubSeqFull
<1> QED BY <1>3, <1>4

\* Adding an element is putting a sequence of one behind.
LEMMA AppendJoins ==
  ASSUME NEW s, NEW x, IsSeq(s)
  PROVE  Append(s, x) = s \o <<x>>
<1>1. s \in Seq(ToSet(s) \cup {x})
  BY SeqWithin
<1> QED BY <1>1

\* MergeRun joins a run of plain messages of one role, or changes nothing of the whole.
LEMMA MergeShape ==
  ASSUME Sound(out), Sound(msgs), Spoken(msgs, Speakers), MergeRun
  PROVE  Sound(out') /\ Sound(msgs') /\ Shaped(out \o msgs, out' \o msgs')
<1>1. IsSeq(msgs) /\ IsSeq(out) /\ Len(msgs) \in Nat /\ DOMAIN msgs = 1..Len(msgs)
  BY IsSeqFacts DEF Sound
<1>2. PICK n \in DOMAIN msgs :
        /\ n > 1 => RunOf(msgs, n)
        /\ out' = Append(out, IF n = 1 THEN msgs[1] ELSE Joined(SubSeq(msgs, 1, n)))
        /\ msgs' = SubSeq(msgs, n + 1, Len(msgs))
  BY DEF MergeRun
<1>3. n \in 1..Len(msgs) /\ n \in Nat /\ 1 \in DOMAIN msgs
  BY <1>1
<1> DEFINE run  == SubSeq(msgs, 1, n)
           rest == SubSeq(msgs, n + 1, Len(msgs))
<1>4. /\ IsSeq(run) /\ Len(run) = n /\ \A i \in 1..n : run[i] = msgs[i]
      /\ IsSeq(rest) /\ Sound(run) /\ Sound(rest)
  <2>1. 1 \in Nat \ {0} /\ n + 1 \in Nat \ {0} /\ n <= Len(msgs)
    BY <1>1, <1>3
  <2>2. /\ IsSeq(run) /\ Len(run) = (IF 1 <= n THEN n - 1 + 1 ELSE 0)
        /\ \A i \in 1..Len(run) : run[i] = msgs[1 + i - 1]
    BY <1>1, <1>3, <2>1, SubSeqIsSeq
  <2>3. Sound(run) /\ Sound(rest)
    BY <1>1, <1>3, <2>1, SoundPart
  <2> HIDE DEF run, rest
  <2> QED BY <1>3, <2>2, <2>3 DEF Sound
<1>5. msgs = run \o rest
  <2>1. n \in Nat /\ n <= Len(msgs)
    BY <1>1, <1>3
  <2> QED BY <1>1, <2>1, Parted, Zenon
<1>6. WellMade(msgs[1])
  BY <1>3 DEF Sound, ToSet
<1> HIDE DEF run, rest
<1>7. msgs' = rest
  BY <1>2 DEF rest
<1>8. out \o msgs = (out \o run) \o rest
  <2>1. IsSeq(out) /\ IsSeq(run) /\ IsSeq(rest)
    BY <1>1, <1>4
  <2>2. (out \o run) \o rest = out \o (run \o rest)
    BY ONLY <2>1, ConcatAssoc
  <2> QED BY <1>5, <2>2
<1>9. CASE n = 1
  <2>1. out' = Append(out, msgs[1])
    BY <1>2, <1>9
  <2>2. out' = out \o <<msgs[1]>>
    BY <1>1, <2>1, AppendJoins
  <2>3. run = <<msgs[1]>>
    <3>1. IsSeq(<<msgs[1]>>) /\ Len(<<msgs[1]>>) = 1 /\ <<msgs[1]>>[1] = msgs[1]
      BY OneIsSeq
    <3> DEFINE one == <<msgs[1]>>
    <3>2. IsSeq(one) /\ Len(one) = 1 /\ one[1] = msgs[1]
      BY <3>1
    <3> HIDE DEF one
    <3>3. \A i \in 1..Len(run) : run[i] = one[i]
      BY <1>4, <1>9, <3>2
    <3>4. run = one
      BY <1>4, <1>9, <3>2, <3>3, SeqSame
    <3> QED BY <3>4 DEF one
  <2>4. Sound(out')
    BY <1>6, <2>1, SoundRules
  <2> QED BY <1>4, <1>7, <1>8, <2>2, <2>3, <2>4 DEF Shaped
<1>10. CASE n # 1
  <2>1. RunOf(msgs, n) /\ n > 1
    BY <1>2, <1>3, <1>10
  <2>2. out' = Append(out, Joined(run))
    BY <1>2, <1>10 DEF run
  <2>3. out' = out \o <<Joined(run)>>
    BY <1>1, <2>2, AppendJoins
  <2>4. Sound(out')
    BY <1>4, <2>2, SoundRules, JoinedIsSound
  <2>5. \A m \in ToSet(run) : IsPlainText(m) /\ m.role = run[1].role
    <3>1. ToSet(run) = {run[i] : i \in 1..n}
      BY <1>4, ElementsOf
    <3>2. \A i \in 1..n : IsPlainText(msgs[i]) /\ msgs[i].role = msgs[1].role
      BY <2>1 DEF RunOf
    <3> QED BY <1>3, <1>4, <3>1, <3>2
  <2>6. Joins(out \o msgs, out' \o msgs')
    BY <1>4, <1>7, <1>8, <2>1, <2>3, <2>5 DEF Joins
  <2> QED BY <1>4, <1>7, <2>4, <2>6 DEF Shaped
<1> QED BY <1>9, <1>10

\* StartWithUser puts a synthetic message in front, if anything.
LEMMA StartShape ==
  ASSUME Sound(out), Spoken(out, Speakers), out # <<>>, StartWithUser
  PROVE  Sound(out') /\ Sound(msgs') /\ Shaped(out \o msgs, out' \o msgs')
<1>1. IsSeq(out) /\ msgs = <<>> /\ out' = <<>> /\ Sound(out')
      /\ msgs' = (IF out[1].role # "user" THEN <<Says("user", SyntheticEmpty)>> ELSE <<>>) \o out
  BY SoundRules DEF Sound, StartWithUser
<1>2. out \o msgs = out
  BY <1>1, ConcatNothing
<1>3. CASE out[1].role = "user"
  <2>1. msgs' = out
    BY <1>1, <1>3, ConcatNothing
  <2> QED BY <1>1, <1>2, <2>1, ConcatNothing DEF Shaped
<1>4. CASE out[1].role # "user"
  <2> DEFINE pre == <<Says("user", SyntheticEmpty)>>
  <2>1. Sound(pre) /\ IsSeq(pre)
    BY SaysIsSound, SoundRules DEF Sound
  <2>2. msgs' = pre \o out /\ pre = <<>> \o pre
    BY <1>1, <1>4, <2>1, ConcatNothing
  <2>3. Sound(msgs') /\ out' \o msgs' = msgs'
    <3> HIDE DEF pre
    <3>1. Sound(msgs')
      BY <2>1, <2>2, SoundRules
    <3> QED BY <1>1, <3>1, ConcatNothing DEF Sound
  <2>4. out \o msgs = <<>> \o out /\ out' \o msgs' = (<<>> \o pre) \o out
    BY <1>1, <1>2, <2>2, <2>3, ConcatNothing
  <2>5. Inserts(out \o msgs, out' \o msgs')
    BY <2>4, SoundRules DEF Inserts, Speakers
  <2> QED BY <1>1, <2>3, <2>5 DEF Shaped
<1> QED BY <1>3, <1>4

\* Alternate puts a synthetic message between two of one role, if anything.
LEMMA AlternateShape ==
  ASSUME Sound(out), Spoken(out, Speakers), Sound(msgs), Spoken(msgs, Speakers), Alternate
  PROVE  Sound(out') /\ Sound(msgs') /\ Shaped(out \o msgs, out' \o msgs')
<1> DEFINE m == msgs[1]
           rest == Tail(msgs)
           f == Says(Opposite(m.role), SyntheticEmpty)
           filled == IF out # <<>> /\ Last(out).role = m.role THEN Append(out, f) ELSE out
<1>1. msgs # <<>> /\ msgs' = rest /\ out' = Append(filled, m)
  BY DEF Alternate
<1>2. /\ IsSeq(msgs) /\ IsSeq(out) /\ Len(msgs) \in Nat \ {0} /\ 1 \in DOMAIN msgs
      /\ DOMAIN out = 1..Len(out) /\ Len(out) \in Nat /\ (out = <<>> <=> Len(out) = 0)
  BY <1>1, IsSeqFacts DEF Sound
<1>3. rest = SubSeq(msgs, 2, Len(msgs)) /\ msgs = <<m>> \o rest
  <2>1. msgs \in Seq(ToSet(msgs))
    BY <1>2, IsSeqFacts
  <2> QED BY <1>1, <2>1
<1>4. Sound(rest) /\ WellMade(m) /\ m.role \in Speakers
  <2>1. 2 \in Nat \ {0} /\ Len(msgs) \in Nat /\ Len(msgs) <= Len(msgs)
    BY <1>2
  <2>2. Sound(SubSeq(msgs, 2, Len(msgs)))
    BY <2>1, SoundPart, Zenon
  <2>3. WellMade(m) /\ m.role \in Speakers
    BY <1>2 DEF Sound, Spoken, ToSet
  <2> QED BY <1>3, <2>2, <2>3
<1>5. WellMade(f) /\ IsSeq(<<f>>) /\ Sound(<<f>>)
  BY SaysIsSound, SoundRules, OneIsSeq
<1>6. IsSeq(<<m>>) /\ IsSeq(rest)
  BY <1>4, OneIsSeq DEF Sound
<1> HIDE DEF m, rest
<1>7. CASE out # <<>> /\ Last(out).role = m.role
  <2>1. filled = Append(out, f)
    BY <1>7
  <2>2. filled = out \o <<f>> /\ Sound(filled) /\ IsSeq(filled)
    BY <1>2, <1>5, <2>1, AppendJoins, SoundRules DEF Sound
  <2>3. role :: Opposite(m.role) \in Speakers /\ out[Len(out)].role = m.role
    BY <1>4, <1>7 DEF Opposite, Speakers, Last
  <2> HIDE DEF filled, f
  <2>4. Sound(out') /\ out' = filled \o <<m>>
    BY <1>1, <1>4, <2>2, SoundRules, AppendJoins
  <2>5. out' \o msgs' = (out \o <<f>>) \o msgs
    <3>1. out' \o msgs' = (filled \o <<m>>) \o rest
      BY <1>1, <2>4
    <3>2. (filled \o <<m>>) \o rest = filled \o (<<m>> \o rest)
      <4>1. IsSeq(filled)
        BY <2>2
      <4> QED BY <1>6, <4>1, ConcatAssoc
    <3> QED BY <1>3, <2>2, <3>1, <3>2
  <2>6. msgs[1].role = m.role
    BY DEF m
  <2>7. Inserts(out \o msgs, out' \o msgs')
    <3>1. f = Says(Opposite(m.role), SyntheticEmpty)
      BY DEF f
    <3> QED BY <2>3, <2>5, <2>6, <3>1 DEF Inserts
  <2> QED BY <1>1, <1>4, <2>4, <2>7 DEF Shaped
<1>8. CASE ~(out # <<>> /\ Last(out).role = m.role)
  <2>1. filled = out
    BY <1>8
  <2> HIDE DEF filled, f
  <2>2. out' = out \o <<m>> /\ Sound(out')
    BY <1>1, <1>2, <1>4, <2>1, SoundRules, AppendJoins
  <2>3. (out \o <<m>>) \o rest = out \o (<<m>> \o rest)
    BY <1>2, <1>6, ConcatAssoc
  <2>4. out' \o msgs' = out \o msgs
    BY <1>1, <1>3, <2>2, <2>3
  <2> QED BY <1>1, <1>4, <2>2, <2>4 DEF Shaped
<1> QED BY <1>7, <1>8

\* Split puts a synthetic message of the user behind, if anything.
LEMMA SplitShape ==
  ASSUME Sound(out), Spoken(out, Speakers), out # <<>>, Split
  PROVE  /\ Sound(msgs') /\ WellMade(last') /\ last'.role = "user"
         /\ Shaped(out \o msgs, Append(msgs', last'))
<1>1. /\ msgs = <<>>
      /\ IF Last(out).role = "assistant"
         THEN msgs' = out /\ last' = Says("user", SyntheticContinue)
         ELSE msgs' = Front(out) /\ last' = Last(out)
  BY DEF Split
<1>2. IsSeq(out) /\ Len(out) \in Nat \ {0} /\ DOMAIN out = 1..Len(out) /\ out \o msgs = out
  BY <1>1, IsSeqFacts, ConcatNothing DEF Sound
<1>3. Last(out) = out[Len(out)] /\ WellMade(Last(out)) /\ Last(out).role \in Speakers
  BY <1>2 DEF Last, Sound, Spoken, ToSet
<1>4. CASE Last(out).role = "assistant"
  <2> DEFINE c == Says("user", SyntheticContinue)
  <2>1. msgs' = out /\ last' = c /\ WellMade(c) /\ c.role = "user"
    BY <1>1, <1>4, SaysIsSound
  <2>2. Append(out, c) = (out \o <<c>>) \o <<>> /\ out = out \o <<>>
    <3> HIDE DEF c
    <3>1. Append(out, c) = out \o <<c>> /\ IsSeq(Append(out, c))
      BY <1>2, AppendJoins, AppendIsSeq
    <3> QED BY <1>2, <3>1, ConcatNothing
  <2>3. Inserts(out, Append(out, c))
    BY <2>2, SoundRules DEF Inserts, Speakers
  <2> QED BY <1>2, <2>1, <2>3 DEF Shaped
<1>5. CASE Last(out).role # "assistant"
  <2>1. msgs' = SubSeq(out, 1, Len(out) - 1) /\ last' = Last(out) /\ Last(out).role = "user"
    BY <1>1, <1>3, <1>5 DEF Front, Speakers
  <2>2. Sound(msgs')
    <3>1. 1 \in Nat \ {0} /\ Len(out) - 1 \in Nat /\ Len(out) - 1 <= Len(out)
      BY <1>2
    <3>2. Sound(SubSeq(out, 1, Len(out) - 1))
      BY <3>1, SoundPart, Zenon
    <3> QED BY <2>1, <3>2
  <2>3. Append(SubSeq(out, 1, Len(out) - 1), out[Len(out)]) = out
    <3>1. out \in Seq(ToSet(out))
      BY <1>2, IsSeqFacts
    <3> QED BY <1>2, <3>1
  <2> QED BY <1>2, <1>3, <2>1, <2>2, <2>3 DEF Shaped
<1> QED BY <1>4, <1>5

-----------------------------------------------------------------------------
(* Reordering.                                                             *)

\* One element less; the others stay.
LEMMA RemoveIs ==
  ASSUME NEW s, IsSeq(s), NEW i \in DOMAIN s
  PROVE  IsSeq(RemoveAt(s, i)) /\ ToSet(s) = ToSet(RemoveAt(s, i)) \cup {s[i]}
<1> DEFINE a == SubSeq(s, 1, i - 1)
           b == SubSeq(s, i + 1, Len(s))
<1>1. Len(s) \in Nat /\ i \in 1..Len(s) /\ ToSet(s) = {s[k] : k \in 1..Len(s)}
  BY IsSeqFacts, ElementsOf
<1>2. i - 1 \in Nat /\ i + 1 \in Nat \ {0} /\ 1 \in Nat \ {0} /\ i - 1 <= Len(s)
  BY <1>1
<1>3. /\ IsSeq(a) /\ Len(a) = i - 1 /\ \A k \in 1..(i - 1) : a[k] = s[k]
  <2>1. /\ IsSeq(a) /\ Len(a) = (IF 1 <= i - 1 THEN (i - 1) - 1 + 1 ELSE 0)
        /\ \A k \in 1..Len(a) : a[k] = s[1 + k - 1]
    BY <1>2, SubSeqIsSeq
  <2> HIDE DEF a
  <2> QED BY <1>2, <2>1
<1>4. /\ IsSeq(b) /\ Len(b) = Len(s) - i /\ \A k \in 1..(Len(s) - i) : b[k] = s[i + k]
  <2>1. /\ IsSeq(b) /\ Len(b) = (IF i + 1 <= Len(s) THEN Len(s) - (i + 1) + 1 ELSE 0)
        /\ \A k \in 1..Len(b) : b[k] = s[(i + 1) + k - 1]
    BY <1>1, <1>2, SubSeqIsSeq
  <2> HIDE DEF b
  <2> QED BY <1>1, <2>1
<1>5. RemoveAt(s, i) = a \o b
  BY DEF RemoveAt
<1> HIDE DEF a, b
<1>6. IsSeq(a \o b) /\ ToSet(a \o b) = ToSet(a) \cup ToSet(b)
  BY <1>3, <1>4, ConcatIsSeq, ConcatElements
<1>7. ToSet(a) = {s[k] : k \in 1..(i - 1)}
  BY <1>3, ElementsOf
<1>8. ToSet(b) = {s[k] : k \in (i + 1)..Len(s)}
  <2>1. ToSet(b) = {b[k] : k \in 1..(Len(s) - i)}
    BY <1>4, ElementsOf
  <2>2. \A k \in (i + 1)..Len(s) : k - i \in 1..(Len(s) - i) /\ b[k - i] = s[k]
    BY <1>1, <1>4
  <2>3. \A k \in 1..(Len(s) - i) : k + i \in (i + 1)..Len(s) /\ b[k] = s[k + i]
    BY <1>1, <1>4
  <2>4. \A x \in ToSet(b) : \E k \in (i + 1)..Len(s) : x = s[k]
    BY <2>1, <2>3
  <2>5. \A k \in (i + 1)..Len(s) : s[k] \in ToSet(b)
    BY <2>1, <2>2
  <2> QED BY <2>4, <2>5
<1>9. 1..Len(s) = (1..(i - 1) \cup (i + 1)..Len(s)) \cup {i}
  BY <1>1
<1> QED BY <1>1, <1>5, <1>6, <1>7, <1>8, <1>9

\* What one use takes out of the results that are left.
Taken(s, id, t) ==
  /\ IsSeq(t.ordered) /\ IsSeq(t.rest)
  /\ ToSet(t.ordered) \cup ToSet(t.rest) = ToSet(s.ordered) \cup ToSet(s.rest)
  /\ ToSet(t.rest) \subseteq ToSet(s.rest)
  /\ \/ t.ordered = s.ordered /\ \A x \in ToSet(s.rest) : x.id # id
     \/ \E x \in ToSet(s.rest) : x.id = id /\ t.ordered = Append(s.ordered, x)

\* Take is what Taken says of it.
LEMMA TakeIs ==
  ASSUME NEW s, NEW id, IsSeq(s.ordered), IsSeq(s.rest)
  PROVE  Taken(s, id, Take(s, id))
<1>1. ToSet(s.rest) = {s.rest[i] : i \in DOMAIN s.rest} /\ DOMAIN s.rest = 1..Len(s.rest)
      /\ Len(s.rest) \in Nat
  BY IsSeqFacts DEF ToSet
<1>2. CASE \E i \in DOMAIN s.rest : s.rest[i].id = id
  <2> DEFINE Hits == {i \in DOMAIN s.rest : s.rest[i].id = id}
             Good(i) == s.rest[i].id = id /\ \A j \in 1..(i - 1) : s.rest[j].id # id
             i == CHOOSE i \in DOMAIN s.rest : Good(i)
  <2>1. \E k \in DOMAIN s.rest : Good(k)
    <3>1. Hits \in SUBSET Nat /\ Hits # {}
      BY <1>1, <1>2
    <3>2. PICK k \in Hits : \A j \in Hits : k <= j
      <4> HIDE DEF Hits
      <4> QED BY <3>1, LeastNat
    <3>3. \A j \in 1..(k - 1) : j \in DOMAIN s.rest /\ ~(k <= j)
      BY <1>1, <3>2
    <3>4. Good(k)
      BY <3>2, <3>3
    <3> QED BY <3>2, <3>4
  <2>2. Take(s, id) = [ordered |-> Append(s.ordered, s.rest[i]), rest |-> RemoveAt(s.rest, i)]
    BY <1>2 DEF Take
  <2>3. i \in DOMAIN s.rest /\ s.rest[i].id = id
    <3> HIDE DEF Good
    <3>1. i \in DOMAIN s.rest /\ Good(i)
      BY <2>1
    <3> QED BY <3>1 DEF Good
  <2> HIDE DEF i
  <2> DEFINE x == s.rest[i]
             t == Take(s, id)
  <2>4. t.ordered = Append(s.ordered, x) /\ t.rest = RemoveAt(s.rest, i) /\ x \in ToSet(s.rest)
          /\ x.id = id
    BY <1>1, <2>2, <2>3
  <2>5. IsSeq(RemoveAt(s.rest, i)) /\ ToSet(s.rest) = ToSet(RemoveAt(s.rest, i)) \cup {x}
    BY <2>3, RemoveIs
  <2> HIDE DEF x, t
  <2>6. IsSeq(t.ordered) /\ ToSet(t.ordered) = ToSet(s.ordered) \cup {x}
    BY <2>4, AppendIsSeq, AppendElements
  <2>7. Taken(s, id, t)
    BY <2>4, <2>5, <2>6 DEF Taken
  <2> QED BY <2>7 DEF t
<1>3. CASE ~\E i \in DOMAIN s.rest : s.rest[i].id = id
  <2>1. Take(s, id) = s
    BY <1>3 DEF Take
  <2>2. \A x \in ToSet(s.rest) : x.id # id
    BY <1>1, <1>3
  <2> QED BY <2>1, <2>2 DEF Taken
<1> QED BY <1>2, <1>3

\* The uses take their results one after the other.
Taking(f, results, ids) ==
  /\ f[0] = [ordered |-> <<>>, rest |-> results]
  /\ \A n \in 0..(Len(ids) - 1) : f[n + 1] = Take(f[n], ids[n + 1])

\* reorder_tool_results takes the uses one by one.
LEMMA ReorderIs ==
  ASSUME NEW results, NEW ids, IsSeq(ids)
  PROVE  \E f : /\ Taking(f, results, ids)
                /\ Reorder(results, ids) = IF Len(results) <= 1 \/ ids = <<>> THEN results
                                           ELSE f[Len(ids)].ordered \o f[Len(ids)].rest
<1> DEFINE Start == [ordered |-> <<>>, rest |-> results]
           Upto(f, m) == f = [n \in 0..m |-> IF n = 0 THEN Start ELSE Take(f[n - 1], ids[n])]
           Good == {m \in Nat : \E f : Upto(f, m)}
<1>1. Len(ids) \in Nat
  BY IsSeqFacts
<1> HIDE DEF Start
<1>2. 0 \in Good
  <2> DEFINE f == [n \in 0..0 |-> Start]
  <2>1. f = [n \in 0..0 |-> IF n = 0 THEN Start ELSE Take(f[n - 1], ids[n])]
    OBVIOUS
  <2> HIDE DEF f
  <2> QED BY <2>1
<1>3. ASSUME NEW m \in Nat, m \in Good PROVE m + 1 \in Good
  <2>1. PICK f : Upto(f, m)
    BY <1>3
  <2> DEFINE g == [n \in 0..(m + 1) |-> IF n = m + 1 THEN Take(f[m], ids[n]) ELSE f[n]]
  <2>2. ASSUME NEW n \in 0..(m + 1)
        PROVE  g[n] = IF n = 0 THEN Start ELSE Take(g[n - 1], ids[n])
    <3>1. CASE n = m + 1
      <4>1. g[n] = Take(f[m], ids[n]) /\ g[m] = f[m] /\ n # 0 /\ n - 1 = m
        BY <3>1
      <4> HIDE DEF g
      <4> QED BY <4>1
    <3>2. CASE n # m + 1
      <4>1. n \in 0..m /\ g[n] = f[n] /\ (n # 0 => n - 1 \in 0..m /\ g[n - 1] = f[n - 1])
        BY <3>2
      <4> HIDE DEF g
      <4>2. f[n] = IF n = 0 THEN Start ELSE Take(f[n - 1], ids[n])
        BY <2>1, <4>1
      <4> QED BY <4>1, <4>2
    <3> QED BY <3>1, <3>2
  <2>3. g = [n \in 0..(m + 1) |-> g[n]]
    OBVIOUS
  <2> HIDE DEF g
  <2>4. Upto(g, m + 1)
    BY <2>2, <2>3
  <2> HIDE DEF Upto
  <2> QED BY <2>4
<1>4. Len(ids) \in Good
  <2> HIDE DEF Good
  <2>1. Nat \subseteq Good
    BY <1>2, <1>3, UpTheNaturals
  <2> QED BY <1>1, <2>1
<1> DEFINE P(f) == Upto(f, Len(ids))
           made == CHOOSE f : P(f)
<1>5. Reorder(results, ids) = IF Len(results) <= 1 \/ ids = <<>> THEN results
                              ELSE made[Len(ids)].ordered \o made[Len(ids)].rest
  BY DEF Reorder, Start
<1>6. \E f : P(f)
  BY <1>4
<1>7. P(made)
  <2> HIDE DEF P
  <2> QED BY <1>6
<1> HIDE DEF made
<1>8. made[0] = Start
  BY <1>1, <1>7
<1>9. ASSUME NEW n \in 0..(Len(ids) - 1) PROVE made[n + 1] = Take(made[n], ids[n + 1])
  <2>1. n + 1 \in 0..Len(ids) /\ n + 1 # 0 /\ (n + 1) - 1 = n
    BY <1>1
  <2> QED BY <1>7, <2>1
<1>10. Taking(made, results, ids)
  BY <1>8, <1>9 DEF Taking, Start
<1> QED BY <1>5, <1>10

\* The ids of a sequence of uses or results.
Idents(s) == [k \in DOMAIN s |-> s[k].id]
IdSet(s)  == {x.id : x \in ToSet(s)}

\* The ids of a sequence, as a sequence and as a set.
LEMMA IdentsAre ==
  ASSUME NEW s, IsSeq(s)
  PROVE  /\ IsSeq(Idents(s)) /\ Len(Idents(s)) = Len(s) /\ ToSet(Idents(s)) = IdSet(s)
         /\ \A k \in 1..Len(s) : Idents(s)[k] = s[k].id
<1> DEFINE t == Idents(s)
<1>1. DOMAIN t = DOMAIN s /\ t = [i \in DOMAIN s |-> t[i]] /\ \A k \in DOMAIN s : t[k] = s[k].id
  BY DEF Idents
<1>2. DOMAIN s = 1..Len(s)
  BY IsSeqFacts
<1> HIDE DEF t
<1>3. IsSeq(t) /\ Len(t) = Len(s)
  BY <1>1, MapIsSeq
<1>4. ToSet(t) = {t[k] : k \in DOMAIN s} /\ ToSet(s) = {s[k] : k \in DOMAIN s}
  BY <1>1 DEF ToSet
<1>5. ToSet(t) = IdSet(s)
  BY <1>1, <1>4 DEF IdSet
<1> QED BY <1>1, <1>2, <1>3, <1>5 DEF t

\* The id of an element added is added to the ids.
LEMMA IdentsAppend ==
  ASSUME NEW s, NEW x, IsSeq(s)
  PROVE  Idents(Append(s, x)) = Append(Idents(s), x.id)
<1> DEFINE u == Append(s, x)
           iu == Idents(u)
           a  == Append(Idents(s), x.id)
<1>1. /\ IsSeq(u) /\ Len(u) = Len(s) + 1 /\ u[Len(s) + 1] = x /\ \A k \in 1..Len(s) : u[k] = s[k]
      /\ Len(s) \in Nat
  BY AppendIsSeq, IsSeqFacts
<1>2. IsSeq(Idents(s)) /\ Len(Idents(s)) = Len(s) /\ \A k \in 1..Len(s) : Idents(s)[k] = s[k].id
  BY IdentsAre
<1>3. /\ IsSeq(a) /\ Len(a) = Len(s) + 1 /\ a[Len(s) + 1] = x.id
      /\ \A k \in 1..Len(s) : a[k] = s[k].id
  BY <1>2, AppendIsSeq
<1> HIDE DEF u
<1>4. IsSeq(iu) /\ Len(iu) = Len(s) + 1 /\ \A k \in 1..(Len(s) + 1) : iu[k] = u[k].id
  BY <1>1, IdentsAre
<1> HIDE DEF iu, a
<1>5. \A k \in 1..(Len(s) + 1) : k = Len(s) + 1 \/ k \in 1..Len(s)
  BY <1>1
<1>6. \A k \in 1..(Len(s) + 1) : iu[k] = a[k]
  BY <1>1, <1>3, <1>4, <1>5
<1>7. iu = a
  BY <1>3, <1>4, <1>6, SeqSame
<1> QED BY <1>7 DEF iu, a, u

\* After n uses: nothing is lost, what is ordered answers one of them, and what is
\* left repeats an answer given.
Midway(s, results, ids, n) ==
  /\ IsSeq(s.ordered) /\ IsSeq(s.rest)
  /\ ToSet(s.ordered) \cup ToSet(s.rest) = ToSet(results)
  /\ \A x \in ToSet(s.ordered) : \E j \in 1..n : x.id = ids[j]
  /\ \A x \in ToSet(s.rest) : \A j \in 1..n :
       x.id = ids[j] => \E y \in ToSet(s.ordered) : y.id = ids[j]

\* Midway holds after every use taken.
LEMMA TakingIs ==
  ASSUME NEW f, NEW results, NEW ids, IsSeq(results), IsSeq(ids), Taking(f, results, ids),
         NEW n \in 0..Len(ids)
  PROVE  Midway(f[n], results, ids, n)
<1> DEFINE Good == {k \in Nat : Midway(f[k], results, ids, k)}
<1>1. Len(ids) \in Nat
  BY IsSeqFacts
<1>2. 0 \in Good
  <2>1. f[0].ordered = <<>> /\ f[0].rest = results
    BY DEF Taking
  <2>2. IsSeq(<<>>) /\ ToSet(<<>>) = {}
    BY EmptyIsSeq, ElementsOf
  <2> QED BY <2>1, <2>2 DEF Midway
<1>3. ASSUME NEW k \in 0..(Len(ids) - 1), k \in Good PROVE k + 1 \in Good
  <2> DEFINE s == f[k]
             t == f[k + 1]
             id == ids[k + 1]
  <2>1. Midway(s, results, ids, k) /\ k \in Nat /\ k + 1 \in Nat
    BY <1>1, <1>3
  <2>2. Taken(s, id, t)
    <3>1. t = Take(s, id)
      BY DEF Taking
    <3> HIDE DEF s, t, id
    <3> QED BY <2>1, <3>1, TakeIs DEF Midway
  <2>3. \A j \in 1..(k + 1) : j \in 1..k \/ j = k + 1
    BY <2>1
  <2>4. \A j \in 1..k : j \in 1..(k + 1)
    BY <2>1
  <2>5. k + 1 \in 1..(k + 1) /\ ids[k + 1] = id
    BY <2>1
  <2> HIDE DEF s, t, id
  <2>6. CASE t.ordered = s.ordered /\ \A x \in ToSet(s.rest) : x.id # id
    BY <2>1, <2>2, <2>3, <2>4, <2>5, <2>6 DEF Midway, Taken, s, t
  <2>7. ASSUME NEW x \in ToSet(s.rest), x.id = id, t.ordered = Append(s.ordered, x)
        PROVE  Midway(t, results, ids, k + 1)
    <3>1. ToSet(t.ordered) = ToSet(s.ordered) \cup {x}
      BY <2>1, <2>7, AppendElements DEF Midway
    <3>2. \A y \in ToSet(t.ordered) : \E j \in 1..(k + 1) : y.id = ids[j]
      BY <2>1, <2>4, <2>5, <2>7, <3>1 DEF Midway
    <3>3. ASSUME NEW y \in ToSet(t.rest), NEW j \in 1..(k + 1), y.id = ids[j]
          PROVE  \E z \in ToSet(t.ordered) : z.id = ids[j]
      <4>1. CASE j = k + 1
        BY <2>5, <2>7, <3>1, <4>1
      <4>2. CASE j \in 1..k
        <5>1. y \in ToSet(s.rest)
          BY <2>2 DEF Taken
        <5>2. \E z \in ToSet(s.ordered) : z.id = ids[j]
          BY <2>1, <3>3, <4>2, <5>1 DEF Midway
        <5> QED BY <3>1, <5>2
      <4> QED BY <2>3, <4>1, <4>2
    <3> QED BY <2>1, <2>2, <3>2, <3>3 DEF Midway, Taken
  <2>8. Midway(t, results, ids, k + 1)
    BY <2>2, <2>6, <2>7 DEF Taken, t
  <2> QED BY <2>1, <2>8 DEF t
<1>4. 0..Len(ids) \subseteq Good
  <2> HIDE DEF Good
  <2> QED BY <1>1, <1>2, <1>3, UpTo
<1> QED BY <1>4

\* With each use made once, what is ordered follows the uses.
LEMMA TakingInOrder ==
  ASSUME NEW f, NEW results, NEW ids, IsSeq(results), IsSeq(ids), Taking(f, results, ids),
         IsInjective(ids), NEW n \in 0..Len(ids)
  PROVE  Idents(f[n].ordered) = Kept(SubSeq(ids, 1, n), IdSet(results))
<1> DEFINE A == IdSet(results)
           Good == {k \in Nat : Idents(f[k].ordered) = Kept(SubSeq(ids, 1, k), A)}
<1>1. Len(ids) \in Nat /\ DOMAIN ids = 1..Len(ids) /\ ids \in Seq(ToSet(ids))
  BY IsSeqFacts
<1>2. 0 \in Good
  <2>1. f[0].ordered = <<>>
    BY DEF Taking
  <2>2. Idents(<<>>) = <<>>
    BY DEF Idents
  <2>3. SubSeq(ids, 1, 0) = <<>>
    BY <1>1
  <2> QED BY <2>1, <2>2, <2>3, KeptEmpty
<1>3. ASSUME NEW k \in 0..(Len(ids) - 1), k \in Good PROVE k + 1 \in Good
  <2> DEFINE s == f[k]
             t == f[k + 1]
             id == ids[k + 1]
             p == SubSeq(ids, 1, k)
  <2>1. /\ k \in Nat /\ k + 1 \in Nat /\ k \in 0..Len(ids) /\ k + 1 \in 1..Len(ids)
        /\ 1 \in Nat \ {0} /\ k <= Len(ids)
    BY <1>1
  <2>2. Midway(s, results, ids, k)
    BY <2>1, TakingIs
  <2>3. Taken(s, id, t)
    <3>1. t = Take(s, id)
      BY DEF Taking
    <3> HIDE DEF s, t, id
    <3> QED BY <2>2, <3>1, TakeIs DEF Midway
  <2>4. IsSeq(p) /\ SubSeq(ids, 1, k + 1) = Append(p, id)
    <3>1. IsSeq(p)
      BY <2>1, SubSeqIsSeq
    <3>2. SubSeq(ids, 1, k + 1) = Append(p, id)
      BY <1>1, <2>1
    <3> QED BY <3>1, <3>2
  <2>5. Idents(s.ordered) = Kept(p, A)
    BY <1>3
  <2>10. id = ids[k + 1]
    OBVIOUS
  <2> HIDE DEF s, t, p, A, id
  <2>6. Kept(Append(p, id), A) = IF id \in A THEN Append(Kept(p, A), id) ELSE Kept(p, A)
    BY <2>4, KeptAppend
  <2>7. CASE t.ordered = s.ordered /\ \A x \in ToSet(s.rest) : x.id # id
    <3>1. ASSUME NEW x \in ToSet(s.ordered), x.id = id PROVE FALSE
      <4>1. PICK j \in 1..k : x.id = ids[j]
        BY <2>2 DEF Midway
      <4>2. ids[j] = ids[k + 1] /\ j \in DOMAIN ids /\ k + 1 \in DOMAIN ids /\ j # k + 1
        BY <1>1, <2>1, <2>10, <3>1, <4>1
      <4> QED BY <4>2 DEF IsInjective
    <3>2. id \notin A
      BY <2>2, <2>7, <3>1 DEF A, IdSet, Midway
    <3>3. Idents(t.ordered) = Kept(SubSeq(ids, 1, k + 1), A)
      BY <2>4, <2>5, <2>6, <2>7, <3>2
    <3> QED BY <2>1, <3>3 DEF t
  <2>8. ASSUME NEW x \in ToSet(s.rest), x.id = id, t.ordered = Append(s.ordered, x)
        PROVE  Idents(t.ordered) = Kept(SubSeq(ids, 1, k + 1), A)
    <3>1. id \in A
      BY <2>2, <2>8 DEF A, IdSet, Midway
    <3>2. Idents(t.ordered) = Append(Idents(s.ordered), id)
      BY <2>2, <2>8, IdentsAppend DEF Midway
    <3> QED BY <2>4, <2>5, <2>6, <3>1, <3>2
  <2>9. CASE \E x \in ToSet(s.rest) : x.id = id /\ t.ordered = Append(s.ordered, x)
    BY <2>1, <2>8, <2>9 DEF t
  <2> QED BY <2>3, <2>7, <2>9 DEF Taken
<1>4. 0..Len(ids) \subseteq Good
  <2> HIDE DEF Good
  <2> QED BY <1>1, <1>2, <1>3, UpTo
<1> QED BY <1>4

\* Reordering neither loses nor invents a result.
LEMMA ReorderKeeps ==
  ASSUME NEW results, NEW ids, IsSeq(results), IsSeq(ids)
  PROVE  IsSeq(Reorder(results, ids)) /\ ToSet(Reorder(results, ids)) = ToSet(results)
<1>1. PICK f : /\ Taking(f, results, ids)
               /\ Reorder(results, ids) = IF Len(results) <= 1 \/ ids = <<>> THEN results
                                          ELSE f[Len(ids)].ordered \o f[Len(ids)].rest
  BY ReorderIs
<1> DEFINE s == f[Len(ids)]
<1>2. Midway(s, results, ids, Len(ids))
  <2>1. Len(ids) \in 0..Len(ids)
    BY IsSeqFacts
  <2> QED BY <1>1, <2>1, TakingIs
<1>3. /\ IsSeq(s.ordered \o s.rest)
      /\ ToSet(s.ordered \o s.rest) = ToSet(s.ordered) \cup ToSet(s.rest)
  BY <1>2, ConcatIsSeq, ConcatElements DEF Midway
<1> QED BY <1>1, <1>2, <1>3 DEF Midway

\* Results that all have their use come in the order of the uses.
LEMMA ReorderInOrder ==
  ASSUME NEW results, NEW ids, IsSeq(results), IsSeq(ids), IdSet(results) \subseteq ToSet(ids),
         IsInjective(ids), IsInjective(Idents(Reorder(results, ids)))
  PROVE  Idents(Reorder(results, ids)) = Kept(ids, IdSet(results))
<1>1. PICK f : /\ Taking(f, results, ids)
               /\ Reorder(results, ids) = IF Len(results) <= 1 \/ ids = <<>> THEN results
                                          ELSE f[Len(ids)].ordered \o f[Len(ids)].rest
  BY ReorderIs
<1> DEFINE s == f[Len(ids)]
           A == IdSet(results)
<1>2. /\ Len(ids) \in Nat /\ Len(results) \in Nat /\ (ids = <<>> <=> Len(ids) = 0)
      /\ (results = <<>> <=> Len(results) = 0) /\ DOMAIN ids = 1..Len(ids)
      /\ ids \in Seq(ToSet(ids)) /\ ToSet(ids) = {ids[k] : k \in 1..Len(ids)}
  BY IsSeqFacts, ElementsOf
<1>3. CASE Len(results) = 0 \/ ids = <<>>
  <2>1. ToSet(results) = {}
    <3>1. CASE results = <<>>
      BY <3>1, ElementsOf
    <3>2. CASE ids = <<>>
      <4>1. ToSet(ids) = {}
        BY <3>2, ElementsOf
      <4>2. \A x \in ToSet(results) : x.id \in ToSet(ids)
        BY DEF IdSet
      <4> QED BY <4>1, <4>2
    <3> QED BY <1>2, <1>3, <3>1, <3>2
  <2>2. results = <<>> /\ A = {}
    BY <2>1, ElementsOf DEF IdSet
  <2>3. Idents(<<>>) = <<>>
    BY DEF Idents
  <2>4. Kept(ids, A) = <<>>
    BY <2>2, KeptNone
  <2> QED BY <1>1, <1>2, <2>2, <2>3, <2>4
<1>4. CASE Len(results) = 1 /\ ids # <<>>
  <2> DEFINE x == results[1]
  <2>1. /\ Reorder(results, ids) = results /\ IsSeq(Idents(results)) /\ Len(Idents(results)) = 1
        /\ Idents(results)[1] = x.id /\ ToSet(Idents(results)) = A
    BY <1>1, <1>4, IdentsAre
  <2>2. A = {x.id}
    <3>1. ToSet(Idents(results)) = {Idents(results)[k] : k \in 1..1}
      BY <2>1, ElementsOf
    <3> HIDE DEF A, x
    <3> QED BY <2>1, <3>1
  <2>3. PICK j \in 1..Len(ids) : ids[j] = x.id
    BY <1>2, <2>2
  <2> HIDE DEF A, x
  <2>4. Kept(ids, {x.id}) = <<x.id>>
    <3> DEFINE a == SubSeq(ids, 1, j - 1)
               b == SubSeq(ids, j, Len(ids))
               c == SubSeq(ids, j + 1, Len(ids))
               y == x.id
    <3>1. /\ j - 1 \in Nat /\ j - 1 <= Len(ids) /\ (j - 1) + 1 = j /\ 1 \in Nat \ {0}
          /\ j + 1 \in Nat \ {0} /\ j \in Nat \ {0} /\ Len(ids) <= Len(ids)
      BY <1>2
    <3>2. ids = a \o b
      BY <3>1, Parted
    <3>3. IsSeq(a) /\ IsSeq(b) /\ IsSeq(c)
      BY <1>2, <3>1, SubSeqIsSeq
    <3>4. b = <<y>> \o c
      BY <1>2, <2>3
    <3>5. \A k \in 1..Len(ids) : ids[k] = y => k = j
      BY <1>2, <2>3 DEF IsInjective
    <3>6. y \notin ToSet(a)
      <4>1. /\ Len(a) = (IF 1 <= j - 1 THEN (j - 1) - 1 + 1 ELSE 0)
            /\ \A k \in 1..Len(a) : a[k] = ids[1 + k - 1]
        BY <3>1, SubSeqIsSeq
      <4>2. ToSet(a) = {a[k] : k \in 1..Len(a)}
        BY <3>3, ElementsOf
      <4> HIDE DEF a, b, c, y
      <4>3. \A k \in 1..Len(a) : a[k] = ids[k] /\ k \in 1..Len(ids) /\ k # j
        BY <1>2, <3>1, <4>1
      <4> QED BY <3>5, <4>2, <4>3
    <3>7. y \notin ToSet(c)
      <4>1. /\ Len(c) = (IF j + 1 <= Len(ids) THEN Len(ids) - (j + 1) + 1 ELSE 0)
            /\ \A k \in 1..Len(c) : c[k] = ids[(j + 1) + k - 1]
        BY <1>2, <3>1, SubSeqIsSeq
      <4>4. j \in Nat /\ Len(c) = Len(ids) - j
        <5>1. j \in Nat /\ Len(ids) \in Nat /\ j <= Len(ids)
          BY <1>2
        <5> HIDE DEF c
        <5> QED BY ONLY <4>1, <5>1
      <4>2. ToSet(c) = {c[k] : k \in 1..Len(c)}
        BY <3>3, ElementsOf
      <4> HIDE DEF a, b, c, y
      <4>3. \A k \in 1..Len(c) : c[k] = ids[j + k] /\ j + k \in 1..Len(ids) /\ j + k # j
        <5> SUFFICES ASSUME NEW k \in 1..Len(c)
                     PROVE  c[k] = ids[j + k] /\ j + k \in 1..Len(ids) /\ j + k # j
          OBVIOUS
        <5>1. (j + 1) + k - 1 = j + k /\ j + k \in 1..Len(ids) /\ j + k # j
          BY <1>2, <4>4
        <5> QED BY <4>1, <5>1
      <4> QED BY <3>5, <4>2, <4>3
    <3> HIDE DEF a, b, c, y
    <3>8. IsSeq(<<y>>) /\ ToSet(<<y>>) = {y}
      BY OneIsSeq
    <3>9. Kept(a, {y}) = <<>> /\ Kept(c, {y}) = <<>>
      BY <3>3, <3>6, <3>7, KeptNone
    <3>10. Kept(<<y>>, {y}) = <<y>>
      BY <3>8, KeptAll
    <3>11. Kept(b, {y}) = <<y>>
      <4> DEFINE one == <<y>>
      <4>3. IsSeq(one) /\ IsSeq(c)
        BY <3>3, <3>8
      <4> HIDE DEF one
      <4>4. Kept(one \o c, {y}) = Kept(one, {y}) \o Kept(c, {y})
        BY <4>3, KeptConcat
      <4>1. Kept(<<y>> \o c, {y}) = Kept(<<y>>, {y}) \o Kept(c, {y})
        BY <4>4 DEF one
      <4>2. <<y>> \o <<>> = <<y>>
        BY <3>8, ConcatNothing, Zenon
      <4> QED BY <3>4, <3>9, <3>10, <4>1, <4>2, Zenon
    <3>12. Kept(ids, {y}) = <<y>>
      BY <3>2, <3>3, <3>8, <3>9, <3>11, KeptConcat, ConcatNothing
    <3> QED BY <3>12 DEF y
  <2>5. Idents(results) = <<x.id>>
    <3> DEFINE one == <<x.id>>
    <3>1. IsSeq(one) /\ Len(one) = 1 /\ one[1] = x.id
      BY OneIsSeq
    <3> HIDE DEF one
    <3>2. \A k \in 1..1 : Idents(results)[k] = one[k]
      BY <2>1, <3>1
    <3>3. Idents(results) = one
      BY <2>1, <3>1, <3>2, SeqSame
    <3> QED BY <3>3 DEF one
  <2> QED BY <2>1, <2>2, <2>4, <2>5 DEF A
<1>5. CASE Len(results) > 1 /\ ids # <<>>
  <2>1. Reorder(results, ids) = s.ordered \o s.rest
    <3>1. ~(Len(results) <= 1 \/ ids = <<>>)
      BY <1>2, <1>5
    <3> QED BY <1>1, <3>1, Zenon
  <2>2. Len(ids) \in 0..Len(ids)
    BY <1>2
  <2>3. Midway(s, results, ids, Len(ids))
    BY <1>1, <2>2, TakingIs
  <2>4. Idents(s.ordered) = Kept(SubSeq(ids, 1, Len(ids)), A)
    BY <1>1, <2>2, TakingInOrder
  <2>5. SubSeq(ids, 1, Len(ids)) = ids
    BY <1>2, SubSeqFull
  <2> HIDE DEF s
  <2>6. s.rest = <<>>
    <3> SUFFICES ASSUME s.rest # <<>> PROVE FALSE
      OBVIOUS
    <3> DEFINE o == s.ordered
               r == s.rest
               u == o \o r
    <3>1. /\ IsSeq(o) /\ IsSeq(r) /\ r # <<>> /\ Len(r) \in Nat \ {0} /\ Len(o) \in Nat
          /\ ToSet(o) = {o[k] : k \in 1..Len(o)} /\ r[1] \in ToSet(r)
      <4>1. IsSeq(o) /\ IsSeq(r) /\ r # <<>>
        BY <2>3 DEF Midway
      <4> HIDE DEF o, r
      <4>2. Len(r) \in Nat \ {0} /\ Len(o) \in Nat /\ DOMAIN r = 1..Len(r)
        BY <4>1, IsSeqFacts
      <4> QED BY <4>1, <4>2, ElementsOf DEF ToSet
    <3>2. PICK j \in 1..Len(ids) : r[1].id = ids[j]
      <4>1. r[1] \in ToSet(results)
        BY <2>3, <3>1 DEF Midway
      <4> HIDE DEF r
      <4> QED BY <1>2, <4>1 DEF IdSet
    <3>3. PICK y \in ToSet(o) : y.id = ids[j]
      BY <2>3, <3>1, <3>2 DEF Midway
    <3> HIDE DEF o, r
    <3>4. PICK p \in 1..Len(o) : y = o[p]
      BY <3>1
    <3>5. /\ IsSeq(u) /\ Len(u) = Len(o) + Len(r)
          /\ \A k \in 1..Len(u) : u[k] = IF k <= Len(o) THEN o[k] ELSE r[k - Len(o)]
      BY <3>1, ConcatIsSeq
    <3> HIDE DEF u
    <3>6. /\ p \in 1..Len(u) /\ p <= Len(o) /\ Len(o) + 1 \in 1..Len(u) /\ ~(Len(o) + 1 <= Len(o))
          /\ p # Len(o) + 1 /\ (Len(o) + 1) - Len(o) = 1
      BY <3>1, <3>5
    <3>7. u[p] = y /\ u[Len(o) + 1] = r[1]
      BY <3>4, <3>5, <3>6
    <3>8. Idents(u)[p] = Idents(u)[Len(o) + 1] /\ DOMAIN Idents(u) = 1..Len(u)
      <4>1. Idents(u)[p] = u[p].id /\ Idents(u)[Len(o) + 1] = u[Len(o) + 1].id
        BY <3>5, <3>6, IdentsAre
      <4>2. DOMAIN Idents(u) = DOMAIN u /\ DOMAIN u = 1..Len(u)
        BY <3>5, IsSeqFacts DEF Idents
      <4> QED BY <3>2, <3>3, <3>7, <4>1, <4>2
    <3>9. Reorder(results, ids) = u
      BY <2>1 DEF u, o, r
    <3>10. IsInjective(Idents(u))
      BY <3>9
    <3> QED BY <3>6, <3>8, <3>10 DEF IsInjective
  <2>7. Reorder(results, ids) = s.ordered
    BY <2>1, <2>3, <2>6, ConcatNothing DEF Midway
  <2> QED BY <2>4, <2>5, <2>7
<1>6. Len(results) = 0 \/ Len(results) = 1 \/ Len(results) > 1
  <2>1. Len(results) \in Nat
    BY <1>2
  <2>2. \A n \in Nat : n = 0 \/ n = 1 \/ n > 1
    OBVIOUS
  <2> QED BY <2>1, <2>2, Zenon
<1> QED BY <1>3, <1>4, <1>5, <1>6, Zenon

-----------------------------------------------------------------------------
(* What the passes have made, apart from any claim about it.               *)

\* build_history's turn of the k-th message, and the uses its results answer.
UsesAt(seq, k) ==
  IF k > 1 /\ seq[k - 1].role = "assistant" THEN ToolUseIds(seq[k - 1].content) ELSE <<>>

SentUses(content) ==
  [k \in DOMAIN ToolUses(content) |->
     [id |-> ToolUses(content)[k].id, name |-> Shorten(ToolUses(content)[k].name)]]

TurnAt(seq, k) ==
  IF seq[k].role = "user"
  THEN Turn("user", ExtractText(seq[k].content), <<>>, Reorder(Results(seq[k].content),
      UsesAt(seq, k)))
  ELSE Turn("assistant", ExtractText(seq[k].content), SentUses(seq[k].content), <<>>)

TurnsOf(seq) == [k \in DOMAIN seq |-> TurnAt(seq, k)]

Preface ==
  IF request.system
  THEN <<Turn("user", <<Piece("synthetic", "system")>>, <<>>, <<>>),
         Turn("assistant", <<Piece("synthetic", "ack")>>, <<>>, <<>>)>>
  ELSE <<>>

BInv ==
  /\ stage \in {"parse", "tools", "textualize"} => request \in Requests /\ msgs = request.messages
  /\ stage = "roles" => Sound(msgs)
  /\ stage \in {"merge", "alternate"} => Sound(out) /\ Sound(msgs)
  /\ stage \in {"history", "current", "sent"} =>
       Sound(msgs) /\ WellMade(last) /\ last.role = "user" /\ Spoken(msgs, Speakers)
  /\ stage = "history" => \A k \in DOMAIN history : history[k] = TurnAt(msgs, k)
  /\ stage \in {"current", "sent"} => history = Preface \o TurnsOf(msgs)
  /\ stage = "sent" =>
       /\ current.results = Reorder(Results(last.content), UsesAt(msgs, Len(msgs) + 1))
       /\ current.text = IF IsEmpty(ExtractText(last.content)) /\ current.results = <<>>
                         THEN <<SyntheticContinue>> ELSE ExtractText(last.content)
       /\ current.images = Attached(Pictured(last.content))
       /\ current.tools = entries

\* A message with other blocks.
LEMMA WellMadeAgain ==
  ASSUME NEW m, NEW c, IsMessage(m), IsSeq(c), \A b \in ToSet(c) : IsSeq(b.pieces)
           /\ IsSeq(b.images)
  PROVE  /\ WellMade([m EXCEPT !.content = c]) /\ [m EXCEPT !.content = c].content = c
         /\ [m EXCEPT !.content = c].role = m.role
<1> DEFINE n == [m EXCEPT !.content = c]
<1>1. n.content = c /\ n.role = m.role /\ IsMessage(n)
  BY DEF IsMessage
<1> HIDE DEF n
<1>2. WellMade(n)
  BY <1>1 DEF WellMade
<1> QED BY <1>1, <1>2 DEF n

\* A block taken for a text.
LEMMA AsTextIs ==
  ASSUME NEW b, IsSeq(b.pieces)
  PROVE  /\ IsSeq(AsResultText(b).pieces) /\ AsResultText(b).images = <<>>
         /\ AsResultText(b).pieces = <<Piece("result", b.id)>> \o b.pieces
         /\ AsResultText(b).kind = "text"
         /\ ~IsToolUse(AsResultText(b)) /\ ~IsToolResult(AsResultText(b))
<1> DEFINE p == <<Piece("result", b.id)>>
           t == p \o b.pieces
<1>1. IsSeq(p)
  BY OneIsSeq
<1>2. AsResultText(b) = TextBlock(t)
  BY DEF AsResultText
<1>3. t = <<Piece("result", b.id)>> \o b.pieces
  OBVIOUS
<1> HIDE DEF p
<1>4. IsSeq(t)
  BY <1>1, ConcatIsSeq
<1> HIDE DEF t
<1>5. /\ TextBlock(t).pieces = t /\ TextBlock(t).images = <<>> /\ TextBlock(t).kind = "text"
      /\ ~IsToolUse(TextBlock(t)) /\ ~IsToolResult(TextBlock(t))
  BY TextBlockIs
<1> QED BY <1>2, <1>3, <1>4, <1>5

\* Block by block, what the two passes leave of a message.
AllText(c) ==
  [i \in DOMAIN c |-> IF IsToolUse(c[i]) THEN TextBlock(<<Piece("use", c[i].id)>>)
                      ELSE IF IsToolResult(c[i]) THEN AsResultText(c[i]) ELSE c[i]]

OrphansText(c, ids) ==
  [k \in DOMAIN c |-> IF IsToolResult(c[k]) /\ c[k].id \notin ids THEN AsResultText(c[k]) ELSE c[k]]

\* TextualizeAll, by what it makes of the content.
LEMMA AllTextIs ==
  ASSUME NEW m, WellMade(m)
  PROVE  /\ WellMade(TextualizeAll(m)) /\ TextualizeAll(m).content = AllText(m.content)
         /\ TextualizeAll(m).role = m.role
<1> DEFINE c == m.content
           d == AllText(c)
<1>1. IsSeq(c) /\ \A i \in DOMAIN c : IsSeq(c[i].pieces) /\ IsSeq(c[i].images)
  BY DEF WellMade, ToSet
<1>2. DOMAIN d = DOMAIN c /\ d = [i \in DOMAIN c |-> d[i]]
      /\ \A i \in DOMAIN c : d[i] = IF IsToolUse(c[i]) THEN TextBlock(<<Piece("use", c[i].id)>>)
                                    ELSE IF IsToolResult(c[i]) THEN AsResultText(c[i]) ELSE c[i]
  BY DEF AllText
<1>3. TextualizeAll(m) = [m EXCEPT !.content = d]
  BY DEF TextualizeAll, AllText
<1> HIDE DEF d
<1>4. IsSeq(d)
  BY <1>1, <1>2, MapIsSeq
<1>5. ASSUME NEW i \in DOMAIN c PROVE IsSeq(d[i].pieces) /\ IsSeq(d[i].images)
  <2>1. CASE IsToolUse(c[i])
    <3> DEFINE t == <<Piece("use", c[i].id)>>
    <3>1. d[i] = TextBlock(t) /\ IsSeq(t)
      BY <1>2, <2>1, OneIsSeq
    <3> HIDE DEF t
    <3> QED BY <3>1, TextBlockIs, EmptyIsSeq
  <2>2. CASE ~IsToolUse(c[i]) /\ IsToolResult(c[i])
    <3> DEFINE b == c[i]
    <3>1. d[i] = AsResultText(b) /\ IsSeq(b.pieces)
      BY <1>1, <1>2, <2>2
    <3> HIDE DEF b
    <3>2. IsSeq(AsResultText(b).pieces) /\ AsResultText(b).images = <<>>
      BY <3>1, AsTextIs
    <3> QED BY <3>1, <3>2, EmptyIsSeq
  <2>3. CASE ~IsToolUse(c[i]) /\ ~IsToolResult(c[i])
    <3>1. d[i] = c[i]
      BY <1>2, <2>3
    <3> QED BY <1>1, <3>1
  <2> QED BY <2>1, <2>2, <2>3
<1>6. \A b \in ToSet(d) : IsSeq(b.pieces) /\ IsSeq(b.images)
  BY <1>2, <1>5 DEF ToSet
<1> QED BY <1>3, <1>4, <1>6, WellMadeAgain DEF WellMade, d

\* TextualizeOrphans, by what it makes of the content.
LEMMA OrphansTextIs ==
  ASSUME NEW seq, NEW i, WellMade(seq[i])
  PROVE  /\ WellMade(TextualizeOrphans(seq, i)) /\ TextualizeOrphans(seq, i).role = seq[i].role
         /\ TextualizeOrphans(seq, i).content = IF seq[i].role # "user" THEN seq[i].content
                                   ELSE OrphansText(seq[i].content, PrecedingIds(seq, i))
<1> DEFINE m == seq[i]
           c == m.content
           ids == PrecedingIds(seq, i)
           d == OrphansText(c, ids)
<1>1. IsSeq(c) /\ \A k \in DOMAIN c : IsSeq(c[k].pieces) /\ IsSeq(c[k].images)
  BY DEF WellMade, ToSet
<1>2. DOMAIN d = DOMAIN c /\ d = [k \in DOMAIN c |-> d[k]]
      /\ \A k \in DOMAIN c : d[k] = IF IsToolResult(c[k]) /\ c[k].id \notin ids
                                    THEN AsResultText(c[k]) ELSE c[k]
  BY DEF OrphansText
<1>3. TextualizeOrphans(seq, i) = IF m.role # "user" THEN m ELSE [m EXCEPT !.content = d]
  BY DEF TextualizeOrphans, OrphansText
<1> HIDE DEF d, ids
<1>4. IsSeq(d)
  BY <1>1, <1>2, MapIsSeq
<1>5. ASSUME NEW k \in DOMAIN c PROVE IsSeq(d[k].pieces) /\ IsSeq(d[k].images)
  <2>1. CASE IsToolResult(c[k]) /\ c[k].id \notin ids
    <3> DEFINE b == c[k]
    <3>1. d[k] = AsResultText(b) /\ IsSeq(b.pieces)
      BY <1>1, <1>2, <2>1
    <3> HIDE DEF b
    <3>2. IsSeq(AsResultText(b).pieces) /\ AsResultText(b).images = <<>>
      BY <3>1, AsTextIs
    <3> QED BY <3>1, <3>2, EmptyIsSeq
  <2>2. CASE ~(IsToolResult(c[k]) /\ c[k].id \notin ids)
    <3>1. d[k] = c[k]
      BY <1>2, <2>2
    <3> QED BY <1>1, <3>1
  <2> QED BY <2>1, <2>2
<1>6. \A b \in ToSet(d) : IsSeq(b.pieces) /\ IsSeq(b.images)
  BY <1>2, <1>5 DEF ToSet
<1>7. /\ WellMade([m EXCEPT !.content = d]) /\ [m EXCEPT !.content = d].content = d
      /\ [m EXCEPT !.content = d].role = m.role
  BY <1>4, <1>6, WellMadeAgain DEF WellMade
<1> QED BY <1>3, <1>7 DEF d, ids

\* The messages of a request are well made.
LEMMA RequestIsSound == \A r \in Requests : Sound(r.messages)
  BY RequestsAssumption DEF Sound

\* Textualize keeps the messages well made, and how many there are.
LEMMA TextualizeSound ==
  ASSUME Sound(msgs), Textualize
  PROVE  /\ Sound(msgs') /\ Len(msgs') = Len(msgs)
         /\ \A i \in 1..Len(msgs) :
              /\ WellMade(msgs[i])
              /\ msgs'[i] = IF entries = <<>> THEN TextualizeAll(msgs[i])
                            ELSE TextualizeOrphans(msgs, i)
<1>1. IsSeq(msgs) /\ DOMAIN msgs = 1..Len(msgs) /\ \A i \in DOMAIN msgs : WellMade(msgs[i])
  BY IsSeqFacts DEF Sound, ToSet
<1>2. DOMAIN msgs' = DOMAIN msgs /\ msgs' = [i \in DOMAIN msgs |-> msgs'[i]]
      /\ \A i \in DOMAIN msgs :
           msgs'[i] = IF entries = <<>> THEN TextualizeAll(msgs[i]) ELSE TextualizeOrphans(msgs, i)
  BY DEF Textualize
<1>3. IsSeq(msgs') /\ Len(msgs') = Len(msgs)
  BY <1>1, <1>2, MapIsSeq
<1>4. \A i \in DOMAIN msgs : WellMade(msgs'[i])
  BY <1>1, <1>2, AllTextIs, OrphansTextIs
<1>5. Sound(msgs')
  BY <1>2, <1>3, <1>4 DEF Sound, ToSet
<1> QED BY <1>1, <1>2, <1>3, <1>5

\* NormalizeRoles keeps the messages well made, and what they hold.
LEMMA RolesSound ==
  ASSUME Sound(msgs), NormalizeRoles
  PROVE  /\ Sound(msgs') /\ Len(msgs') = Len(msgs)
         /\ \A i \in 1..Len(msgs) :
              /\ msgs'[i].content = msgs[i].content
              /\ msgs'[i].role = IF msgs[i].role = "other" THEN "user" ELSE msgs[i].role
<1>1. IsSeq(msgs) /\ DOMAIN msgs = 1..Len(msgs) /\ \A i \in DOMAIN msgs : WellMade(msgs[i])
  BY IsSeqFacts DEF Sound, ToSet
<1>2. DOMAIN msgs' = DOMAIN msgs /\ msgs' = [i \in DOMAIN msgs |-> msgs'[i]]
      /\ \A i \in DOMAIN msgs : msgs'[i] = [msgs[i] EXCEPT !.role = IF @ = "other" THEN "user" ELSE @]
  BY DEF NormalizeRoles
<1>3. IsSeq(msgs') /\ Len(msgs') = Len(msgs)
  BY <1>1, <1>2, MapIsSeq
<1>4. ASSUME NEW i \in DOMAIN msgs
      PROVE  /\ WellMade(msgs'[i]) /\ msgs'[i].content = msgs[i].content
             /\ msgs'[i].role = IF msgs[i].role = "other" THEN "user" ELSE msgs[i].role
  <2>1. WellMade(msgs[i])
    BY <1>1
  <2>2. /\ msgs'[i].content = msgs[i].content /\ IsMessage(msgs'[i])
        /\ msgs'[i].role = IF msgs[i].role = "other" THEN "user" ELSE msgs[i].role
    BY <1>2, <2>1 DEF WellMade, IsMessage
  <2> QED BY <2>1, <2>2 DEF WellMade
<1>5. Sound(msgs')
  BY <1>2, <1>3, <1>4 DEF Sound, ToSet
<1> QED BY <1>1, <1>3, <1>4, <1>5

\* The steps before the messages are merged keep BInv.
LEMMA BaseEarly ==
  ASSUME BInv, Route \/ ConvertTools \/ Textualize \/ NormalizeRoles, IInv
  PROVE  BInv'
<1>1. CASE Route \/ ConvertTools
  BY <1>1 DEF BInv, Route, ConvertTools
<1>2. CASE Textualize
  <2>1. Sound(msgs)
    BY <1>2, RequestIsSound DEF BInv, Textualize
  <2>2. Sound(msgs')
    BY <1>2, <2>1, TextualizeSound
  <2> QED BY <1>2, <2>2 DEF BInv, Textualize
<1>3. CASE NormalizeRoles
  <2>1. Sound(msgs) /\ out = <<>>
    BY <1>3 DEF BInv, IInv, NormalizeRoles
  <2>2. Sound(msgs') /\ Sound(out)
    BY <1>3, <2>1, RolesSound, SoundRules
  <2> QED BY <1>3, <2>2 DEF BInv, NormalizeRoles
<1> QED BY <1>1, <1>2, <1>3

\* The shape of each step that moves messages about.
Moves == MergeRun \/ StartWithUser \/ Alternate \/ Split

\* The steps that merge, insert and split keep BInv, and shape the whole.
LEMMA BaseMoves ==
  ASSUME BInv, Moves, IInv
  PROVE  BInv' /\ Shaped(Whole, Whole') /\ Sound(Whole) /\ Sound(Whole')
<1>1. CASE MergeRun
  <2>1. Sound(out) /\ Sound(msgs) /\ Spoken(msgs, Speakers) /\ stage = "merge" /\ stage' = stage
    BY <1>1 DEF BInv, IInv, MergeRun
  <2>2. Sound(out') /\ Sound(msgs') /\ Shaped(out \o msgs, out' \o msgs')
    BY <1>1, <2>1, MergeShape
  <2> QED BY <2>1, <2>2, SoundRules DEF BInv, Whole
<1>2. CASE StartWithUser
  <2>1. Sound(out) /\ Sound(msgs) /\ Spoken(out, Speakers) /\ out # <<>>
        /\ stage = "merge" /\ stage' = "alternate"
    BY <1>2 DEF BInv, IInv, StartWithUser
  <2>2. Sound(out') /\ Sound(msgs') /\ Shaped(out \o msgs, out' \o msgs')
    BY <1>2, <2>1, StartShape
  <2> QED BY <2>1, <2>2, SoundRules DEF BInv, Whole
<1>3. CASE Alternate
  <2>1. Sound(out) /\ Sound(msgs) /\ Spoken(out, Speakers) /\ Spoken(msgs, Speakers)
        /\ stage = "alternate" /\ stage' = stage
    BY <1>3 DEF BInv, IInv, Alternate
  <2>2. Sound(out') /\ Sound(msgs') /\ Shaped(out \o msgs, out' \o msgs')
    BY <1>3, <2>1, AlternateShape
  <2> QED BY <2>1, <2>2, SoundRules DEF BInv, Whole
<1>4. CASE Split
  <2>1. Sound(out) /\ Sound(msgs) /\ Spoken(out, Speakers) /\ out # <<>> /\ history' = history
        /\ stage = "alternate" /\ stage' = "history" /\ history = <<>>
    BY <1>4 DEF BInv, IInv, Split
  <2>2. Sound(msgs') /\ WellMade(last') /\ last'.role = "user"
          /\ Shaped(out \o msgs, Append(msgs', last'))
    BY <1>4, <2>1, SplitShape
  <2>3. Spoken(msgs', Speakers)
    BY <1>4, SplitStep, <2>1 DEF IInv
  <2>4. Whole = out \o msgs /\ Whole' = Append(msgs', last')
    BY <2>1 DEF Whole
  <2>5. Sound(Whole) /\ Sound(Whole')
    BY <2>1, <2>2, <2>4, SoundRules
  <2>6. DOMAIN history' = {}
    BY <2>1
  <2>7. BInv'
    BY <2>1, <2>2, <2>3, <2>6 DEF BInv
  <2> QED BY <2>2, <2>4, <2>5, <2>7
<1> QED BY <1>1, <1>2, <1>3, <1>4 DEF Moves

\* A turn added to the history is the one of its message.
LEMMA BaseTurns ==
  ASSUME BInv, HistoryUser \/ HistoryAssistant, IInv
  PROVE  BInv'
<1> DEFINE i == Len(history) + 1
<1>1. /\ stage = "history" /\ stage' = stage /\ msgs' = msgs /\ last' = last /\ request' = request
      /\ IsSeq(history) /\ Len(history) \in Nat /\ DOMAIN history = 1..Len(history)
  BY IsSeqFacts DEF HistoryUser, HistoryAssistant, IInv
<1>2. history' = Append(history, TurnAt(msgs, i))
  <2>1. CASE HistoryUser
    <3>1. msgs[i].role = "user" /\
          history' = Append(history, Turn("user", ExtractText(msgs[i].content), <<>>,
                                        Reorder(Results(msgs[i].content), UsesBefore(i))))
      BY <2>1 DEF HistoryUser
    <3>2. UsesBefore(i) = UsesAt(msgs, i)
      BY DEF UsesBefore, UsesAt
    <3> HIDE DEF i
    <3> QED BY <3>1, <3>2 DEF TurnAt
  <2>2. CASE HistoryAssistant
    <3>1. msgs[i].role = "assistant" /\
          history' = Append(history, Turn("assistant", ExtractText(msgs[i].content),
                            SentUses(msgs[i].content), <<>>))
      BY <2>2 DEF HistoryAssistant, SentUses
    <3> HIDE DEF i
    <3> QED BY <3>1 DEF TurnAt
  <2> QED BY <2>1, <2>2
<1> HIDE DEF i
<1>3. /\ DOMAIN history' = 1..(Len(history) + 1) /\ history'[Len(history) + 1] = TurnAt(msgs, i)
      /\ \A k \in 1..Len(history) : history'[k] = history[k]
  <2>1. IsSeq(history') /\ Len(history') = Len(history) + 1
          /\ history'[Len(history) + 1] = TurnAt(msgs, i)
        /\ \A k \in 1..Len(history) : history'[k] = history[k]
    BY <1>1, <1>2, AppendIsSeq
  <2> QED BY <2>1, IsSeqFacts
<1>4. \A k \in 1..(Len(history) + 1) : k \in 1..Len(history) \/ k = Len(history) + 1
  BY <1>1
<1>5. \A k \in DOMAIN history' : history'[k] = TurnAt(msgs, k)
  BY <1>1, <1>3, <1>4 DEF BInv, i
<1> QED BY <1>1, <1>5 DEF BInv

\* The system prompt and the current message keep BInv.
LEMMA BaseLate ==
  ASSUME BInv, PlaceSystemPrompt \/ Finish, IInv
  PROVE  BInv'
<1>1. CASE PlaceSystemPrompt
  <2>1. /\ stage = "history" /\ stage' = "current" /\ msgs' = msgs /\ last' = last
             /\ request' = request
        /\ IsSeq(history) /\ Len(history) = Len(msgs) /\ Sound(msgs)
             /\ history' = Preface \o history
    BY <1>1 DEF PlaceSystemPrompt, IInv, BInv, Preface
  <2>2. DOMAIN history = 1..Len(history) /\ DOMAIN msgs = 1..Len(msgs)
    BY <2>1, IsSeqFacts DEF Sound
  <2>3. history = [k \in DOMAIN history |-> history[k]]
    BY <2>1 DEF IsSeq
  <2>4. \A k \in DOMAIN history : history[k] = TurnAt(msgs, k)
    BY <2>1 DEF BInv
  <2>5. history = TurnsOf(msgs)
    BY <2>1, <2>2, <2>3, <2>4 DEF TurnsOf
  <2>6. history' = (Preface \o TurnsOf(msgs))'
    BY <2>1, <2>5 DEF Preface
  <2> QED BY <2>1, <2>6 DEF BInv
<1>2. CASE Finish
  <2> DEFINE text    == ExtractText(last.content)
             results == Reorder(Results(last.content), UsesAt(msgs, Len(msgs) + 1))
  <2>1. UsesBefore(Len(msgs) + 1) = UsesAt(msgs, Len(msgs) + 1)
    BY DEF UsesBefore, UsesAt
  <2>2. current' = [text     |-> IF IsEmpty(text)
          /\ results = <<>> THEN <<SyntheticContinue>> ELSE text,
                    results  |-> results,
                    images   |-> Attached(Pictured(last.content)),
                    tools    |-> entries]
    BY <1>2, <2>1 DEF Finish
  <2>3. /\ stage = "current" /\ stage' = "sent" /\ msgs' = msgs /\ last' = last
             /\ request' = request
        /\ entries' = entries /\ history' = history
    BY <1>2 DEF Finish
  <2> HIDE DEF text, results
  <2>4. /\ current'.results = results /\ current'.tools = entries
        /\ current'.images = Attached(Pictured(last.content))
        /\ current'.text = IF IsEmpty(text) /\ results = <<>> THEN <<SyntheticContinue>> ELSE text
    BY <2>2
  <2> QED BY <2>3, <2>4 DEF BInv, Preface, text, results
<1> QED BY <1>1, <1>2

\* BInv is an invariant.
LEMMA BaseInvariance == Spec => []BInv
<1>1. Init => BInv
  BY DEF Init, BInv
<1>2. BInv /\ IInv /\ [Next]_vars => BInv'
  <2> SUFFICES ASSUME BInv, IInv, [Next]_vars PROVE BInv'
    OBVIOUS
  <2>1. CASE Reject \/ RefuseImages
    BY <2>1 DEF Reject, RefuseImages, BInv
  <2>2. CASE Route \/ ConvertTools \/ Textualize \/ NormalizeRoles
    BY <2>2, BaseEarly
  <2>3. CASE Moves
    BY <2>3, BaseMoves
  <2>4. CASE HistoryUser \/ HistoryAssistant
    BY <2>4, BaseTurns
  <2>5. CASE PlaceSystemPrompt \/ Finish
    BY <2>5, BaseLate
  <2>6. CASE UNCHANGED vars
    BY <2>6 DEF vars, BInv, Preface
  <2> QED BY <2>1, <2>2, <2>3, <2>4, <2>5, <2>6 DEF Next, Done, Moves
<1> QED BY <1>1, <1>2, Invariance, PTL DEF Spec

\* After the passes over single messages, what is to be sent changes only as Shaped says.
LEMMA WholeMoves ==
  ASSUME BInv, IInv, [Next]_vars, stage \in {"merge", "alternate", "history", "current", "sent"},
         stage' # "refused"
  PROVE  Shaped(Whole, Whole') /\ Sound(Whole) /\ Sound(Whole') /\ entries' = entries
           /\ request' = request
         /\ stage' \in {"merge", "alternate", "history", "current", "sent"}
<1>1. CASE Moves
  BY <1>1, BaseMoves DEF Moves, MergeRun, StartWithUser, Alternate, Split
<1>2. CASE HistoryUser \/ HistoryAssistant \/ PlaceSystemPrompt \/ Finish \/ UNCHANGED vars
  <2>1. Whole' = Whole /\ entries' = entries /\ request' = request
        /\ stage' \in {"merge", "alternate", "history", "current", "sent"}
    BY <1>2 DEF HistoryUser, HistoryAssistant, PlaceSystemPrompt, Finish, vars, Whole
  <2>2. Sound(Whole)
    BY SoundRules DEF BInv, Whole
  <2> QED BY <2>1, <2>2 DEF Shaped
<1>3. ~(Reject \/ RefuseImages \/ Route \/ ConvertTools \/ Textualize \/ NormalizeRoles)
  BY DEF Reject, RefuseImages, Route, ConvertTools, Textualize, NormalizeRoles
<1> QED BY <1>1, <1>2, <1>3 DEF Next, Done, Moves

-----------------------------------------------------------------------------
(* Results and the uses they answer.                                       *)

Answers(m) == {b.id : b \in {c \in ToSet(m.content) : IsToolResult(c)}}
Asks(m)    == {b.id : b \in {c \in ToSet(m.content) : IsToolUse(c)}}
NoTools(m) == \A b \in ToSet(m.content) : ~IsToolUse(b) /\ ~IsToolResult(b)

\* A user's results are those of uses in the assistant's message right before.
PairedAt(seq, i) ==
  seq[i].role # "assistant" /\ Answers(seq[i]) # {} =>
    i > 1 /\ seq[i - 1].role = "assistant" /\ Answers(seq[i]) \subseteq Asks(seq[i - 1])

Paired(seq) == \A i \in 1..Len(seq) : PairedAt(seq, i)

\* A message without tool content neither answers nor asks.
LEMMA NoToolsIs == \A m : NoTools(m) => Answers(m) = {} /\ Asks(m) = {}
  BY DEF NoTools, Answers, Asks

\* Plain text has no tool content.
LEMMA PlainIsNoTools ==
  ASSUME NEW m, IsPlainText(m)
  PROVE  NoTools(m)
<1>1. \A b \in ToSet(m.content) : b.kind = "text"
  BY DEF IsPlainText, ToSet
<1> QED BY <1>1 DEF NoTools, IsToolUse, IsToolResult

\* A synthetic message has no tool content.
LEMMA SaysIsNoTools == \A role, p : NoTools(Says(role, p))
  BY SaysIsSound, PlainIsNoTools

\* The elements of three sequences in a row.
LEMMA ThreeInARow ==
  ASSUME NEW a, NEW x, NEW b, IsSeq(a), IsSeq(x), IsSeq(b)
  PROVE  LET s == (a \o x) \o b
         IN /\ IsSeq(s) /\ Len(s) = Len(a) + Len(x) + Len(b)
            /\ Len(a) \in Nat /\ Len(x) \in Nat /\ Len(b) \in Nat
            /\ ToSet(s) = (ToSet(a) \cup ToSet(x)) \cup ToSet(b)
            /\ \A i \in 1..Len(a) : s[i] = a[i]
            /\ \A i \in 1..Len(x) : s[Len(a) + i] = x[i]
            /\ \A i \in 1..Len(b) : s[Len(a) + Len(x) + i] = b[i]
<1> DEFINE y == a \o x
           s == y \o b
<1>1. Len(a) \in Nat /\ Len(x) \in Nat /\ Len(b) \in Nat
  BY IsSeqFacts
<1>2. /\ IsSeq(y) /\ Len(y) = Len(a) + Len(x) /\ ToSet(y) = ToSet(a) \cup ToSet(x)
      /\ \A i \in 1..Len(y) : y[i] = IF i <= Len(a) THEN a[i] ELSE x[i - Len(a)]
  BY ConcatIsSeq, ConcatElements
<1> HIDE DEF y
<1>3. /\ IsSeq(s) /\ Len(s) = Len(y) + Len(b) /\ ToSet(s) = ToSet(y) \cup ToSet(b)
      /\ \A i \in 1..Len(s) : s[i] = IF i <= Len(y) THEN y[i] ELSE b[i - Len(y)]
  BY <1>2, ConcatIsSeq, ConcatElements
<1> HIDE DEF s
<1>4. ASSUME NEW i \in 1..Len(a) PROVE s[i] = a[i]
  <2>1. i \in 1..Len(s) /\ i <= Len(y) /\ i \in 1..Len(y) /\ i <= Len(a)
    BY <1>1, <1>2, <1>3
  <2> QED BY <1>2, <1>3, <2>1
<1>5. ASSUME NEW i \in 1..Len(x) PROVE s[Len(a) + i] = x[i]
  <2>1. /\ Len(a) + i \in 1..Len(s) /\ Len(a) + i <= Len(y) /\ Len(a) + i \in 1..Len(y)
        /\ ~(Len(a) + i <= Len(a)) /\ (Len(a) + i) - Len(a) = i
    BY <1>1, <1>2, <1>3
  <2> QED BY <1>2, <1>3, <2>1
<1>6. ASSUME NEW i \in 1..Len(b) PROVE s[Len(a) + Len(x) + i] = b[i]
  <2>1. /\ Len(a) + Len(x) + i \in 1..Len(s) /\ ~(Len(a) + Len(x) + i <= Len(y))
        /\ (Len(a) + Len(x) + i) - Len(y) = i
    BY <1>1, <1>2, <1>3
  <2> QED BY <1>3, <2>1
<1> QED BY <1>1, <1>2, <1>3, <1>4, <1>5, <1>6 DEF s, y

\* One message x in the place of what was between a and b: what is paired stays
\* so when x has no results and b does not begin with results.
LEMMA OneBetween ==
  ASSUME NEW a, NEW mid, NEW x, NEW b, IsSeq(a), IsSeq(mid), IsSeq(b),
         Paired((a \o mid) \o b), Answers(x) = {},
         b # <<>> => b[1].role = "assistant" \/ Answers(b[1]) = {}
  PROVE  Paired((a \o <<x>>) \o b)
<1> DEFINE one == <<x>>
           old == (a \o mid) \o b
           new == (a \o one) \o b
           n   == Len(a)
           k   == Len(mid)
<1>1. IsSeq(one) /\ Len(one) = 1 /\ one[1] = x
  BY OneIsSeq
<1> HIDE DEF one
<1>2. /\ Len(old) = n + k + Len(b) /\ n \in Nat /\ k \in Nat /\ Len(b) \in Nat
      /\ \A i \in 1..n : old[i] = a[i]
      /\ \A i \in 1..Len(b) : old[n + k + i] = b[i]
  BY ThreeInARow
<1>3. /\ Len(new) = n + 1 + Len(b) /\ new[n + 1] = x
      /\ \A i \in 1..n : new[i] = a[i]
      /\ \A i \in 1..Len(b) : new[n + 1 + i] = b[i]
  <2>1. /\ Len(new) = n + Len(one) + Len(b)
        /\ \A i \in 1..n : new[i] = a[i]
        /\ \A i \in 1..Len(one) : new[n + i] = one[i]
        /\ \A i \in 1..Len(b) : new[n + Len(one) + i] = b[i]
    <3>1. IsSeq(one)
      BY <1>1
    <3> QED BY <3>1, ThreeInARow
  <2>2. 1 \in 1..Len(one)
    BY <1>1
  <2> HIDE DEF new, n
  <2> QED BY <1>1, <2>1, <2>2
<1>4. \A i \in 1..Len(old) : PairedAt(old, i)
  BY DEF Paired
<1> HIDE DEF old, new, n, k
<1>5. ASSUME NEW i \in 1..n PROVE PairedAt(new, i)
  <2>1. i \in 1..Len(old) /\ new[i] = old[i]
    BY <1>2, <1>3
  <2>2. i > 1 => i - 1 \in 1..n /\ new[i - 1] = old[i - 1]
    BY <1>2, <1>3
  <2>3. PairedAt(old, i)
    BY <1>4, <2>1
  <2> QED BY <2>1, <2>2, <2>3 DEF PairedAt
<1>6. PairedAt(new, n + 1)
  BY <1>3 DEF PairedAt
<1>7. ASSUME NEW j \in 1..Len(b) PROVE PairedAt(new, n + 1 + j)
  <2>1. /\ n + k + j \in 1..Len(old) /\ new[n + 1 + j] = b[j] /\ old[n + k + j] = b[j]
        /\ n + 1 + j > 1
    BY <1>2, <1>3
  <2>2. CASE j = 1
    <3>1. b # <<>>
      BY <2>2, IsSeqFacts
    <3> QED BY <2>1, <2>2, <3>1 DEF PairedAt
  <2>3. CASE j # 1
    <3>1. j - 1 \in 1..Len(b) /\ (n + 1 + j) - 1 = n + 1 + (j - 1)
            /\ (n + k + j) - 1 = n + k + (j - 1)
      BY <1>2, <2>3
    <3>2. new[(n + 1 + j) - 1] = b[j - 1] /\ old[(n + k + j) - 1] = b[j - 1]
      BY <1>2, <1>3, <3>1
    <3>3. PairedAt(old, n + k + j)
      BY <1>4, <2>1
    <3> QED BY <2>1, <3>2, <3>3 DEF PairedAt
  <2> QED BY <2>2, <2>3
<1>8. ASSUME NEW i \in 1..Len(new) PROVE PairedAt(new, i)
  <2>1. i \in 1..n \/ i = n + 1 \/ (i - (n + 1) \in 1..Len(b) /\ i = n + 1 + (i - (n + 1)))
    BY <1>2, <1>3
  <2> QED BY <1>5, <1>6, <1>7, <2>1
<1> QED BY <1>8 DEF Paired, new, one

\* An inserted message never stands between a use and its result.
LEMMA InsertKeepsPairs ==
  ASSUME NEW old, NEW new, Inserts(old, new), Paired(old)
  PROVE  Paired(new)
<1>1. PICK a, b, role, p :
        /\ Sound(a) /\ Sound(b)
        /\ old = a \o b /\ new = (a \o <<Says(role, p)>>) \o b
        /\ a # <<>> /\ b # <<>> => a[Len(a)].role = b[1].role
  BY DEF Inserts
<1>2. /\ IsSeq(a) /\ IsSeq(b) /\ Len(a) \in Nat /\ Len(b) \in Nat /\ a \o <<>> = a
      /\ (a = <<>> <=> Len(a) = 0) /\ (b = <<>> <=> Len(b) = 0)
  BY <1>1, IsSeqFacts, ConcatNothing DEF Sound
<1>3. Paired((a \o <<>>) \o b)
  BY <1>1, <1>2
<1>4. b # <<>> => b[1].role = "assistant" \/ Answers(b[1]) = {}
  <2> SUFFICES ASSUME b # <<>>, b[1].role # "assistant", Answers(b[1]) # {} PROVE FALSE
    OBVIOUS
  <2>1. /\ Len(old) = Len(a) + Len(b) /\ Len(b) > 0 /\ old[Len(a) + 1] = b[1]
        /\ (Len(a) > 0 => old[Len(a)] = a[Len(a)])
    <3>1. /\ IsSeq(a \o b) /\ Len(a \o b) = Len(a) + Len(b)
          /\ \A i \in 1..Len(a \o b) : (a \o b)[i] = IF i <= Len(a) THEN a[i] ELSE b[i - Len(a)]
      BY <1>2, ConcatIsSeq
    <3>2. Len(b) > 0 /\ Len(a) + 1 \in 1..(Len(a) + Len(b)) /\ ~(Len(a) + 1 <= Len(a))
          /\ (Len(a) + 1) - Len(a) = 1 /\ (Len(a) > 0 => Len(a) \in 1..(Len(a) + Len(b)))
      BY <1>2
    <3> DEFINE s == a \o b
    <3>3. old = s
      BY <1>1
    <3> HIDE DEF s
    <3>4. Len(s) = Len(a) + Len(b)
            /\ \A i \in 1..Len(s) : s[i] = IF i <= Len(a) THEN a[i] ELSE b[i - Len(a)]
      BY <3>1 DEF s
    <3> QED BY <3>2, <3>3, <3>4
  <2>2. PairedAt(old, Len(a) + 1)
    <3>1. Len(a) + 1 \in 1..Len(old)
      BY <1>2, <2>1
    <3> QED BY <3>1 DEF Paired
  <2>3. Len(a) + 1 > 1 /\ old[(Len(a) + 1) - 1].role = "assistant"
    BY <2>1, <2>2 DEF PairedAt
  <2>4. Len(a) > 0 /\ (Len(a) + 1) - 1 = Len(a) /\ a # <<>>
    BY <1>2, <2>3
  <2> QED BY <1>1, <2>1, <2>3, <2>4
<1>5. Answers(Says(role, p)) = {}
  BY SaysIsNoTools, NoToolsIs
<1> DEFINE x == Says(role, p)
<1>6. Answers(x) = {} /\ new = (a \o <<x>>) \o b /\ IsSeq(<<>>)
  BY <1>1, <1>5, EmptyIsSeq
<1> HIDE DEF x
<1> QED BY <1>2, <1>3, <1>4, <1>6, OneBetween

\* A joined run never stood between a use and its result.
LEMMA JoinKeepsPairs ==
  ASSUME NEW old, NEW new, Joins(old, new), Paired(old)
  PROVE  Paired(new)
<1>1. PICK a, run, b :
        /\ Sound(a) /\ Sound(run) /\ Sound(b)
        /\ old = (a \o run) \o b /\ new = (a \o <<Joined(run)>>) \o b
        /\ Len(run) > 1 /\ \A m \in ToSet(run) : IsPlainText(m)
  BY DEF Joins
<1>2. IsSeq(a) /\ IsSeq(b) /\ IsSeq(run) /\ Len(run) \in Nat /\ Len(b) \in Nat /\ Len(a) \in Nat
      /\ (b = <<>> <=> Len(b) = 0)
  BY <1>1, IsSeqFacts DEF Sound
<1>3. Answers(Joined(run)) = {}
  BY <1>1, JoinedIsSound, PlainIsNoTools, NoToolsIs
<1>4. b # <<>> => b[1].role = "assistant" \/ Answers(b[1]) = {}
  <2> SUFFICES ASSUME b # <<>>, b[1].role # "assistant", Answers(b[1]) # {} PROVE FALSE
    OBVIOUS
  <2> DEFINE n == Len(a) + Len(run)
  <2>1. /\ Len(old) = n + Len(b) /\ old[n + 1] = b[1] /\ old[n] = run[Len(run)]
    <3>1. 1 \in 1..Len(b) /\ Len(run) \in 1..Len(run)
      BY <1>1, <1>2
    <3> QED BY <1>1, <1>2, <3>1, ThreeInARow
  <2>2. n + 1 \in 1..Len(old) /\ (n + 1) - 1 = n
    BY <1>2, <2>1
  <2> HIDE DEF n
  <2>3. PairedAt(old, n + 1)
    BY <2>2 DEF Paired
  <2>4. Answers(b[1]) \subseteq Asks(run[Len(run)])
    BY <2>1, <2>2, <2>3 DEF PairedAt
  <2>5. run[Len(run)] \in ToSet(run)
    <3>1. Len(run) \in 1..Len(run) /\ ToSet(run) = {run[i] : i \in 1..Len(run)}
      BY <1>1, <1>2, ElementsOf
    <3> QED BY <3>1
  <2>6. Asks(run[Len(run)]) = {}
    BY <1>1, <2>5, PlainIsNoTools, NoToolsIs
  <2> QED BY <2>4, <2>6
<1> DEFINE x == Joined(run)
<1>5. Answers(x) = {} /\ new = (a \o <<x>>) \o b
  BY <1>1, <1>3
<1> HIDE DEF x
<1>6. Paired((a \o run) \o b)
  BY <1>1
<1> QED BY <1>2, <1>4, <1>5, <1>6, OneBetween

\* No step that shapes the whole parts a use from its result.
LEMMA ShapedKeepsPairs ==
  ASSUME NEW old, NEW new, Shaped(old, new), Paired(old)
  PROVE  Paired(new)
  BY InsertKeepsPairs, JoinKeepsPairs DEF Shaped

\* No step that shapes the whole adds tool content.
LEMMA ShapedAddsPlain ==
  ASSUME NEW old, NEW new, Shaped(old, new)
  PROVE  \A m \in ToSet(new) : m \in ToSet(old) \/ (IsPlainText(m) /\ NoTools(m))
<1>1. CASE Inserts(old, new)
  <2>1. PICK a, b, role, p :
          Sound(a) /\ Sound(b) /\ old = a \o b /\ new = (a \o <<Says(role, p)>>) \o b
    BY <1>1 DEF Inserts
  <2> DEFINE one == <<Says(role, p)>>
  <2>2. IsSeq(one) /\ ToSet(one) = {Says(role, p)} /\ NoTools(Says(role, p))
        /\ IsPlainText(Says(role, p))
    BY OneIsSeq, SaysIsNoTools, SaysIsSound
  <2>3. IsSeq(a) /\ IsSeq(b) /\ new = (a \o one) \o b
    BY <2>1 DEF Sound
  <2> HIDE DEF one
  <2>4. ToSet(new) = (ToSet(a) \cup ToSet(one)) \cup ToSet(b)
    BY <2>2, <2>3, ThreeInARow
  <2>5. ToSet(old) = ToSet(a) \cup ToSet(b)
    BY <2>1, <2>3, ConcatElements
  <2> QED BY <2>2, <2>4, <2>5
<1>2. CASE Joins(old, new)
  <2>1. PICK a, run, b :
          /\ Sound(a) /\ Sound(run) /\ Sound(b)
          /\ old = (a \o run) \o b /\ new = (a \o <<Joined(run)>>) \o b
    BY <1>2, ZenonT(30) DEF Joins
  <2> DEFINE one == <<Joined(run)>>
  <2>2. IsSeq(one) /\ ToSet(one) = {Joined(run)} /\ NoTools(Joined(run))
        /\ IsPlainText(Joined(run))
    BY <2>1, OneIsSeq, JoinedIsSound, PlainIsNoTools
  <2>3. IsSeq(a) /\ IsSeq(run) /\ IsSeq(b) /\ new = (a \o one) \o b
    BY <2>1 DEF Sound
  <2> HIDE DEF one
  <2>4. ToSet(new) = (ToSet(a) \cup ToSet(one)) \cup ToSet(b)
    BY <2>2, <2>3, ThreeInARow
  <2>5. ToSet(old) = (ToSet(a) \cup ToSet(run)) \cup ToSet(b)
    BY <2>1, <2>3, ThreeInARow
  <2> QED BY <2>2, <2>4, <2>5
<1> QED BY <1>1, <1>2 DEF Shaped

\* The blocks of one kind, as a set keeps them.
LEMMA UsesAre ==
  ASSUME NEW c, IsSeq(c)
  PROVE  /\ IsSeq(ToolUses(c)) /\ ToSet(ToolUses(c)) = {b \in ToSet(c) : IsToolUse(b)}
         /\ ToolUses(c) = Kept(c, {b \in ToSet(c) : IsToolUse(b)})
         /\ ToolUseIds(c) = Idents(ToolUses(c))
<1> DEFINE T == {b \in ToSet(c) : IsToolUse(b)}
<1>1. \A i \in DOMAIN c : c[i] \in T <=> IsToolUse(c[i])
  BY DEF ToSet
<1> HIDE DEF T
<1>2. [i \in DOMAIN c |-> IF IsToolUse(c[i]) THEN <<c[i]>> ELSE <<>>]
        = [i \in DOMAIN c |-> IF c[i] \in T THEN <<c[i]>> ELSE <<>>]
  BY <1>1
<1>3. ToolUses(c) = Kept(c, T)
  BY <1>2, Zenon DEF ToolUses, Keep, Kept
<1>4. T \subseteq ToSet(c)
  BY DEF T
<1>5. IsSeq(ToolUses(c)) /\ ToSet(ToolUses(c)) = T
  BY <1>3, <1>4, KeptIsSeq
<1> QED BY <1>3, <1>5 DEF ToolUseIds, Idents, T

\* The result blocks of a content and what the payload gets of them.
LEMMA ResultsAre ==
  ASSUME NEW c, IsSeq(c)
  PROVE  /\ IsSeq(ResultBlocks(c)) /\ ToSet(ResultBlocks(c)) = {b \in ToSet(c) : IsToolResult(b)}
         /\ ResultBlocks(c) = Kept(c, {b \in ToSet(c) : IsToolResult(b)})
         /\ IsSeq(Results(c)) /\ Len(Results(c)) = Len(ResultBlocks(c))
         /\ \A k \in 1..Len(ResultBlocks(c)) : Results(c)[k] = Result(ResultBlocks(c)[k])
         /\ IdSet(Results(c)) = {b.id : b \in {x \in ToSet(c) : IsToolResult(x)}}
<1> DEFINE T == {b \in ToSet(c) : IsToolResult(b)}
           B == ResultBlocks(c)
           R == Results(c)
<1>1. \A i \in DOMAIN c : c[i] \in T <=> IsToolResult(c[i])
  BY DEF ToSet
<1> HIDE DEF T
<1>2. [i \in DOMAIN c |-> IF IsToolResult(c[i]) THEN <<c[i]>> ELSE <<>>]
        = [i \in DOMAIN c |-> IF c[i] \in T THEN <<c[i]>> ELSE <<>>]
  BY <1>1
<1>3. B = Kept(c, T)
  BY <1>2, Zenon DEF ResultBlocks, Keep, Kept
<1>4. T \subseteq ToSet(c)
  BY DEF T
<1>5. IsSeq(B) /\ ToSet(B) = T
  BY <1>3, <1>4, KeptIsSeq
<1>6. R = [k \in DOMAIN B |-> R[k]] /\ DOMAIN R = DOMAIN B
        /\ \A k \in DOMAIN B : R[k] = Result(B[k])
  BY DEF Results
<1>7. \A b : Result(b).id = b.id
  BY DEF Result
<1> HIDE DEF B, R
<1>8. IsSeq(R) /\ Len(R) = Len(B) /\ DOMAIN B = 1..Len(B)
  BY <1>5, <1>6, MapIsSeq, IsSeqFacts
<1>9. ToSet(R) = {R[k] : k \in DOMAIN B} /\ ToSet(B) = {B[k] : k \in DOMAIN B}
  BY <1>6 DEF ToSet
<1>10. IdSet(R) = {b.id : b \in T}
  <2>1. \A k \in DOMAIN B : R[k].id = B[k].id
    BY <1>6, <1>7
  <2>2. {x.id : x \in ToSet(R)} = {x.id : x \in ToSet(B)}
    BY <1>9, <2>1
  <2> QED BY <1>5, <2>2 DEF IdSet
<1> QED BY <1>3, <1>5, <1>6, <1>8, <1>10 DEF B, R, T

\* The ids of the uses of a message, as a sequence and as a set.
LEMMA AsksAre ==
  ASSUME NEW m, IsSeq(m.content)
  PROVE  IsSeq(ToolUseIds(m.content)) /\ ToSet(ToolUseIds(m.content)) = Asks(m)
<1>1. /\ IsSeq(ToolUses(m.content)) /\ ToolUseIds(m.content) = Idents(ToolUses(m.content))
      /\ ToSet(ToolUses(m.content)) = {b \in ToSet(m.content) : IsToolUse(b)}
  BY UsesAre
<1> QED BY <1>1, IdentsAre DEF Asks, IdSet

\* The results under a role the API does not know are not looked at.
PlainOthers(r) == \A m \in ToSet(r.messages) : m.role # "other" \/ IsPlainText(m)

\* TextualizeAll leaves no tool content.
LEMMA AllTextHasNoTools ==
  ASSUME NEW m, WellMade(m)
  PROVE  NoTools(TextualizeAll(m))
<1> DEFINE c == m.content
           d == AllText(c)
<1>1. IsSeq(c) /\ \A i \in DOMAIN c : IsSeq(c[i].pieces)
  BY DEF WellMade, ToSet
<1>2. DOMAIN d = DOMAIN c
      /\ \A i \in DOMAIN c : d[i] = IF IsToolUse(c[i]) THEN TextBlock(<<Piece("use", c[i].id)>>)
                                    ELSE IF IsToolResult(c[i]) THEN AsResultText(c[i]) ELSE c[i]
  BY DEF AllText
<1>3. TextualizeAll(m).content = d
  BY AllTextIs
<1> HIDE DEF d
<1>4. ASSUME NEW i \in DOMAIN c PROVE ~IsToolUse(d[i]) /\ ~IsToolResult(d[i])
  <2>1. CASE IsToolUse(c[i])
    <3> DEFINE t == <<Piece("use", c[i].id)>>
    <3>1. d[i] = TextBlock(t)
      BY <1>2, <2>1
    <3> HIDE DEF t
    <3> QED BY <3>1, TextBlockIs
  <2>2. CASE ~IsToolUse(c[i]) /\ IsToolResult(c[i])
    <3> DEFINE b == c[i]
    <3>1. d[i] = AsResultText(b) /\ IsSeq(b.pieces)
      BY <1>1, <1>2, <2>2
    <3> HIDE DEF b
    <3> QED BY <3>1, AsTextIs
  <2>3. CASE ~IsToolUse(c[i]) /\ ~IsToolResult(c[i])
    BY <1>2, <2>3
  <2> QED BY <2>1, <2>2, <2>3
<1> QED BY <1>2, <1>3, <1>4 DEF NoTools, ToSet

\* What stays a result after the orphans have become text answers the message before.
LEMMA OrphansTextPairs ==
  ASSUME NEW seq, NEW i, WellMade(seq[i]), seq[i].role = "user"
  PROVE  Answers(TextualizeOrphans(seq, i)) \subseteq PrecedingIds(seq, i)
<1> DEFINE c == seq[i].content
           ids == PrecedingIds(seq, i)
           d == OrphansText(c, ids)
<1>1. \A k \in DOMAIN c : IsSeq(c[k].pieces)
  BY DEF WellMade, ToSet
<1>2. DOMAIN d = DOMAIN c
      /\ \A k \in DOMAIN c : d[k] = IF IsToolResult(c[k]) /\ c[k].id \notin ids
                                    THEN AsResultText(c[k]) ELSE c[k]
  BY DEF OrphansText
<1>3. TextualizeOrphans(seq, i).content = d
  BY OrphansTextIs
<1> HIDE DEF d, ids
<1>4. ASSUME NEW k \in DOMAIN c, IsToolResult(d[k]) PROVE d[k].id \in ids
  <2>1. CASE IsToolResult(c[k]) /\ c[k].id \notin ids
    <3> DEFINE b == c[k]
    <3>1. d[k] = AsResultText(b) /\ IsSeq(b.pieces)
      BY <1>1, <1>2, <2>1
    <3> HIDE DEF b
    <3> QED BY <1>4, <3>1, AsTextIs
  <2>2. CASE ~(IsToolResult(c[k]) /\ c[k].id \notin ids)
    BY <1>2, <1>4, <2>2
  <2> QED BY <2>1, <2>2
<1> QED BY <1>2, <1>3, <1>4 DEF Answers, ToSet, ids

\* After Textualize every result has its use right before, and without tools there is none.
LEMMA TextualizeFits ==
  ASSUME Sound(msgs), Textualize, request \in Requests, msgs = request.messages
  PROVE  /\ PlainOthers(request) => Paired(msgs')
         /\ entries = <<>> => \A m \in ToSet(msgs') : NoTools(m)
<1>1. /\ Sound(msgs') /\ Len(msgs') = Len(msgs)
      /\ \A i \in 1..Len(msgs) :
           /\ WellMade(msgs[i])
           /\ msgs'[i] = IF entries = <<>> THEN TextualizeAll(msgs[i])
                         ELSE TextualizeOrphans(msgs, i)
  BY TextualizeSound
<1>2. entries = <<>> => \A i \in 1..Len(msgs) : NoTools(msgs'[i])
  BY <1>1, AllTextHasNoTools
<1>3. ToSet(msgs') = {msgs'[i] : i \in 1..Len(msgs)}
  BY <1>1, ElementsOf DEF Sound
<1>4. ASSUME PlainOthers(request), NEW i \in 1..Len(msgs), msgs'[i].role # "assistant",
             Answers(msgs'[i]) # {}
      PROVE  i > 1 /\ msgs'[i - 1].role = "assistant"
               /\ Answers(msgs'[i]) \subseteq Asks(msgs'[i - 1])
  <2>1. entries # <<>>
    BY <1>2, <1>4, NoToolsIs
  <2>2. msgs'[i] = TextualizeOrphans(msgs, i) /\ WellMade(msgs[i]) /\ msgs[i] \in ToSet(msgs)
    <3>1. ToSet(msgs) = {msgs[k] : k \in 1..Len(msgs)}
      BY ElementsOf DEF Sound
    <3> QED BY <1>1, <2>1, <3>1
  <2>3. msgs'[i].role = msgs[i].role /\ msgs[i].role \in Roles
    <3>1. msgs[i].role \in Roles
      BY <2>2, RequestsAssumption
    <3> QED BY <2>2, <3>1, OrphansTextIs
  <2>4. msgs[i].role # "other"
    <3> SUFFICES ASSUME msgs[i].role = "other" PROVE FALSE
      OBVIOUS
    <3>1. IsPlainText(msgs[i])
      BY <1>4, <2>2 DEF PlainOthers
    <3>2. msgs'[i] = msgs[i]
      BY <2>2 DEF TextualizeOrphans
    <3> QED BY <1>4, <3>1, <3>2, PlainIsNoTools, NoToolsIs
  <2>5. msgs[i].role = "user"
    BY <1>4, <2>3, <2>4 DEF Roles
  <2>6. Answers(msgs'[i]) \subseteq PrecedingIds(msgs, i)
    BY <2>2, <2>5, OrphansTextPairs
  <2>7. i > 1 /\ msgs[i - 1].role = "assistant"
        /\ PrecedingIds(msgs, i) = ToSet(ToolUseIds(msgs[i - 1].content))
    BY <1>4, <2>6 DEF PrecedingIds
  <2>8. i - 1 \in 1..Len(msgs)
    BY <2>7
  <2>9. msgs'[i - 1] = msgs[i - 1]
    <3>1. msgs'[i - 1] = TextualizeOrphans(msgs, i - 1)
      BY <1>1, <2>1, <2>8
    <3> QED BY <2>7, <3>1 DEF TextualizeOrphans
  <2>10. ToSet(ToolUseIds(msgs[i - 1].content)) = Asks(msgs[i - 1])
    <3> DEFINE m == msgs[i - 1]
    <3>1. IsSeq(m.content)
      BY <1>1, <2>8 DEF WellMade
    <3> HIDE DEF m
    <3>2. ToSet(ToolUseIds(m.content)) = Asks(m)
      BY <3>1, AsksAre
    <3> QED BY <3>2 DEF m
  <2> QED BY <2>6, <2>7, <2>9, <2>10
<1>5. PlainOthers(request) => Paired(msgs')
  BY <1>1, <1>4 DEF Paired, PairedAt
<1> QED BY <1>2, <1>3, <1>5

\* NormalizeRoles keeps both.
LEMMA RolesFit ==
  ASSUME Sound(msgs), NormalizeRoles
  PROVE  /\ Paired(msgs) => Paired(msgs')
         /\ (\A m \in ToSet(msgs) : NoTools(m)) => \A m \in ToSet(msgs') : NoTools(m)
<1>1. /\ Sound(msgs') /\ Len(msgs') = Len(msgs) /\ Len(msgs) \in Nat
      /\ \A i \in 1..Len(msgs) :
           /\ msgs'[i].content = msgs[i].content
           /\ msgs'[i].role = IF msgs[i].role = "other" THEN "user" ELSE msgs[i].role
  BY RolesSound, IsSeqFacts DEF Sound
<1>2. ToSet(msgs') = {msgs'[i] : i \in 1..Len(msgs)} /\ ToSet(msgs) = {msgs[i] : i \in 1..Len(msgs)}
  BY <1>1, ElementsOf DEF Sound
<1>3. \A i \in 1..Len(msgs) : /\ Answers(msgs'[i]) = Answers(msgs[i])
                              /\ Asks(msgs'[i]) = Asks(msgs[i])
                              /\ NoTools(msgs'[i]) <=> NoTools(msgs[i])
                              /\ msgs'[i].role = "assistant" <=> msgs[i].role = "assistant"
  BY <1>1 DEF Answers, Asks, NoTools
<1>4. ASSUME Paired(msgs), NEW i \in 1..Len(msgs) PROVE PairedAt(msgs', i)
  <2>1. PairedAt(msgs, i)
    BY <1>4 DEF Paired
  <2>2. i > 1 => i - 1 \in 1..Len(msgs)
    BY <1>1
  <2> QED BY <1>3, <2>1, <2>2 DEF PairedAt
<1>5. Paired(msgs) => Paired(msgs')
  BY <1>1, <1>4 DEF Paired
<1> QED BY <1>2, <1>3, <1>5

\* What is to be sent keeps each result behind its use.
PInv ==
  stage \in {"roles", "merge", "alternate", "history", "current", "sent"} =>
    /\ PlainOthers(request) => Paired(Whole)
    /\ entries = <<>> => \A m \in ToSet(Whole) : NoTools(m)

\* PInv is an invariant.
LEMMA PairsInvariance == Spec => []PInv
<1>1. Init => PInv
  BY DEF Init, PInv
<1>2. PInv /\ BInv /\ IInv /\ [Next]_vars => PInv'
  <2> SUFFICES ASSUME PInv, BInv, IInv, [Next]_vars PROVE PInv'
    OBVIOUS
  <2>1. CASE Reject \/ RefuseImages \/ Route \/ ConvertTools
    BY <2>1 DEF Reject, RefuseImages, Route, ConvertTools, PInv
  <2>2. CASE Textualize
    <3>1. /\ request \in Requests /\ msgs = request.messages /\ stage' = "roles"
          /\ entries' = entries /\ request' = request
      BY <2>2 DEF BInv, Textualize
    <3>2. Sound(msgs)
      BY <3>1, RequestIsSound
    <3> QED BY <2>2, <3>1, <3>2, TextualizeFits DEF PInv, Whole
  <2>3. CASE NormalizeRoles
    <3>1. /\ Sound(msgs) /\ out = <<>> /\ out' = out /\ stage = "roles" /\ stage' = "merge"
          /\ entries' = entries /\ request' = request
      BY <2>3 DEF BInv, IInv, NormalizeRoles
    <3>2. Sound(msgs')
      BY <2>3, <3>1, RolesSound
    <3>3. Whole = msgs /\ Whole' = msgs'
      <4>1. out' \o msgs' = msgs'
        BY <3>1, <3>2, ConcatNothing DEF Sound
      <4> QED BY <3>1, <4>1 DEF Whole
    <3> QED BY <2>3, <3>1, <3>3, RolesFit DEF PInv
  <2>4. CASE stage \in {"merge", "alternate", "history", "current", "sent"} /\ stage' # "refused"
    <3>1. Shaped(Whole, Whole') /\ entries' = entries /\ request' = request
      BY <2>4, WholeMoves
    <3> QED BY <2>4, <3>1, ShapedKeepsPairs, ShapedAddsPlain DEF PInv
  <2>5. CASE UNCHANGED vars
    BY <2>5 DEF vars, PInv, Whole
  <2>6. CASE stage' = "refused"
    BY <2>6 DEF PInv
  <2>7. stage \in {"merge", "alternate", "history", "current",
          "sent"} \/ Reject \/ RefuseImages \/ Route
        \/ ConvertTools \/ Textualize \/ NormalizeRoles \/ UNCHANGED vars
    BY DEF Next, Done, MergeRun, StartWithUser, Alternate, Split, HistoryUser, HistoryAssistant,
           PlaceSystemPrompt, Finish
  <2> QED BY <2>1, <2>2, <2>3, <2>4, <2>5, <2>6, <2>7
<1> QED BY <1>1, <1>2, Invariance, BaseInvariance, PTL DEF Spec

-----------------------------------------------------------------------------
(* What is sent, turn by turn.                                             *)

\* A turn has what it is given.
LEMMA TurnHas ==
  ASSUME NEW role, NEW text, NEW uses, NEW results
  PROVE  /\ Turn(role, text, uses, results).role = role
         /\ Turn(role, text, uses, results).text = text
         /\ Turn(role, text, uses, results).uses = uses
         /\ Turn(role, text, uses, results).results = results
  BY DEF Turn

\* The turns of the system prompt have no tool content.
LEMMA PrefaceIs ==
  /\ IsSeq(Preface) /\ Len(Preface) \in {0, 2}
  /\ \A i \in 1..Len(Preface) : Preface[i].uses = <<>> /\ Preface[i].results = <<>>
<1>1. CASE ~request.system
  <2>1. Preface = <<>>
    BY <1>1 DEF Preface
  <2> QED BY <2>1, EmptyIsSeq
<1>2. CASE request.system
  <2> DEFINE a == Turn("user", <<Piece("synthetic", "system")>>, <<>>, <<>>)
             b == Turn("assistant", <<Piece("synthetic", "ack")>>, <<>>, <<>>)
  <2>1. Preface = <<a, b>> /\ a.uses = <<>> /\ a.results = <<>> /\ b.uses = <<>> /\ b.results = <<>>
    BY <1>2, TurnHas DEF Preface
  <2> HIDE DEF a, b
  <2>2. <<a, b>> \in Seq({a, b})
    OBVIOUS
  <2>3. IsSeq(<<a, b>>)
    BY <2>2, SeqIs, Zenon
  <2>4. Len(<<a, b>>) = 2 /\ <<a, b>>[1] = a /\ <<a, b>>[2] = b
    OBVIOUS
  <2>5. \A i \in 1..2 : i = 1 \/ i = 2
    OBVIOUS
  <2> DEFINE p == <<a, b>>
  <2>6. Preface = p /\ IsSeq(p) /\ Len(p) = 2 /\ p[1] = a /\ p[2] = b
    BY <2>1, <2>3, <2>4
  <2> HIDE DEF p
  <2> QED BY <2>1, <2>5, <2>6
<1> QED BY <1>1, <1>2

\* The turns sent are those of the system prompt and one per message.
LEMMA TurnsAre ==
  ASSUME BInv, stage = "sent"
  PROVE  LET p == Len(Preface)
             n == Len(Whole)
         IN /\ IsSeq(Turns) /\ Len(Turns) = p + n /\ n = Len(msgs) + 1 /\ Len(msgs) \in Nat
            /\ \A i \in 1..p : Turns[i] = Preface[i]
            /\ \A k \in 1..n : Turns[p + k].uses = TurnAt(Whole, k).uses
            /\ \A k \in 1..n : Turns[p + k].results = TurnAt(Whole, k).results
            /\ \A k \in 1..(n - 1) : Turns[p + k] = TurnAt(Whole, k)
            /\ Turns[p + n].text = current.text
<1> DEFINE p == Len(Preface)
           m == Len(msgs)
           t == TurnsOf(msgs)
           w == Whole
           c == Turn("user", current.text, <<>>, current.results)
<1>1. /\ Sound(msgs) /\ history = Preface \o t /\ w = Append(msgs, last) /\ last.role = "user"
      /\ current.results = Reorder(Results(last.content), UsesAt(msgs, m + 1))
  BY DEF BInv, Whole
<1>2. IsSeq(msgs) /\ m \in Nat /\ DOMAIN msgs = 1..m
  BY <1>1, IsSeqFacts DEF Sound
<1>3. /\ IsSeq(w) /\ Len(w) = m + 1 /\ w[m + 1] = last /\ \A k \in 1..m : w[k] = msgs[k]
  BY <1>1, <1>2, AppendIsSeq
<1>4. IsSeq(Preface) /\ p \in Nat
  BY PrefaceIs, IsSeqFacts
<1>5. IsSeq(t) /\ Len(t) = m /\ \A k \in 1..m : t[k] = TurnAt(msgs, k)
  <2>1. DOMAIN t = DOMAIN msgs /\ t = [k \in DOMAIN msgs |-> t[k]]
          /\ \A k \in DOMAIN msgs : t[k] = TurnAt(msgs, k)
    BY DEF TurnsOf
  <2> HIDE DEF t
  <2> QED BY <1>2, <2>1, MapIsSeq
<1> HIDE DEF t, w
<1>6. /\ IsSeq(history) /\ Len(history) = p + m
      /\ \A i \in 1..p : history[i] = Preface[i]
      /\ \A k \in 1..m : history[p + k] = t[k]
  <2> DEFINE h == Preface \o t
  <2>1. /\ IsSeq(h) /\ Len(h) = p + m
        /\ \A i \in 1..Len(h) : h[i] = IF i <= p THEN Preface[i] ELSE t[i - p]
    BY <1>4, <1>5, ConcatIsSeq
  <2> HIDE DEF h, p, m
  <2>2. \A i \in 1..p : i \in 1..Len(h) /\ i <= p
    BY <1>2, <1>4, <2>1
  <2>3. \A k \in 1..m : p + k \in 1..Len(h) /\ ~(p + k <= p) /\ (p + k) - p = k
    BY <1>2, <1>4, <2>1
  <2>4. /\ \A i \in 1..p : h[i] = Preface[i]
        /\ \A k \in 1..m : h[p + k] = t[k]
    BY <2>1, <2>2, <2>3
  <2> QED BY <1>1, <2>1, <2>4 DEF h
<1> HIDE DEF p, m
<1>7. /\ IsSeq(Turns) /\ Len(Turns) = p + m + 1 /\ Turns[p + m + 1] = c
      /\ \A i \in 1..(p + m) : Turns[i] = history[i]
  BY <1>6, AppendIsSeq DEF Turns
<1>8. \A k \in 1..(m + 1) : UsesAt(w, k) = UsesAt(msgs, k)
  <2> SUFFICES ASSUME NEW k \in 1..(m + 1) PROVE UsesAt(w, k) = UsesAt(msgs, k)
    OBVIOUS
  <2>1. k > 1 => k - 1 \in 1..m
    BY <1>2
  <2> QED BY <1>3, <2>1 DEF UsesAt
<1>9. ASSUME NEW k \in 1..m PROVE TurnAt(w, k) = TurnAt(msgs, k) /\ Turns[p + k] = TurnAt(w, k)
  <2>1. w[k] = msgs[k] /\ k \in 1..(m + 1) /\ p + k \in 1..(p + m)
    BY <1>2, <1>3, <1>4
  <2>2. TurnAt(w, k) = TurnAt(msgs, k)
    BY <1>8, <2>1 DEF TurnAt
  <2> QED BY <1>5, <1>6, <1>7, <2>1, <2>2
<1>10. /\ Turns[p + (m + 1)].uses = TurnAt(w, m + 1).uses
       /\ Turns[p + (m + 1)].results = TurnAt(w, m + 1).results
       /\ Turns[p + (m + 1)].text = current.text
  <2>1. p + (m + 1) = p + m + 1 /\ m + 1 \in 1..(m + 1)
    BY <1>2, <1>4
  <2>2. TurnAt(w, m + 1) = Turn("user", ExtractText(last.content), <<>>,
                                Reorder(Results(last.content), UsesAt(msgs, m + 1)))
    BY <1>1, <1>3, <1>8, <2>1 DEF TurnAt
  <2>3. Turns[p + (m + 1)] = c
    BY <1>7, <2>1
  <2> HIDE DEF c
  <2>4. c.uses = <<>> /\ c.results = current.results /\ c.text = current.text
    BY TurnHas DEF c
  <2>5. TurnAt(w, m + 1).uses = <<>>
        /\ TurnAt(w, m + 1).results = Reorder(Results(last.content), UsesAt(msgs, m + 1))
    BY <2>2, TurnHas
  <2>6. current.results = Reorder(Results(last.content), UsesAt(msgs, m + 1))
    BY <1>1 DEF m
  <2> QED BY <2>3, <2>4, <2>5, <2>6
<1>11. \A k \in 1..(m + 1) : k \in 1..m \/ k = m + 1
  BY <1>2
<1>12. /\ \A k \in 1..(m + 1) : Turns[p + k].uses = TurnAt(w, k).uses
       /\ \A k \in 1..(m + 1) : Turns[p + k].results = TurnAt(w, k).results
  BY <1>9, <1>10, <1>11
<1>13. \A i \in 1..p : Turns[i] = Preface[i]
  <2>1. \A i \in 1..p : i \in 1..(p + m)
    BY <1>2, <1>4
  <2> QED BY <1>6, <1>7, <2>1
<1>14. (m + 1) - 1 = m /\ p + (m + 1) = p + m + 1
  BY <1>2, <1>4
<1> QED BY <1>2, <1>3, <1>7, <1>9, <1>10, <1>12, <1>13, <1>14 DEF p, m, w

\* The uses sent have the ids of the uses made, in their order.
LEMMA SentUsesAre ==
  ASSUME NEW c, IsSeq(c)
  PROVE  IsSeq(SentUses(c)) /\ Idents(SentUses(c)) = ToolUseIds(c)
           /\ Len(SentUses(c)) = Len(ToolUses(c))
<1> DEFINE U == ToolUses(c)
           V == SentUses(c)
<1>1. IsSeq(U) /\ DOMAIN U = 1..Len(U)
  BY UsesAre, IsSeqFacts
<1>2. DOMAIN V = DOMAIN U /\ V = [k \in DOMAIN U |-> V[k]] /\ \A k \in DOMAIN U : V[k].id = U[k].id
  BY DEF SentUses
<1>3. ToolUseIds(c) = [k \in DOMAIN U |-> U[k].id]
  BY DEF ToolUseIds
<1> HIDE DEF U, V
<1>4. IsSeq(V) /\ Len(V) = Len(U)
  BY <1>1, <1>2, MapIsSeq
<1>5. Idents(V) = [k \in DOMAIN U |-> U[k].id]
  BY <1>2 DEF Idents
<1> QED BY <1>3, <1>4, <1>5 DEF U, V

\* The uses that the results of the k-th turn answer are those of the turn before.
LEMMA UsesOfTurn ==
  ASSUME NEW seq, Sound(seq), NEW k \in 1..Len(seq), seq[k].role \in Speakers
  PROVE  /\ UseIds(TurnAt(seq,
           k)) = IF seq[k].role = "assistant" THEN ToolUseIds(seq[k].content) ELSE <<>>
         /\ ResultIds(TurnAt(seq, k)) =
              IF seq[k].role = "user" THEN Idents(Reorder(Results(seq[k].content), UsesAt(seq, k)))
              ELSE <<>>
<1>1. IsSeq(seq[k].content) /\ Idents(<<>>) = <<>>
  <2>1. WellMade(seq[k])
    <3>1. ToSet(seq) = {seq[i] : i \in 1..Len(seq)}
      BY ElementsOf DEF Sound
    <3> QED BY <3>1 DEF Sound
  <2> QED BY <2>1 DEF WellMade, Idents
<1>2. UseIds(TurnAt(seq, k)) = Idents(TurnAt(seq, k).uses)
      /\ ResultIds(TurnAt(seq, k)) = Idents(TurnAt(seq, k).results)
  BY DEF UseIds, ResultIds, Idents
<1>3. CASE seq[k].role = "user"
  <2>1. TurnAt(seq, k).uses = <<>>
        /\ TurnAt(seq, k).results = Reorder(Results(seq[k].content), UsesAt(seq, k))
    BY <1>3, TurnHas DEF TurnAt
  <2> QED BY <1>1, <1>2, <1>3, <2>1
<1>4. CASE seq[k].role = "assistant"
  <2>1. TurnAt(seq, k).uses = SentUses(seq[k].content) /\ TurnAt(seq, k).results = <<>>
    BY <1>4, TurnHas DEF TurnAt
  <2> QED BY <1>1, <1>2, <1>4, <2>1, SentUsesAre
<1> QED BY <1>3, <1>4 DEF Speakers

\* Within one turn.
LEMMA TurnAnswers ==
  ASSUME NEW seq, Sound(seq), Paired(seq), NEW k \in 1..Len(seq), seq[k].role = "user"
  PROVE  LET answered == ResultIds(TurnAt(seq, k))
             made     == UsesAt(seq, k)
         IN /\ ToSet(answered) \subseteq ToSet(made)
            /\ IsInjective(answered) /\ IsInjective(made) => answered = Kept(made, ToSet(answered))
<1> DEFINE R == Results(seq[k].content)
           made == UsesAt(seq, k)
           O == Reorder(R, made)
<1>1. WellMade(seq[k]) /\ (k > 1 =>
        k - 1 \in 1..Len(seq) /\ WellMade(seq[k - 1])) /\ Len(seq) \in Nat
  <2>1. ToSet(seq) = {seq[i] : i \in 1..Len(seq)} /\ Len(seq) \in Nat
    BY ElementsOf, IsSeqFacts DEF Sound
  <2>2. k > 1 => k - 1 \in 1..Len(seq)
    BY <2>1
  <2> QED BY <2>1, <2>2 DEF Sound
<1>2. IsSeq(R) /\ IdSet(R) = Answers(seq[k])
  BY <1>1, ResultsAre DEF WellMade, Answers
<1>3. IsSeq(made) /\ (k > 1 /\ seq[k - 1].role = "assistant" => ToSet(made) = Asks(seq[k - 1]))
  <2>1. CASE k > 1 /\ seq[k - 1].role = "assistant"
    <3> DEFINE m == seq[k - 1]
    <3>1. made = ToolUseIds(m.content) /\ IsSeq(m.content)
      BY <1>1, <2>1 DEF UsesAt, WellMade
    <3> HIDE DEF m, made
    <3>2. IsSeq(made) /\ ToSet(made) = Asks(m)
      BY <3>1, AsksAre
    <3> QED BY <3>2 DEF m
  <2>2. CASE ~(k > 1 /\ seq[k - 1].role = "assistant")
    BY <2>2, EmptyIsSeq DEF UsesAt
  <2> QED BY <2>1, <2>2
<1>4. IdSet(R) \subseteq ToSet(made)
  <2>1. PairedAt(seq, k)
    BY DEF Paired
  <2> HIDE DEF R, made
  <2> QED BY <1>2, <1>3, <2>1 DEF PairedAt
<1>5. ResultIds(TurnAt(seq, k)) = Idents(O)
  BY UsesOfTurn DEF Speakers
<1> HIDE DEF R, made
<1>6. IsSeq(O) /\ ToSet(O) = ToSet(R)
  BY <1>2, <1>3, ReorderKeeps
<1>7. ToSet(Idents(O)) = IdSet(R)
  BY <1>6, IdentsAre DEF IdSet
<1>8. IsInjective(Idents(O)) /\ IsInjective(made) => Idents(O) = Kept(made, IdSet(R))
  BY <1>2, <1>3, <1>4, ReorderInOrder
<1> HIDE DEF O
<1> QED BY <1>4, <1>5, <1>7, <1>8 DEF made

\* A message without tool content becomes a turn without.
LEMMA NoToolsTurn ==
  ASSUME NEW seq, Sound(seq), NEW k \in 1..Len(seq), seq[k].role \in Speakers, NoTools(seq[k])
  PROVE  UseIds(TurnAt(seq, k)) = <<>> /\ ResultIds(TurnAt(seq, k)) = <<>>
<1> DEFINE c == seq[k].content
           R == Results(c)
           O == Reorder(R, UsesAt(seq, k))
<1>1. ToSet(seq) = {seq[i] : i \in 1..Len(seq)} /\ Len(seq) \in Nat
  BY ElementsOf, IsSeqFacts DEF Sound
<1>2. IsSeq(c) /\ (k > 1 => IsSeq(seq[k - 1].content))
  <2>1. k > 1 => k - 1 \in 1..Len(seq)
    BY <1>1
  <2> QED BY <1>1, <2>1 DEF Sound, WellMade
<1>3. Idents(<<>>) = <<>>
  BY DEF Idents
<1>4. ToolUseIds(c) = <<>>
  <2>1. IsSeq(ToolUses(c)) /\ ToSet(ToolUses(c)) = {} /\ ToolUseIds(c) = Idents(ToolUses(c))
    BY <1>2, UsesAre DEF NoTools
  <2>2. ToolUses(c) = <<>>
    BY <2>1, ElementsOf
  <2> QED BY <1>3, <2>1, <2>2
<1>5. IsSeq(R) /\ ToSet(R) = {}
  <2>1. IsSeq(R) /\ IdSet(R) = Answers(seq[k])
    BY <1>2, ResultsAre DEF Answers
  <2>2. IdSet(R) = {}
    BY <2>1, NoToolsIs
  <2> HIDE DEF R
  <2> QED BY <2>1, <2>2 DEF IdSet
<1>6. IsSeq(UsesAt(seq, k))
  <2>1. CASE k > 1 /\ seq[k - 1].role = "assistant"
    <3> DEFINE m == seq[k - 1]
    <3>1. UsesAt(seq, k) = ToolUseIds(m.content) /\ IsSeq(m.content)
      BY <1>2, <2>1 DEF UsesAt
    <3> HIDE DEF m
    <3> QED BY <3>1, AsksAre
  <2>2. CASE ~(k > 1 /\ seq[k - 1].role = "assistant")
    BY <2>2, EmptyIsSeq DEF UsesAt
  <2> QED BY <2>1, <2>2
<1>7. UseIds(TurnAt(seq, k)) = (IF seq[k].role = "assistant" THEN ToolUseIds(c) ELSE <<>>)
      /\ ResultIds(TurnAt(seq, k)) = (IF seq[k].role = "user" THEN Idents(O) ELSE <<>>)
  BY UsesOfTurn
<1> HIDE DEF R
<1>8. IsSeq(O) /\ ToSet(O) = {}
  BY <1>5, <1>6, ReorderKeeps
<1> HIDE DEF O
<1>9. O = <<>>
  BY <1>8, ElementsOf
<1> QED BY <1>3, <1>4, <1>7, <1>9

\* The uses a turn's results can answer, among the turns sent.
LEMMA MadeBefore ==
  ASSUME BInv, stage = "sent", NEW k \in 1..Len(Whole), NEW i, i = Len(Preface) + k
  PROVE  (IF i = 1 THEN <<>> ELSE UseIds(Turns[i - 1])) = UsesAt(Whole, k)
<1> DEFINE p == Len(Preface)
           w == Whole
<1>1. /\ p \in Nat /\ Len(w) \in Nat /\ Sound(w)
      /\ \A j \in 1..p : Turns[j] = Preface[j]
      /\ \A j \in 1..Len(w) : Turns[p + j].uses = TurnAt(w, j).uses
  <2>1. p \in Nat /\ Sound(w)
    BY PrefaceIs, IsSeqFacts, SoundRules DEF BInv, Whole
  <2> QED BY <2>1, TurnsAre, IsSeqFacts DEF Sound
<1>2. \A t, u : t.uses = u.uses => UseIds(t) = UseIds(u)
  BY DEF UseIds
<1>3. CASE k = 1
  <2>1. UsesAt(w, k) = <<>>
    BY <1>3 DEF UsesAt
  <2>2. CASE i = 1
    BY <2>1, <2>2
  <2>3. CASE i # 1
    <3>1. i - 1 = p /\ p \in 1..p
      BY <1>1, <1>3, <2>3
    <3>2. Turns[i - 1].uses = <<>>
      BY <1>1, <3>1, PrefaceIs
    <3>3. UseIds(Turns[i - 1]) = <<>>
      BY <3>2 DEF UseIds
    <3> QED BY <2>1, <2>3, <3>3
  <2> QED BY <2>2, <2>3
<1>4. CASE k # 1
  <2>1. i # 1 /\ i - 1 = p + (k - 1) /\ k - 1 \in 1..Len(w) /\ k > 1
    BY <1>1, <1>4
  <2>2. UseIds(Turns[i - 1]) = UseIds(TurnAt(w, k - 1))
    BY <1>1, <1>2, <2>1
  <2>3. w[k - 1].role \in Speakers
    <3>1. /\ Spoken(msgs, Speakers) /\ last.role = "user" /\ w = Append(msgs, last)
      BY DEF BInv, Whole
    <3>2. IsSeq(msgs) /\ Len(msgs) \in Nat /\ DOMAIN msgs = 1..Len(msgs)
      BY <3>1, IsSeqFacts DEF Spoken
    <3>3. Len(w) = Len(msgs) + 1 /\ \A j \in 1..Len(msgs) : w[j] = msgs[j]
      BY <3>1, <3>2, AppendIsSeq
    <3>4. k - 1 \in 1..Len(msgs)
      BY <1>4, <3>2, <3>3
    <3> QED BY <3>1, <3>2, <3>3, <3>4 DEF Spoken
  <2>4. UseIds(TurnAt(w,
          k - 1)) = IF w[k - 1].role = "assistant" THEN ToolUseIds(w[k - 1].content) ELSE <<>>
    BY <1>1, <2>1, <2>3, UsesOfTurn
  <2> QED BY <2>1, <2>2, <2>4 DEF UsesAt
<1> QED BY <1>3, <1>4

\* The runtime sees a result only right behind the turn that made the use, in the
\* order of the uses, for every request whose messages of another role are plain.
THEOREM AnswersTheorem == Spec => []ResultsAnswerUses
<1>1. PInv /\ BInv => ResultsAnswerUses
  <2> SUFFICES ASSUME PInv, BInv, stage = "sent", PlainOthers(request), NEW i \in DOMAIN Turns
               PROVE  LET answered == ResultIds(Turns[i])
                          made     == IF i = 1 THEN <<>> ELSE UseIds(Turns[i - 1])
                      IN /\ ToSet(answered) \subseteq ToSet(made)
                         /\ IsInjective(answered) /\ IsInjective(made) =>
                              answered = Keep(made, LAMBDA id : id \in ToSet(answered))
                         /\ entries = <<>> => UseIds(Turns[i]) = <<>> /\ answered = <<>>
    BY DEF ResultsAnswerUses, PlainOthers
  <2> DEFINE p == Len(Preface)
             w == Whole
             answered == ResultIds(Turns[i])
             made == IF i = 1 THEN <<>> ELSE UseIds(Turns[i - 1])
  <2>1. /\ p \in Nat /\ Len(w) \in Nat /\ Sound(w) /\ Paired(w)
        /\ (entries = <<>> => \A m \in ToSet(w) : NoTools(m))
        /\ DOMAIN Turns = 1..(p + Len(w))
        /\ \A j \in 1..p : Turns[j] = Preface[j]
        /\ \A j \in 1..Len(w) : Turns[p + j].uses = TurnAt(w, j).uses
        /\ \A j \in 1..Len(w) : Turns[p + j].results = TurnAt(w, j).results
    <3>1. p \in Nat /\ Sound(w)
      BY PrefaceIs, IsSeqFacts, SoundRules DEF BInv, Whole
    <3>2. Paired(w) /\ (entries = <<>> => \A m \in ToSet(w) : NoTools(m))
      BY DEF PInv
    <3>3. Len(w) \in Nat /\ IsSeq(Turns) /\ Len(Turns) = p + Len(w)
      BY <3>1, TurnsAre, IsSeqFacts DEF Sound
    <3>4. DOMAIN Turns = 1..(p + Len(w))
      BY <3>3, IsSeqFacts
    <3> QED BY <3>1, <3>2, <3>3, <3>4, TurnsAre
  <2>2. \A t, u : (t.uses = u.uses => UseIds(t) = UseIds(u)) /\ (t.results = u.results =>
          ResultIds(t) = ResultIds(u))
    BY DEF UseIds, ResultIds
  <2>3. \A T : Kept(<<>>, T) = <<>> /\ ToSet(<<>>) = {}
    BY KeptEmpty, EmptyIsSeq, ElementsOf
  <2>4. \A s, T : Keep(s, LAMBDA id : id \in T) = Kept(s, T)
    BY DEF Keep, Kept
  <2>5. i \in 1..p \/ (i - p \in 1..Len(w) /\ i = p + (i - p))
    BY <2>1
  <2>6. CASE i \in 1..p
    <3>1. Turns[i].uses = <<>> /\ Turns[i].results = <<>>
          /\ (i # 1 => i - 1 \in 1..p /\ Turns[i - 1].uses = <<>>)
      <4>1. i # 1 => i - 1 \in 1..p
        BY <2>1, <2>6
      <4> QED BY <2>1, <2>6, <4>1, PrefaceIs
    <3>2. answered = <<>> /\ made = <<>> /\ UseIds(Turns[i]) = <<>>
      BY <3>1 DEF ResultIds, UseIds
    <3>5. Kept(<<>>, ToSet(<<>>)) = <<>>
      BY <2>3, Zenon
    <3>3. Keep(<<>>, LAMBDA id : id \in ToSet(<<>>)) = <<>>
      BY <3>5, Zenon DEF Keep, Kept
    <3>4. ToSet(answered) \subseteq ToSet(made)
            /\ answered = Keep(made, LAMBDA id : id \in ToSet(answered))
      BY <3>2, <3>3
    <3> QED BY <3>2, <3>4
  <2>7. ASSUME NEW k \in 1..Len(w), i = p + k
        PROVE  /\ ToSet(answered) \subseteq ToSet(made)
               /\ IsInjective(answered) /\ IsInjective(made) =>
                    answered = Kept(made, ToSet(answered))
               /\ entries = <<>> => UseIds(Turns[i]) = <<>> /\ answered = <<>>
    <3>1. made = UsesAt(w, k)
      BY <2>7, MadeBefore
    <3>2. answered = ResultIds(TurnAt(w, k)) /\ UseIds(Turns[i]) = UseIds(TurnAt(w, k))
      BY <2>1, <2>2, <2>7
    <3>3. w[k].role \in Speakers /\ w[k] \in ToSet(w)
      <4>1. /\ Spoken(msgs, Speakers) /\ last.role = "user" /\ w = Append(msgs, last)
        BY DEF BInv, Whole
      <4>2. IsSeq(msgs) /\ Len(msgs) \in Nat /\ DOMAIN msgs = 1..Len(msgs)
        BY <4>1, IsSeqFacts DEF Spoken
      <4>3. Len(w) = Len(msgs) + 1 /\ w[Len(msgs) + 1] = last
              /\ \A j \in 1..Len(msgs) : w[j] = msgs[j]
        BY <4>1, <4>2, AppendIsSeq
      <4>4. k \in 1..Len(msgs) \/ k = Len(msgs) + 1
        BY <2>7, <4>2, <4>3
      <4>5. ToSet(w) = {w[j] : j \in 1..Len(w)}
        BY <2>1, ElementsOf DEF Sound
      <4>6. w[k].role \in Speakers
        BY <4>1, <4>2, <4>3, <4>4 DEF Spoken, Speakers
      <4> QED BY <4>5, <4>6
    <3> HIDE DEF answered, made
    <3>4. CASE w[k].role = "user"
      <4>1. /\ ToSet(answered) \subseteq ToSet(made)
            /\ IsInjective(answered) /\ IsInjective(made) => answered = Kept(made, ToSet(answered))
        BY <2>1, <3>1, <3>2, <3>4, TurnAnswers
      <4>2. entries = <<>> => UseIds(TurnAt(w, k)) = <<>> /\ ResultIds(TurnAt(w, k)) = <<>>
        BY <2>1, <3>3, NoToolsTurn
      <4> QED BY <3>2, <4>1, <4>2
    <3>5. CASE w[k].role # "user"
      <4>1. answered = <<>>
        BY <2>1, <3>2, <3>3, <3>5, UsesOfTurn
      <4>2. entries = <<>> => UseIds(TurnAt(w, k)) = <<>>
        BY <2>1, <3>3, NoToolsTurn
      <4>3. Kept(made, {}) = <<>>
        <5>1. IsSeq(made)
          <6>1. CASE k > 1 /\ w[k - 1].role = "assistant"
            <7> DEFINE m == w[k - 1]
            <7>1. k - 1 \in 1..Len(w)
              BY <2>1, <6>1
            <7>2. made = ToolUseIds(m.content) /\ IsSeq(m.content)
              <8>1. m \in ToSet(w)
                BY <2>1, <7>1, ElementsOf DEF Sound
              <8> QED BY <2>1, <3>1, <6>1, <8>1 DEF UsesAt, Sound, WellMade
            <7> HIDE DEF m
            <7> QED BY <7>2, AsksAre
          <6>2. CASE ~(k > 1 /\ w[k - 1].role = "assistant")
            BY <3>1, <6>2, EmptyIsSeq DEF UsesAt
          <6> QED BY <6>1, <6>2
        <5> QED BY <5>1, KeptNone
      <4> QED BY <2>3, <3>2, <4>1, <4>2, <4>3
    <3> QED BY <3>4, <3>5
  <2>8. CASE i - p \in 1..Len(w) /\ i = p + (i - p)
    BY <2>4, <2>7, <2>8
  <2> QED BY <2>5, <2>6, <2>8
<1> QED BY <1>1, PairsInvariance, BaseInvariance, PTL

-----------------------------------------------------------------------------
(* Pictures.                                                               *)

Accepted(p) == p[2] \notin {"bad", "url"}

\* No picture of a block that is passed on is a URL.
LEMMA PicturesAre ==
  ASSUME NEW b, IsSeq(b.images)
  PROVE  IsSeq(Pictures(b)) /\ \A p \in ToSet(Pictures(b)) : p[2] # "url"
<1> DEFINE s == b.images
           T == {p \in ToSet(s) : p[2] # "url"}
<1>1. \A i \in DOMAIN s : s[i] \in T <=> s[i][2] # "url"
  BY DEF ToSet
<1>2. T \subseteq ToSet(s) /\ \A p \in T : p[2] # "url"
  OBVIOUS
<1> HIDE DEF T
<1>3. [i \in DOMAIN s |-> IF s[i][2] # "url" THEN <<s[i]>> ELSE <<>>]
        = [i \in DOMAIN s |-> IF s[i] \in T THEN <<s[i]>> ELSE <<>>]
  BY <1>1
<1>4. Pictures(b) = Kept(s, T)
  BY <1>3, Zenon DEF Pictures, Keep, Kept
<1> QED BY <1>2, <1>4, KeptIsSeq

\* Nor one of several blocks.
LEMMA AttachedAre ==
  ASSUME NEW c, IsSeq(c), \A b \in ToSet(c) : IsSeq(b.images)
  PROVE  IsSeq(Attached(c)) /\ \A p \in ToSet(Attached(c)) : p[2] # "url"
<1> DEFINE S == ToSet(c)
           f == [b \in S |-> Pictures(b)]
<1>1. c \in Seq(S) /\ \A i \in DOMAIN c : c[i] \in S
  BY IsSeqFacts DEF ToSet
<1>2. \A b \in S : f[b] = Pictures(b)
  OBVIOUS
<1>3. [i \in DOMAIN c |-> Pictures(c[i])] = [i \in DOMAIN c |-> f[c[i]]]
  BY <1>1, <1>2
<1> HIDE DEF f
<1>4. Attached(c) = Flat(c, f)
  BY <1>3, Zenon DEF Attached, Flat, Mapped
<1>5. Yields(f, S) /\ \A b \in S : \A p \in ToSet(f[b]) : p[2] # "url"
  BY <1>2, PicturesAre DEF Yields
<1> HIDE DEF S
<1>6. IsSeq(Flat(c, f)) /\ ToSet(Flat(c, f)) = UNION {ToSet(f[b]) : b \in ToSet(c)}
  BY <1>1, <1>5, FlatIsSeq, FlatElements
<1> QED BY <1>4, <1>5, <1>6 DEF S

\* Nor one of a message, of its results or of all its blocks.
LEMMA BlocksAttached ==
  ASSUME NEW m, WellMade(m)
  PROVE  /\ IsSeq(Attached(ResultBlocks(m.content))) /\ IsSeq(Attached(Pictured(m.content)))
         /\ \A p \in ToSet(Attached(ResultBlocks(m.content))) : p[2] # "url"
         /\ \A p \in ToSet(Attached(Pictured(m.content))) : p[2] # "url"
<1> DEFINE c == m.content
           T == {b \in ToSet(c) : IsToolResult(b) \/ b.kind = "image"}
<1>1. IsSeq(c) /\ \A b \in ToSet(c) : IsSeq(b.images)
  BY DEF WellMade
<1>2. IsSeq(ResultBlocks(c)) /\ ToSet(ResultBlocks(c)) \subseteq ToSet(c)
  BY <1>1, ResultsAre
<1>3. \A i \in DOMAIN c : c[i] \in T <=> IsToolResult(c[i]) \/ c[i].kind = "image"
  BY DEF ToSet
<1>4. T \subseteq ToSet(c)
  OBVIOUS
<1> HIDE DEF T
<1>5. [i \in DOMAIN c |-> IF IsToolResult(c[i]) \/ c[i].kind = "image" THEN <<c[i]>> ELSE <<>>]
        = [i \in DOMAIN c |-> IF c[i] \in T THEN <<c[i]>> ELSE <<>>]
  BY <1>3
<1>6. Pictured(c) = Kept(c, T)
  BY <1>5, Zenon DEF Pictured, Keep, Kept
<1>7. IsSeq(Pictured(c)) /\ ToSet(Pictured(c)) \subseteq ToSet(c)
  BY <1>1, <1>4, <1>6, KeptIsSeq
<1> HIDE DEF c
<1>8. \A b \in ToSet(ResultBlocks(c)) : IsSeq(b.images)
  BY <1>1, <1>2
<1>9. \A b \in ToSet(Pictured(c)) : IsSeq(b.images)
  BY <1>1, <1>7
<1> QED BY <1>2, <1>7, <1>8, <1>9, AttachedAre DEF c

\* Where the check of the pictures passes, all are accepted and they are within the limit.
LEMMA NoErrorIsAccepted ==
  ASSUME NEW blocks, ~ImageError(blocks), \A p \in ToSet(Attached(blocks)) : p[2] # "url"
  PROVE  /\ \A p \in ToSet(Attached(blocks)) : Accepted(p)
         /\ ~(images + Len(Attached(blocks)) > MaxImages)
  BY DEF ImageError, Accepted, ToSet

\* The pictures in the results of the first n messages, those of users.
Forwarded(seq) ==
  [m \in ToSet(seq) |-> IF m.role = "user" THEN Attached(ResultBlocks(m.content)) ELSE <<>>]

Earlier(seq, n) == Flat(SubSeq(seq, 1, n), Forwarded(seq))

Counted(seq, n) == images = Len(Earlier(seq, n)) /\ \A p \in ToSet(Earlier(seq, n)) : Accepted(p)

CInv ==
  /\ stage \in {"parse", "tools", "textualize", "roles", "merge", "alternate"} => images = 0
  /\ stage = "history" => Counted(msgs, Len(history))
  /\ stage = "current" => Counted(msgs, Len(msgs))
  /\ stage = "sent" =>
       LET shown == Attached(Pictured(last.content))
       IN /\ images = Len(shown) + Len(Earlier(msgs, Len(msgs)))
          /\ \A p \in ToSet(shown) \cup ToSet(Earlier(msgs, Len(msgs))) : Accepted(p)
          /\ ~(images > MaxImages)

\* The pictures counted grow by those of the next message.
LEMMA EarlierGrows ==
  ASSUME NEW seq, Sound(seq), NEW n \in Nat, n < Len(seq)
  PROVE  /\ IsSeq(Earlier(seq, n)) /\ IsSeq(Forwarded(seq)[seq[n + 1]])
         /\ Earlier(seq, n + 1) = Earlier(seq, n) \o Forwarded(seq)[seq[n + 1]]
         /\ Earlier(seq, 0) = <<>>
         /\ Forwarded(seq)[seq[n + 1]] = IF seq[n + 1].role = "user"
                                     THEN Attached(ResultBlocks(seq[n + 1].content)) ELSE <<>>
         /\ WellMade(seq[n + 1])
<1> DEFINE S == ToSet(seq)
           f == Forwarded(seq)
           s == SubSeq(seq, 1, n)
           x == seq[n + 1]
<1>1. seq \in Seq(S) /\ Len(seq) \in Nat /\ \A m \in S : WellMade(m)
  BY IsSeqFacts DEF Sound
<1>2. x \in S /\ s \in Seq(S) /\ SubSeq(seq, 1, n + 1) = Append(s, x) /\ SubSeq(seq, 1, 0) = <<>>
  <2>1. x \in S
    BY <1>1 DEF ToSet
  <2> HIDE DEF S
  <2> QED BY <1>1, <2>1
<1>3. \A m \in S : f[m] = IF m.role = "user" THEN Attached(ResultBlocks(m.content)) ELSE <<>>
  BY DEF Forwarded
<1>4. Yields(f, S)
  <2> SUFFICES ASSUME NEW m \in S PROVE IsSeq(f[m])
    BY DEF Yields
  <2>1. IsSeq(Attached(ResultBlocks(m.content))) /\ IsSeq(<<>>)
    BY <1>1, BlocksAttached, EmptyIsSeq
  <2> QED BY <1>3, <2>1
<1> HIDE DEF S, f, s, x
<1>5. IsSeq(Flat(s, f)) /\ Flat(Append(s, x), f) = Flat(s, f) \o f[x] /\ IsSeq(f[x])
  BY <1>2, <1>4, FlatAppend DEF Yields
<1>6. Earlier(seq, n) = Flat(s, f) /\ Earlier(seq, n + 1) = Flat(Append(s, x), f)
  BY <1>2 DEF Earlier, s, f
<1>7. Earlier(seq, 0) = <<>>
  BY <1>2, FlatEmpty DEF Earlier
<1> QED BY <1>1, <1>2, <1>3, <1>5, <1>6, <1>7 DEF f, x

\* No pictures are counted of no messages.
LEMMA EarlierNone ==
  ASSUME NEW seq, IsSeq(seq)
  PROVE  Earlier(seq, 0) = <<>> /\ Len(<<>>) = 0 /\ ToSet(<<>>) = {}
<1>1. seq \in Seq(ToSet(seq))
  BY IsSeqFacts
<1>2. SubSeq(seq, 1, 0) = <<>>
  BY <1>1
<1>3. Earlier(seq, 0) = <<>>
  BY <1>2, FlatEmpty DEF Earlier
<1> QED BY <1>3, EmptyIsSeq, ElementsOf

\* The counts are numbers.
LEMMA CountIsNat ==
  ASSUME BInv, stage \in {"current", "sent"}
  PROVE  Len(Attached(Pictured(last.content))) + Len(Earlier(msgs, Len(msgs))) \in Nat
         /\ Len(Attached(Pictured(last.content))) \in Nat /\ Len(Earlier(msgs, Len(msgs))) \in Nat
<1> DEFINE shown == Attached(Pictured(last.content))
           e == Earlier(msgs, Len(msgs))
<1>1. WellMade(last) /\ Sound(msgs)
  BY DEF BInv
<1>2. IsSeq(e)
  <2>1. CASE Len(msgs) = 0
    BY <1>1, <2>1, EarlierNone, EmptyIsSeq DEF Sound
  <2>2. CASE Len(msgs) # 0
    <3>1. Len(msgs) - 1 \in Nat /\ Len(msgs) - 1 < Len(msgs) /\ (Len(msgs) - 1) + 1 = Len(msgs)
      BY <1>1, <2>2, IsSeqFacts DEF Sound
    <3> DEFINE k == Len(msgs) - 1
               a == Earlier(msgs, k)
               b == Forwarded(msgs)[msgs[k + 1]]
    <3>2. IsSeq(a) /\ IsSeq(b) /\ Earlier(msgs, k + 1) = a \o b
      BY <1>1, <3>1, EarlierGrows
    <3>3. e = a \o b
      BY <3>1, <3>2
    <3> HIDE DEF a, b, e
    <3> QED BY <3>2, <3>3, ConcatIsSeq
  <2> QED BY <2>1, <2>2
<1>3. IsSeq(shown)
  BY <1>1, BlocksAttached
<1> HIDE DEF e, shown
<1>4. Len(e) \in Nat /\ Len(shown) \in Nat
  BY <1>2, <1>3, IsSeqFacts
<1>5. Len(shown) + Len(e) \in Nat
  BY <1>4
<1> QED BY <1>4, <1>5 DEF e, shown

\* Every step keeps CInv.
LEMMA CountStep == ASSUME CInv, BInv, IInv, [Next]_vars PROVE CInv'
<1>1. CASE Reject \/ RefuseImages
  BY <1>1 DEF Reject, RefuseImages, CInv
<1>2. CASE Route \/ ConvertTools \/ Textualize \/ NormalizeRoles \/ MergeRun \/ StartWithUser \/ Alternate
  BY <1>2 DEF Route, ConvertTools, Textualize, NormalizeRoles, MergeRun, StartWithUser, Alternate,
       CInv
<1>3. CASE Split
  <2>1. stage = "alternate" /\ stage' = "history" /\ images' = images /\ images = 0
          /\ history' = <<>>
    BY <1>3 DEF Split, CInv, IInv
  <2>2. IsSeq(msgs')
    BY <1>3, BaseMoves, <2>1 DEF Moves, BInv, Sound
  <2>3. Counted(msgs, Len(history))'
    BY <2>1, <2>2, EarlierNone DEF Counted
  <2> QED BY <2>1, <2>3 DEF CInv
<1>4. CASE HistoryUser \/ HistoryAssistant
  <2> DEFINE n == Len(history)
             m == msgs[n + 1]
             f == Forwarded(msgs)[m]
             e == Earlier(msgs, n)
  <2>1. /\ stage = "history" /\ stage' = stage /\ msgs' = msgs /\ n \in Nat /\ n < Len(msgs)
        /\ Len(history') = n + 1 /\ Sound(msgs) /\ Counted(msgs, n)
    <3>1. /\ stage = "history" /\ stage' = stage /\ msgs' = msgs /\ n + 1 <= Len(msgs)
          /\ IsSeq(history) /\ Sound(msgs) /\ \E t : history' = Append(history, t)
      BY <1>4 DEF HistoryUser, HistoryAssistant, BInv, IInv
    <3>2. n \in Nat /\ Len(history') = n + 1 /\ Len(msgs) \in Nat
      BY <3>1, IsSeqFacts, AppendIsSeq DEF Sound
    <3> HIDE DEF n
    <3> QED BY <3>1, <3>2 DEF CInv, n
  <2> HIDE DEF n
  <2>2. /\ IsSeq(e) /\ IsSeq(f) /\ Earlier(msgs, n + 1) = e \o f /\ WellMade(m)
        /\ f = IF m.role = "user" THEN Attached(ResultBlocks(m.content)) ELSE <<>>
    BY <2>1, EarlierGrows
  <2>3. images' = images + Len(f) /\ \A p \in ToSet(f) : Accepted(p)
    <3>1. CASE HistoryUser
      <4>1. /\ m.role = "user" /\ ~ImageError(ResultBlocks(m.content))
            /\ images' = images + Len(Attached(ResultBlocks(m.content)))
        BY <3>1 DEF HistoryUser, n
      <4> HIDE DEF m, f
      <4>2. \A p \in ToSet(Attached(ResultBlocks(m.content))) : p[2] # "url"
        BY <2>2, BlocksAttached
      <4>3. f = Attached(ResultBlocks(m.content))
        BY <2>2, <4>1
      <4> QED BY <4>1, <4>2, <4>3, NoErrorIsAccepted
    <3>2. CASE HistoryAssistant
      <4>1. m.role = "assistant" /\ images' = images
        BY <3>2 DEF HistoryAssistant, n
      <4> HIDE DEF m, f
      <4>2. f = <<>> /\ images = Len(e)
        BY <2>1, <2>2, <4>1 DEF Counted
      <4>3. Len(f) = 0 /\ ToSet(f) = {} /\ Len(e) \in Nat
        <5> HIDE DEF e
        <5> QED BY <2>2, <4>2, EmptyIsSeq, ElementsOf, IsSeqFacts
      <4> HIDE DEF e
      <4> QED BY <4>1, <4>2, <4>3
    <3> QED BY <1>4, <3>1, <3>2
  <2> HIDE DEF m, f
  <2>4. images = Len(e) /\ \A p \in ToSet(e) : Accepted(p)
    BY <2>1 DEF Counted
  <2> HIDE DEF e
  <2>5. Len(e \o f) = Len(e) + Len(f) /\ ToSet(e \o f) = ToSet(e) \cup ToSet(f)
    BY <2>2, ConcatIsSeq, ConcatElements
  <2>6. Counted(msgs, Len(history))'
    BY <2>1, <2>2, <2>3, <2>4, <2>5 DEF Counted
  <2> QED BY <2>1, <2>6 DEF CInv
<1>5. CASE PlaceSystemPrompt
  <2>1. stage = "history" /\ stage' = "current" /\ Len(history) = Len(msgs) /\ msgs' = msgs
          /\ images' = images
    BY <1>5 DEF PlaceSystemPrompt
  <2> QED BY <2>1 DEF CInv, Counted
<1>6. CASE Finish
  <2> DEFINE blocks == Pictured(last.content)
             shown == Attached(blocks)
             e == Earlier(msgs, Len(msgs))
  <2>1. /\ stage = "current" /\ stage' = "sent" /\ msgs' = msgs /\ last' = last
             /\ ~ImageError(blocks)
        /\ images' = images + Len(shown) /\ WellMade(last) /\ Sound(msgs)
    BY <1>6 DEF Finish, BInv
  <2>2. images = Len(e) /\ \A p \in ToSet(e) : Accepted(p)
    BY <2>1 DEF CInv, Counted
  <2>3. IsSeq(shown) /\ \A p \in ToSet(shown) : p[2] # "url"
    BY <2>1, BlocksAttached
  <2>4. (\A p \in ToSet(shown) : Accepted(p)) /\ ~(images + Len(shown) > MaxImages)
    <3> HIDE DEF blocks
    <3> QED BY <2>1, <2>3, NoErrorIsAccepted
  <2>5. Len(shown) \in Nat /\ Len(e) \in Nat
    BY <2>1, CountIsNat
  <2>6. images' = Len(shown) + Len(e) /\ ~(images' > MaxImages)
    <3> HIDE DEF e, shown
    <3> QED BY <2>1, <2>2, <2>4, <2>5
  <2> QED BY <2>1, <2>2, <2>4, <2>6 DEF CInv
<1>7. CASE UNCHANGED vars
  BY <1>7 DEF vars, CInv, Counted
<1> QED BY <1>1, <1>2, <1>3, <1>4, <1>5, <1>6, <1>7 DEF Next, Done

\* The pictures are counted over the whole request and never above the limit, for
\* every request and every limit.
THEOREM PicturesTheorem == Spec => []PicturesCounted
<1>1. Init => CInv
  BY DEF Init, CInv
<1>2. CInv /\ BInv => PicturesCounted
  <2> SUFFICES ASSUME CInv, BInv, stage = "sent" PROVE PicturesCounted
    BY DEF PicturesCounted
  <2> DEFINE shown == Attached(Pictured(last.content))
             e == Earlier(msgs, Len(msgs))
  <2>1. /\ images = Len(shown) + Len(e) /\ ~(images > MaxImages) /\ current.images = shown
        /\ \A p \in ToSet(shown) \cup ToSet(e) : Accepted(p)
    BY DEF CInv, BInv
  <2>2. e = FlattenSeq([i \in DOMAIN msgs |-> IF msgs[i].role = "user"
                                             THEN Attached(ResultBlocks(msgs[i].content)) ELSE <<>>])
    <3>1. SubSeq(msgs, 1, Len(msgs)) = msgs /\ \A i \in DOMAIN msgs : msgs[i] \in ToSet(msgs)
      <4>1. msgs \in Seq(ToSet(msgs))
        BY IsSeqFacts DEF BInv, Sound
      <4> QED BY <4>1, SubSeqFull DEF ToSet
    <3>2. [i \in DOMAIN msgs |-> Forwarded(msgs)[msgs[i]]]
            = [i \in DOMAIN msgs |-> IF msgs[i].role = "user"
                                     THEN Attached(ResultBlocks(msgs[i].content)) ELSE <<>>]
      BY <3>1 DEF Forwarded
    <3> QED BY <3>1, <3>2, Zenon DEF Earlier, Flat, Mapped
  <2>4. images \in Nat
    BY <2>1, CountIsNat
  <2> HIDE DEF e, shown
  <2>3. images <= MaxImages
    BY <2>1, <2>4, LimitAssumption
  <2> QED BY <2>1, <2>2, <2>3 DEF PicturesCounted, Gathered, Accepted, shown
<1> QED BY <1>1, <1>2, CountStep, Invariance, BaseInvariance, PTL DEF Spec

-----------------------------------------------------------------------------
(* What is gathered from all messages.                                     *)

\* Flattening is gathering with the identity.
LEMMA FlattenIsFlat ==
  ASSUME NEW g, Lists(g), NEW S, ToSet(g) \subseteq S, \A x \in S : IsSeq(x)
  PROVE  /\ g \in Seq(S) /\ Yields([x \in S |-> x], S)
         /\ FlattenSeq(g) = Flat(g, [x \in S |-> x])
<1> DEFINE id == [x \in S |-> x]
<1>1. IsSeq(g) /\ g = [i \in DOMAIN g |-> g[i]] /\ \A i \in DOMAIN g : g[i] \in S
  <2>1. IsSeq(g)
    BY DEF Lists
  <2>2. \A i \in DOMAIN g : g[i] \in S
    BY DEF ToSet
  <2> QED BY <2>1, <2>2, IsSeqFacts
<1>2. g \in Seq(S)
  BY <1>1, SeqWithin
<1>3. \A x \in S : id[x] = x
  OBVIOUS
<1> HIDE DEF id
<1>4. Yields(id, S)
  BY <1>3 DEF Yields
<1>5. Mapped(g, id) = g
  BY <1>1, <1>3 DEF Mapped
<1> QED BY <1>2, <1>4, <1>5 DEF Flat, id

\* The elements of a flattened sequence.
LEMMA FlattenElements ==
  ASSUME NEW g, Lists(g)
  PROVE  IsSeq(FlattenSeq(g)) /\ ToSet(FlattenSeq(g)) = UNION {ToSet(x) : x \in ToSet(g)}
<1> DEFINE S == ToSet(g)
           id == [x \in S |-> x]
<1>1. \A x \in S : IsSeq(x)
  BY DEF Lists, ToSet
<1>2. g \in Seq(S) /\ Yields(id, S) /\ FlattenSeq(g) = Flat(g, id)
  BY <1>1, FlattenIsFlat
<1>3. IsSeq(Flat(g, id)) /\ ToSet(Flat(g, id)) = UNION {ToSet(id[x]) : x \in ToSet(g)}
  BY <1>2, FlatIsSeq, FlatElements
<1>4. \A x \in S : id[x] = x
  OBVIOUS
<1> QED BY <1>2, <1>3, <1>4

\* Flattening goes along with putting together.
LEMMA FlattenConcat ==
  ASSUME NEW g, NEW h, Lists(g), Lists(h)
  PROVE  FlattenSeq(g \o h) = FlattenSeq(g) \o FlattenSeq(h)
<1> DEFINE S == ToSet(g) \cup ToSet(h)
           id == [x \in S |-> x]
<1>1. \A x \in S : IsSeq(x)
  BY DEF Lists, ToSet
<1>2. IsSeq(g) /\ IsSeq(h)
  BY DEF Lists
<1>3. IsSeq(g \o h) /\ ToSet(g \o h) = S
  BY <1>2, ConcatIsSeq, ConcatElements
<1> DEFINE gh == g \o h
<1>4. Lists(gh)
  <2>1. \A i \in DOMAIN gh : gh[i] \in ToSet(gh)
    BY DEF ToSet
  <2> HIDE DEF gh
  <2> QED BY <1>1, <1>3, <2>1 DEF Lists, gh
<1>5. /\ g \in Seq(S) /\ FlattenSeq(g) = Flat(g, id) /\ Yields(id, S)
      /\ h \in Seq(S) /\ FlattenSeq(h) = Flat(h, id)
  BY <1>1, FlattenIsFlat
<1>6. FlattenSeq(gh) = Flat(gh, id)
  BY <1>1, <1>3, <1>4, FlattenIsFlat
<1> HIDE DEF S, id
<1>7. Flat(gh, id) = Flat(g, id) \o Flat(h, id)
  BY <1>5, FlatConcat
<1> QED BY <1>5, <1>6, <1>7

\* What is gathered depends on the elements alone.
LEMMA FlatSame ==
  ASSUME NEW s, NEW f, NEW g, \A x \in ToSet(s) : f[x] = g[x]
  PROVE  Flat(s, f) = Flat(s, g)
<1>1. \A i \in DOMAIN s : f[s[i]] = g[s[i]]
  BY DEF ToSet
<1>2. Mapped(s, f) = Mapped(s, g)
  BY <1>1 DEF Mapped
<1> QED BY <1>2 DEF Flat

\* Nothing is gathered from elements that have nothing.
LEMMA FlatNone ==
  ASSUME NEW s, IsSeq(s), NEW f, \A x \in ToSet(s) : f[x] = <<>>
  PROVE  Flat(s, f) = <<>>
<1> DEFINE S == ToSet(s)
<1>1. s \in Seq(S) /\ Yields(f, S)
  BY IsSeqFacts, EmptyIsSeq DEF Yields
<1>2. IsSeq(Flat(s, f)) /\ ToSet(Flat(s, f)) = UNION {ToSet(f[x]) : x \in ToSet(s)}
  BY <1>1, FlatIsSeq, FlatElements
<1>3. ToSet(<<>>) = {}
  BY EmptyIsSeq, ElementsOf
<1>4. ToSet(Flat(s, f)) = {}
  BY <1>2, <1>3
<1> QED BY <1>2, <1>4, ElementsOf

\* Turns that have nothing, before those of the messages.
LEMMA TurnsFlat ==
  ASSUME NEW g, IsSeq(g), NEW p \in Nat, NEW w, IsSeq(w), Len(g) = p + Len(w), NEW f,
         Yields(f, ToSet(w)),
         \A i \in 1..p : g[i] = <<>>,
         \A k \in 1..Len(w) : g[p + k] = f[w[k]]
  PROVE  FlattenSeq(g) = Flat(w, f) /\ Lists(g)
<1> DEFINE a == SubSeq(g, 1, p)
           b == SubSeq(g, p + 1, Len(g))
           fw == Mapped(w, f)
<1>1. Len(w) \in Nat /\ Len(g) \in Nat /\ w \in Seq(ToSet(w)) /\ DOMAIN w = 1..Len(w)
      /\ ToSet(w) = {w[k] : k \in 1..Len(w)}
  BY IsSeqFacts, ElementsOf
<1>2. p <= Len(g) /\ 1 \in Nat \ {0} /\ p + 1 \in Nat \ {0} /\ Len(g) <= Len(g)
  BY <1>1
<1>3. g = a \o b
  BY <1>2, Parted
<1>4. IsSeq(a) /\ Len(a) = p /\ \A i \in 1..p : a[i] = <<>>
  <2>1. /\ IsSeq(a) /\ Len(a) = (IF 1 <= p THEN p - 1 + 1 ELSE 0)
        /\ \A i \in 1..Len(a) : a[i] = g[1 + i - 1]
    BY <1>2, SubSeqIsSeq
  <2> HIDE DEF a
  <2>2. Len(a) = p
    BY <2>1
  <2>3. \A i \in 1..p : 1 + i - 1 = i
    OBVIOUS
  <2> QED BY <2>1, <2>2, <2>3
<1>5. IsSeq(b) /\ Len(b) = Len(w) /\ \A k \in 1..Len(w) : b[k] = f[w[k]]
  <2>1. /\ IsSeq(b) /\ Len(b) = (IF p + 1 <= Len(g) THEN Len(g) - (p + 1) + 1 ELSE 0)
        /\ \A k \in 1..Len(b) : b[k] = g[(p + 1) + k - 1]
    BY <1>1, <1>2, SubSeqIsSeq
  <2> HIDE DEF b
  <2>2. Len(b) = Len(w)
    BY <1>1, <2>1
  <2>3. \A k \in 1..Len(w) : (p + 1) + k - 1 = p + k
    BY <1>1
  <2> QED BY <2>1, <2>2, <2>3
<1>6. Lists(fw) /\ Len(fw) = Len(w) /\ \A k \in 1..Len(w) : fw[k] = f[w[k]]
  <2>1. Lists(fw) /\ Len(fw) = Len(w)
    BY <1>1, MapLists
  <2> QED BY <1>1, <2>1 DEF Mapped
<1> HIDE DEF a, b, fw
<1>7. b = fw
  <2>1. IsSeq(fw)
    BY <1>6 DEF Lists
  <2>2. \A k \in 1..Len(b) : b[k] = fw[k]
    BY <1>5, <1>6
  <2> QED BY <1>5, <1>6, <2>1, <2>2, SeqSame
<1>8. Lists(a) /\ ToSet(a) \subseteq {<<>>}
  <2>1. DOMAIN a = 1..p /\ ToSet(a) = {a[i] : i \in 1..p}
    BY <1>4, IsSeqFacts, ElementsOf
  <2> QED BY <1>4, <2>1, EmptyIsSeq DEF Lists
<1>9. FlattenSeq(a) = <<>>
  <2>1. IsSeq(FlattenSeq(a)) /\ ToSet(FlattenSeq(a)) = UNION {ToSet(x) : x \in ToSet(a)}
    BY <1>8, FlattenElements
  <2>2. ToSet(<<>>) = {}
    BY EmptyIsSeq, ElementsOf
  <2>3. ToSet(FlattenSeq(a)) = {}
    BY <1>8, <2>1, <2>2
  <2> QED BY <2>1, <2>3, ElementsOf
<1>10. FlattenSeq(g) = FlattenSeq(a) \o FlattenSeq(fw)
  <2>1. FlattenSeq(a \o fw) = FlattenSeq(a) \o FlattenSeq(fw)
    BY <1>6, <1>8, FlattenConcat
  <2> QED BY <1>3, <1>7, <2>1
<1>11. IsSeq(FlattenSeq(fw))
  BY <1>6, FlattenElements
<1>12. FlattenSeq(g) = FlattenSeq(fw)
  BY <1>9, <1>10, <1>11, ConcatNothing
<1>13. Lists(g)
  <2>1. DOMAIN g = 1..Len(g)
    BY IsSeqFacts
  <2> SUFFICES ASSUME NEW i \in 1..Len(g) PROVE IsSeq(g[i])
    BY <2>1 DEF Lists
  <2>2. i \in 1..p \/ (i - p \in 1..Len(w) /\ i = p + (i - p))
    BY <1>1
  <2>3. \A k \in 1..Len(w) : IsSeq(f[w[k]])
    BY <1>1 DEF Yields
  <2> QED BY <2>2, <2>3, EmptyIsSeq
<1> QED BY <1>12, <1>13 DEF Flat, fw

Glued(s, t) == s \o t

\* FlatConcat, and the two together are a sequence over the same set.
LEMMA FlatGlued ==
  ASSUME NEW S, NEW s \in Seq(S), NEW t \in Seq(S), NEW m, Yields(m, S)
  PROVE  Flat(Glued(s, t), m) = Glued(Flat(s, m), Flat(t, m)) /\ Glued(s, t) \in Seq(S)
<1>1. Flat(s \o t, m) = Flat(s, m) \o Flat(t, m)
  BY FlatConcat
<1>2. s \o t \in Seq(S)
  OBVIOUS
<1> QED BY <1>1, <1>2 DEF Glued

\* Only what the middle part has matters.
LEMMA FlatMiddle ==
  ASSUME NEW S, NEW a \in Seq(S), NEW c \in Seq(S), NEW d \in Seq(S), NEW b \in Seq(S),
         NEW f, Yields(f, S), Flat(c, f) = Flat(d, f)
  PROVE  Flat((a \o c) \o b, f) = Flat((a \o d) \o b, f)
<1>1. Flat(Glued(Glued(a, c), b), f) = Flat(Glued(Glued(a, d), b), f)
  BY FlatGlued
<1> QED BY <1>1, Zenon DEF Glued

\* What is gathered stays as it is where a text put in between has nothing and a
\* joined message has what its messages had.
LEMMA ShapedKeepsFlat ==
  ASSUME NEW old, NEW new, Shaped(old, new), NEW f,
         Yields(f, ToSet(old) \cup ToSet(new)),
         \A role, p : p \in {SyntheticEmpty, SyntheticContinue} /\ Says(role, p) \in ToSet(new)
                        => f[Says(role, p)] = <<>>,
         \A run : (/\ Sound(run) /\ ToSet(run) \subseteq ToSet(old) /\ Joined(run) \in ToSet(new)
                   /\ \A m \in ToSet(run) : IsPlainText(m))
                     => f[Joined(run)] = Flat(run, f)
  PROVE  Flat(new, f) = Flat(old, f)
<1> DEFINE S == ToSet(old) \cup ToSet(new)
<1>1. CASE Inserts(old, new)
  <2>1. PICK a, b, role, p :
          /\ Sound(a) /\ Sound(b) /\ old = a \o b /\ new = (a \o <<Says(role, p)>>) \o b
          /\ p \in {SyntheticEmpty, SyntheticContinue}
    BY <1>1 DEF Inserts
  <2> DEFINE x == Says(role, p)
             one == <<x>>
  <2>2. IsSeq(one) /\ ToSet(one) = {x}
    BY OneIsSeq
  <2>3. IsSeq(a) /\ IsSeq(b) /\ new = (a \o one) \o b
    BY <2>1 DEF Sound
  <2> HIDE DEF one
  <2>4. ToSet(new) = (ToSet(a) \cup ToSet(one)) \cup ToSet(b)
    BY <2>2, <2>3, ThreeInARow
  <2>5. f[x] = <<>> /\ x \in S
    BY <2>1, <2>2, <2>4
  <2>6. a \in Seq(S) /\ one \in Seq(S) /\ b \in Seq(S)
    BY <2>2, <2>3, <2>4, SeqWithin
  <2> HIDE DEF x, S
  <2>7. a \o one \in Seq(S)
    BY <2>6
  <2>8. Yields(f, S)
    BY DEF S
  <2>9. Flat(one, f) = <<>>
    <3>1. Flat(<<x>>, f) = f[x]
      BY <2>5, FlatOne, EmptyIsSeq
    <3> QED BY <2>5, <3>1 DEF one
  <2>10. Flat(a \o one, f) = Flat(a, f) \o Flat(one, f)
    BY <2>6, <2>8, FlatConcat
  <2>11. Flat(a \o one, f) = Flat(a, f)
    BY <2>6, <2>8, <2>9, <2>10, FlatIsSeq, ConcatNothing
  <2>12. Flat((a \o one) \o b, f) = Flat(a \o one, f) \o Flat(b, f)
    <3> DEFINE ao == a \o one
    <3>1. ao \in Seq(S)
      BY <2>7
    <3> HIDE DEF ao
    <3>2. Flat(ao \o b, f) = Flat(ao, f) \o Flat(b, f)
      BY <2>6, <2>8, <3>1, FlatConcat, SMTT(20)
    <3> QED BY <3>2 DEF ao
  <2>13. Flat(a \o b, f) = Flat(a, f) \o Flat(b, f)
    BY <2>6, <2>8, FlatConcat
  <2> QED BY <2>1, <2>3, <2>11, <2>12, <2>13
<1>2. CASE Joins(old, new)
  <2>1. PICK a, run, b :
          /\ Sound(a) /\ Sound(run) /\ Sound(b)
          /\ old = (a \o run) \o b /\ new = (a \o <<Joined(run)>>) \o b
          /\ \A m \in ToSet(run) : IsPlainText(m)
    BY <1>2 DEF Joins
  <2> DEFINE x == Joined(run)
             one == <<x>>
  <2>2. IsSeq(one) /\ ToSet(one) = {x}
    BY OneIsSeq
  <2>3. IsSeq(a) /\ IsSeq(run) /\ IsSeq(b) /\ new = (a \o one) \o b
    BY <2>1 DEF Sound
  <2>4. f[x] = Flat(<<x>>, f) \/ ~IsSeq(f[x])
    BY FlatOne
  <2> HIDE DEF one
  <2>5. /\ ToSet(new) = (ToSet(a) \cup ToSet(one)) \cup ToSet(b)
        /\ ToSet(old) = (ToSet(a) \cup ToSet(run)) \cup ToSet(b)
    <3>1. \A c : IsSeq(c) => ToSet((a \o c) \o b) = (ToSet(a) \cup ToSet(c)) \cup ToSet(b)
      <4> SUFFICES ASSUME NEW c, IsSeq(c)
                   PROVE  ToSet((a \o c) \o b) = (ToSet(a) \cup ToSet(c)) \cup ToSet(b)
        OBVIOUS
      <4>1. IsSeq(a) /\ IsSeq(b) /\ IsSeq(c)
        BY <2>3
      <4> QED BY ONLY <4>1, ThreeInARow
    <3> QED BY <2>1, <2>2, <2>3, <3>1
  <2>6. f[x] = Flat(run, f) /\ x \in S
    <3>1. x \in ToSet(new) /\ ToSet(run) \subseteq ToSet(old)
      BY <2>2, <2>5
    <3>2. Sound(run) /\ \A m \in ToSet(run) : IsPlainText(m)
      BY <2>1
    <3>3. f[x] = Flat(run, f)
      BY <3>1, <3>2
    <3> QED BY <3>1, <3>3
  <2>7. a \in Seq(S) /\ one \in Seq(S) /\ b \in Seq(S) /\ run \in Seq(S)
    BY <2>2, <2>3, <2>5, SeqWithin
  <2> HIDE DEF x, S
  <2>9. Yields(f, S)
    BY DEF S
  <2>10. Flat(one, f) = Flat(run, f)
    BY <2>4, <2>6, <2>9 DEF Yields, one
  <2>11. Flat((a \o one) \o b, f) = Flat((a \o run) \o b, f)
    BY <2>7, <2>9, <2>10, FlatMiddle
  <2> QED BY <2>1, <2>3, <2>11
<1> QED BY <1>1, <1>2 DEF Shaped

-----------------------------------------------------------------------------
(* The tools of the payload.                                               *)

\* A name a client uses; the short form of a long one is taken to be nobody else's.
IsName(n) == n = <<n[1], n[2]>> /\ n[1] \in {"plain", "long"}

\* What goes out short comes back, once the long name is known.
LEMMA NameReturns ==
  ASSUME NEW n, NEW known
  PROVE  /\ Shorten(n)[1] # "long"
         /\ IsName(n) /\ (n[1] = "long" => n \in known) => Restore(known, Shorten(n)) = n
<1>1. Shorten(n)[1] # "long"
  BY DEF Shorten
<1>2. CASE n[1] = "long" /\ n = <<n[1], n[2]>> /\ n \in known
  <2> DEFINE short == Shorten(n)
  <2>1. short[1] = "short" /\ short[2] = n[2] /\ <<"long", n[2]>> = n
    BY <1>2 DEF Shorten
  <2> HIDE DEF short
  <2>2. Restore(known, short) = n
    BY <1>2, <2>1 DEF Restore
  <2> QED BY <1>1, <2>2 DEF short
<1>3. CASE n[1] = "plain"
  BY <1>1, <1>3 DEF Shorten, Restore
<1> QED BY <1>1, <1>2, <1>3 DEF IsName

\* A tool's entry is no cache point.
LEMMA ConvertedIs ==
  \A t : /\ Converted(t).kind = "tool" /\ Converted(t).name = Shorten(t.name)
         /\ Converted(t) # CachePoint /\ CachePoint.kind = "cache"
  BY DEF Converted, CachePoint

ToEntry(S) == [t \in S |-> Converted(t)]
Entry(S)   == [t \in S |-> <<Converted(t)>> \o (IF t.cached THEN <<CachePoint>> ELSE <<>>)]
Made(S)    == {Converted(t) : t \in S}

\* What a tool makes of itself is a sequence of one or two entries.
LEMMA EntryIs ==
  ASSUME NEW S, NEW t \in S
  PROVE  /\ IsSeq(Entry(S)[t])
         /\ Entry(S)[t] = IF t.cached THEN Append(<<Converted(t)>>, CachePoint) ELSE <<Converted(t)>>
<1> DEFINE one == <<Converted(t)>>
<1>1. IsSeq(one)
  BY OneIsSeq
<1>2. Entry(S)[t] = one \o (IF t.cached THEN <<CachePoint>> ELSE <<>>)
  BY DEF Entry
<1> HIDE DEF one
<1>3. CASE t.cached
  <2>1. Entry(S)[t] = one \o <<CachePoint>>
    BY <1>2, <1>3
  <2>2. one \o <<CachePoint>> = Append(one, CachePoint)
    BY <1>1, AppendJoins
  <2>3. IsSeq(Append(one, CachePoint))
    BY <1>1, AppendIsSeq
  <2>4. Entry(S)[t] = Append(one, CachePoint)
    BY <2>1, <2>2
  <2> QED BY <1>3, <2>3, <2>4 DEF one
<1>4. CASE ~t.cached
  <2>1. Entry(S)[t] = one \o <<>>
    BY <1>2, <1>4
  <2> QED BY <1>1, <1>4, <2>1, ConcatNothing DEF one
<1> QED BY <1>3, <1>4

\* convert_tools and apply_tool_cache_points, one tool more.
LEMMA EntriesGrow ==
  ASSUME NEW S, NEW c \in Seq(S), NEW t \in S
  PROVE  LET e    == ToolEntries(c)
             more == Append(e, Converted(t))
         IN /\ IsSeq(e) /\ IsSeq(more)
            /\ ToolEntries(Append(c, t)) = IF t.cached THEN Append(more, CachePoint) ELSE more
<1> DEFINE e == ToolEntries(c)
           more == Append(e, Converted(t))
           one == <<Converted(t)>>
<1>1. Yields(Entry(S), S)
  BY EntryIs DEF Yields
<1>2. \A d \in Seq(S) : ToolEntries(d) = Flat(d, Entry(S))
  <2> TAKE d \in Seq(S)
  <2>1. \A i \in DOMAIN d : d[i] \in S
    OBVIOUS
  <2>2. \A i \in DOMAIN d : Entry(S)[d[i]] = <<Converted(d[i])>> \o (IF d[i].cached THEN <<CachePoint>> ELSE <<>>)
    BY <2>1 DEF Entry
  <2>3. Mapped(d, Entry(S)) = [i \in DOMAIN d |->
          <<Converted(d[i])>> \o (IF d[i].cached THEN <<CachePoint>> ELSE <<>>)]
    BY <2>2, Zenon DEF Mapped
  <2> QED BY <2>3, Zenon DEF Flat, ToolEntries
<1>3. Append(c, t) \in Seq(S)
  OBVIOUS
<1>4. IsSeq(e) /\ ToolEntries(Append(c, t)) = e \o Entry(S)[t]
  <2> DEFINE m == Entry(S)
  <2>1. Yields(m, S) /\ ToolEntries(c) = Flat(c, m) /\ ToolEntries(Append(c, t)) = Flat(Append(c, t), m)
    BY <1>1, <1>2, <1>3
  <2> HIDE DEF m
  <2>2. IsSeq(Flat(c, m)) /\ Flat(Append(c, t), m) = Flat(c, m) \o m[t]
    BY <2>1, FlatAppend
  <2> QED BY <2>1, <2>2, Zenon DEF m
<1>5. IsSeq(one)
  BY OneIsSeq
<1> HIDE DEF e
<1>6. IsSeq(more) /\ more = e \o one
  BY <1>4, AppendIsSeq, AppendJoins
<1>7. CASE t.cached
  <2>1. Entry(S)[t] = Append(one, CachePoint) /\ Append(one, CachePoint) = one \o <<CachePoint>>
    BY <1>5, <1>7, EntryIs, AppendJoins
  <2> DEFINE point == <<CachePoint>>
  <2>2. IsSeq(point)
    BY OneIsSeq
  <2>3. ToolEntries(Append(c, t)) = e \o (one \o point)
    BY <1>4, <2>1
  <2> HIDE DEF one, point
  <2>4. (e \o one) \o point = e \o (one \o point)
    BY <1>4, <1>5, <2>2, ConcatAssoc
  <2>5. ToolEntries(Append(c, t)) = more \o point
    BY <1>6, <2>3, <2>4
  <2> HIDE DEF more
  <2>6. more \o point = Append(more, CachePoint)
    BY <1>6, AppendJoins DEF point
  <2> QED BY <1>4, <1>6, <1>7, <2>5, <2>6 DEF e, more
<1>8. CASE ~t.cached
  <2>1. ToolEntries(Append(c, t)) = more
    BY <1>4, <1>6, <1>8, EntryIs
  <2> QED BY <1>4, <1>6, <1>8, <2>1 DEF e
<1> QED BY <1>7, <1>8

\* How many tools stand before each cache point.
Behind(e, T) == {Len(Kept(SubSeq(e, 1, i), T)) : i \in {j \in DOMAIN e : e[j] \notin T}}

\* An entry added is behind all tools so far.
LEMMA BehindAppend ==
  ASSUME NEW e, IsSeq(e), NEW x, NEW T
  PROVE  Behind(Append(e, x), T) =
           Behind(e, T) \cup (IF x \in T THEN {} ELSE {Len(Kept(Append(e, x), T))})
<1> DEFINE f == Append(e, x)
           n == Len(e)
<1>1. /\ IsSeq(f) /\ Len(f) = n + 1 /\ f[n + 1] = x /\ \A i \in 1..n : f[i] = e[i]
      /\ n \in Nat /\ DOMAIN e = 1..n
  BY AppendIsSeq, IsSeqFacts
<1> HIDE DEF f, n
<1>2. DOMAIN f = (1..n) \cup {n + 1}
  <2>1. DOMAIN f = 1..(n + 1)
    BY <1>1, IsSeqFacts
  <2> QED BY <1>1, <2>1
<1>3. \A i \in 1..n : SubSeq(f, 1, i) = SubSeq(e, 1, i)
  <2> TAKE i \in 1..n
  <2>1. i \in Nat /\ i <= Len(f) /\ i <= Len(e) /\ 1 \in Nat \ {0}
    BY <1>1 DEF n
  <2> DEFINE a == SubSeq(f, 1, i)
             b == SubSeq(e, 1, i)
  <2>2. /\ IsSeq(a) /\ Len(a) = (IF 1 <= i THEN i - 1 + 1 ELSE 0)
        /\ \A k \in 1..Len(a) : a[k] = f[1 + k - 1]
    <3>1. IsSeq(f)
      BY <1>1
    <3> QED BY <2>1, <3>1, SubSeqIsSeq
  <2>3. /\ IsSeq(b) /\ Len(b) = (IF 1 <= i THEN i - 1 + 1 ELSE 0)
        /\ \A k \in 1..Len(b) : b[k] = e[1 + k - 1]
    BY <2>1, SubSeqIsSeq
  <2> HIDE DEF a, b
  <2>4. Len(a) = Len(b) /\ Len(a) = i
    BY <2>1, <2>2, <2>3
  <2>5. \A k \in 1..i : a[k] = b[k]
    <3> TAKE k \in 1..i
    <3>1. 1 + k - 1 = k /\ k \in 1..n
      BY <2>1 DEF n
    <3> QED BY <1>1, <2>2, <2>3, <2>4, <3>1
  <2>6. a = b
    BY <2>2, <2>3, <2>4, <2>5, SeqSame
  <2> QED BY <2>6 DEF a, b
<1>4. SubSeq(f, 1, n + 1) = f
  <2>1. 1 \in Nat \ {0} /\ n + 1 \in Nat /\ n + 1 <= Len(f)
    BY <1>1
  <2> DEFINE a == SubSeq(f, 1, n + 1)
  <2>2. /\ IsSeq(a) /\ Len(a) = (IF 1 <= n + 1 THEN n + 1 - 1 + 1 ELSE 0)
        /\ \A k \in 1..Len(a) : a[k] = f[1 + k - 1]
    BY <1>1, <2>1, SubSeqIsSeq
  <2> HIDE DEF a
  <2>3. Len(a) = Len(f)
    BY <1>1, <2>2
  <2>4. \A k \in 1..Len(a) : 1 + k - 1 = k
    BY <1>1, <2>3
  <2>5. a = f
    BY <1>1, <2>2, <2>3, <2>4, SeqSame
  <2> QED BY <2>5 DEF a
<1>5. {j \in DOMAIN f : f[j] \notin T} =
        {j \in DOMAIN e : e[j] \notin T} \cup (IF x \in T THEN {} ELSE {n + 1})
  BY <1>1, <1>2
<1> DEFINE A == {j \in DOMAIN e : e[j] \notin T}
           W(i) == Len(Kept(SubSeq(f, 1, i), T))
           V(i) == Len(Kept(SubSeq(e, 1, i), T))
<1>6. \A i \in A : W(i) = V(i)
  BY <1>1, <1>3
<1>7. W(n + 1) = Len(Kept(f, T))
  BY <1>4
<1> HIDE DEF A, W, V
<1>8. {W(i) : i \in A \cup (IF x \in T THEN {} ELSE {n + 1})}
        = {V(i) : i \in A} \cup (IF x \in T THEN {} ELSE {Len(Kept(f, T))})
  BY <1>6, <1>7
<1>9. Behind(f, T) = {W(i) : i \in A \cup (IF x \in T THEN {} ELSE {n + 1})}
  BY <1>5 DEF Behind, W, A
<1>10. Behind(e, T) = {V(i) : i \in A}
  BY DEF Behind, V, A
<1> QED BY <1>8, <1>9, <1>10 DEF f

\* What is behind a part of nothing.
LEMMA BehindNothing == \A T : Behind(<<>>, T) = {}
  BY EmptyIsSeq DEF Behind

CachedAt(c) == {i \in DOMAIN c : c[i].cached}

\* The cached ones among the tools, one tool more.
LEMMA CachedAppend ==
  ASSUME NEW c, IsSeq(c), NEW t
  PROVE  CachedAt(Append(c, t)) = CachedAt(c) \cup (IF t.cached THEN {Len(c) + 1} ELSE {})
<1> DEFINE d == Append(c, t)
<1>1. /\ IsSeq(d) /\ Len(d) = Len(c) + 1 /\ d[Len(c) + 1] = t /\ \A i \in 1..Len(c) : d[i] = c[i]
      /\ Len(c) \in Nat /\ DOMAIN c = 1..Len(c)
  BY AppendIsSeq, IsSeqFacts
<1> HIDE DEF d
<1>2. DOMAIN d = (1..Len(c)) \cup {Len(c) + 1}
  <2>1. DOMAIN d = 1..(Len(c) + 1)
    BY <1>1, IsSeqFacts
  <2> QED BY <1>1, <2>1
<1>3. {i \in DOMAIN d : d[i].cached} = {i \in DOMAIN c : c[i].cached} \cup (IF t.cached THEN {Len(c) + 1} ELSE {})
  BY <1>1, <1>2
<1> QED BY <1>3 DEF CachedAt, d

\* What the entries of the payload are: the tools in their order, and a cache point
\* right behind each that asked for one.
Fits(S, c) ==
  LET e == ToolEntries(c)
  IN /\ IsSeq(e) /\ ToSet(e) \subseteq Made(S) \cup {CachePoint}
     /\ Kept(e, Made(S)) = Mapped(c, ToEntry(S)) /\ Len(Kept(e, Made(S))) = Len(c)
     /\ Behind(e, Made(S)) = CachedAt(c)

\* Every tool more leaves it so.
LEMMA FitsAppend ==
  ASSUME NEW S, NEW c \in Seq(S), NEW t \in S, Fits(S, c)
  PROVE  Fits(S, Append(c, t))
<1> DEFINE T == Made(S)
           e == ToolEntries(c)
           x == Converted(t)
           more == Append(e, x)
           d == Append(c, t)
           m == ToEntry(S)
<1>1. /\ IsSeq(e) /\ IsSeq(more) /\ ToolEntries(d) = IF t.cached THEN Append(more, CachePoint) ELSE more
  BY EntriesGrow
<1>2. x \in T /\ CachePoint \notin T /\ m[t] = x
  BY ConvertedIs DEF Made, ToEntry
<1>3. IsSeq(c) /\ Len(d) = Len(c) + 1 /\ Len(c) \in Nat /\ IsSeq(d)
  BY SeqIs, AppendIsSeq, IsSeqFacts
<1>4. ToSet(e) \subseteq T \cup {CachePoint} /\ Kept(e, T) = Mapped(c, m) /\ Len(Kept(e, T)) = Len(c)
      /\ Behind(e, T) = CachedAt(c)
  BY DEF Fits
<1>5. Mapped(d, m) = Append(Mapped(c, m), x)
  <2>1. Mapped(Append(c, t), m) = Append(Mapped(c, m), m[t])
    BY <1>3, MapAppend
  <2> QED BY <1>2, <2>1
<1>6. CachedAt(d) = CachedAt(c) \cup (IF t.cached THEN {Len(c) + 1} ELSE {})
  BY <1>3, CachedAppend
<1> HIDE DEF T, e, x, d, m
<1>7. Kept(more, T) = Append(Kept(e, T), x) /\ IsSeq(Kept(e, T))
  BY <1>1, <1>2, KeptAppend, KeptIsSeq
<1>8. Kept(more, T) = Mapped(d, m) /\ Len(Kept(more, T)) = Len(d)
  <2>1. Len(Append(Kept(e, T), x)) = Len(Kept(e, T)) + 1
    BY <1>7, AppendIsSeq
  <2> QED BY <1>3, <1>4, <1>5, <1>7, <2>1
<1>9. ToSet(more) \subseteq T \cup {CachePoint}
  BY <1>1, <1>2, <1>4, AppendElements
<1>10. Behind(more, T) = Behind(e, T)
  <2>1. Behind(more, T) = Behind(e, T) \cup (IF x \in T THEN {} ELSE {Len(Kept(more, T))})
    BY <1>1, BehindAppend
  <2> QED BY <1>2, <2>1
<1> HIDE DEF more
<1>11. CASE t.cached
  <2> DEFINE g == Append(more, CachePoint)
  <2>1. IsSeq(g) /\ ToSet(g) \subseteq T \cup {CachePoint}
    BY <1>1, <1>9, AppendIsSeq, AppendElements
  <2>2. Kept(g, T) = Kept(more, T)
    BY <1>1, <1>2, KeptAppend
  <2>3. Behind(g, T) = Behind(more, T) \cup (IF CachePoint \in T THEN {} ELSE {Len(Kept(g, T))})
    BY <1>1, BehindAppend
  <2> HIDE DEF g
  <2>4. Behind(g, T) = CachedAt(d)
    BY <1>2, <1>3, <1>4, <1>6, <1>8, <1>10, <1>11, <2>2, <2>3
  <2>5. ToolEntries(d) = g
    BY <1>1, <1>11 DEF g
  <2> QED BY <1>8, <2>1, <2>2, <2>4, <2>5 DEF Fits, T, d, m
<1>12. CASE ~t.cached
  <2>1. ToolEntries(d) = more /\ CachedAt(d) = CachedAt(c)
    BY <1>1, <1>6, <1>12
  <2> QED BY <1>1, <1>4, <1>8, <1>9, <1>10, <2>1 DEF Fits, T, d, m
<1> QED BY <1>11, <1>12

\* The entries of any tools.
LEMMA EntriesFit ==
  ASSUME NEW S, NEW c \in Seq(S)
  PROVE  Fits(S, c)
<1> DEFINE Good == {d \in Seq(S) : Fits(S, d)}
<1>1. <<>> \in Good
  <2>1. ToolEntries(<<>>) = <<>>
    <3>1. [i \in DOMAIN <<>> |-> <<Converted(<<>>[i])>> \o (IF <<>>[i].cached THEN <<CachePoint>> ELSE <<>>)] = <<>>
      OBVIOUS
    <3> QED BY <3>1, FlattenEmpty DEF ToolEntries
  <2>2. Mapped(<<>>, ToEntry(S)) = <<>>
    BY DEF Mapped
  <2>3. CachedAt(<<>>) = {}
    BY DEF CachedAt
  <2>4. Kept(<<>>, Made(S)) = <<>> /\ Behind(<<>>, Made(S)) = {}
    BY KeptEmpty, BehindNothing
  <2>5. IsSeq(<<>>) /\ ToSet(<<>>) = {} /\ <<>> \in Seq(S) /\ Len(<<>>) = 0
    BY EmptyIsSeq, ElementsOf
  <2> QED BY <2>1, <2>2, <2>3, <2>4, <2>5 DEF Fits
<1>2. \A s \in Seq(S) : \A x \in S : s \in Good => Append(s, x) \in Good
  BY FitsAppend
<1> HIDE DEF Good
<1>3. Seq(S) \subseteq Good
  BY <1>1, <1>2, BySequence
<1> QED BY <1>3 DEF Good

ToolsIn(e) == Keep(e, LAMBDA x : x.kind = "tool")

\* The tools among the entries.
LEMMA ToolsInAre ==
  ASSUME NEW S, NEW e, ToSet(e) \subseteq Made(S) \cup {CachePoint}
  PROVE  ToolsIn(e) = Kept(e, Made(S))
<1>1. \A i \in DOMAIN e : e[i] \in Made(S) <=> e[i].kind = "tool"
  <2> TAKE i \in DOMAIN e
  <2>1. e[i] \in Made(S) \cup {CachePoint}
    BY DEF ToSet
  <2>2. \A x \in Made(S) : x.kind = "tool"
    BY ConvertedIs DEF Made
  <2>3. CachePoint \notin Made(S) /\ CachePoint.kind # "tool"
    BY ConvertedIs DEF Made
  <2> QED BY <2>1, <2>2, <2>3
<1>2. [i \in DOMAIN e |-> IF e[i].kind = "tool" THEN <<e[i]>> ELSE <<>>]
        = [i \in DOMAIN e |-> IF e[i] \in Made(S) THEN <<e[i]>> ELSE <<>>]
  BY <1>1
<1> QED BY <1>2, Zenon DEF ToolsIn, Keep, Kept

\* Every tool goes out under a name that is not long and comes back under its own,
\* and the cache points stand behind the tools that asked for one.
LEMMA ToolsReturn ==
  ASSUME NEW c, IsSeq(c), NEW known,
         \A t \in ToSet(c) : IsName(t.name) /\ (t.name[1] = "long" => t.name \in known)
  PROVE  LET e     == ToolEntries(c)
             tools == ToolsIn(e)
         IN /\ [i \in DOMAIN tools |-> Restore(known, tools[i].name)] = [i \in DOMAIN c |-> c[i].name]
            /\ \A t \in ToSet(tools) : t.name[1] # "long"
            /\ {Len(ToolsIn(SubSeq(e, 1, i))) : i \in {j \in DOMAIN e : ~(e[j].kind = "tool")}} = CachedAt(c)
<1> DEFINE S == ToSet(c)
           e == ToolEntries(c)
           T == Made(S)
           tools == ToolsIn(e)
<1>1. c \in Seq(S)
  BY IsSeqFacts
<1>2. Fits(S, c)
  BY <1>1, EntriesFit
<1>3. /\ IsSeq(e) /\ ToSet(e) \subseteq T \cup {CachePoint}
      /\ Kept(e, T) = Mapped(c, ToEntry(S)) /\ Len(Kept(e, T)) = Len(c)
      /\ Behind(e, T) = CachedAt(c)
  BY <1>2 DEF Fits
<1>4. tools = Mapped(c, ToEntry(S))
  BY <1>3, ToolsInAre
<1>5. DOMAIN tools = DOMAIN c /\ \A i \in DOMAIN c : tools[i] = Converted(c[i]) /\ c[i] \in S
  <2>1. \A i \in DOMAIN c : c[i] \in S
    BY DEF ToSet
  <2>2. \A i \in DOMAIN c : ToEntry(S)[c[i]] = Converted(c[i])
    BY <2>1 DEF ToEntry
  <2> QED BY <1>4, <2>1, <2>2 DEF Mapped
<1> HIDE DEF e, tools
<1>6. \A i \in DOMAIN c : /\ tools[i].name = Shorten(c[i].name)
                          /\ Restore(known, tools[i].name) = c[i].name
                          /\ tools[i].name[1] # "long"
  <2> TAKE i \in DOMAIN c
  <2>1. tools[i].name = Shorten(c[i].name)
    BY <1>5, ConvertedIs
  <2>2. IsName(c[i].name) /\ (c[i].name[1] = "long" => c[i].name \in known)
    BY <1>5
  <2> QED BY <2>1, <2>2, NameReturns
<1>7. [i \in DOMAIN tools |-> Restore(known, tools[i].name)] = [i \in DOMAIN c |-> c[i].name]
  BY <1>5, <1>6
<1>8. \A t \in ToSet(tools) : t.name[1] # "long"
  BY <1>5, <1>6 DEF ToSet
<1>9. {Len(ToolsIn(SubSeq(e, 1, i))) : i \in {j \in DOMAIN e : ~(e[j].kind = "tool")}} = CachedAt(c)
  <2>1. {j \in DOMAIN e : ~(e[j].kind = "tool")} = {j \in DOMAIN e : e[j] \notin T}
    <3>1. \A x \in T : x.kind = "tool"
      BY ConvertedIs DEF Made
    <3>2. CachePoint \notin T /\ CachePoint.kind # "tool"
      BY ConvertedIs DEF Made
    <3>3. \A j \in DOMAIN e : e[j] \in T \cup {CachePoint}
      BY <1>3 DEF ToSet
    <3> HIDE DEF T
    <3> QED BY <3>1, <3>2, <3>3
  <2>2. \A i \in DOMAIN e : ToolsIn(SubSeq(e, 1, i)) = Kept(SubSeq(e, 1, i), T)
    <3> TAKE i \in DOMAIN e
    <3>1. i \in Nat /\ i <= Len(e) /\ 1 \in Nat \ {0}
      BY <1>3, IsSeqFacts
    <3> DEFINE b == SubSeq(e, 1, i)
    <3>2. /\ IsSeq(b) /\ Len(b) = (IF 1 <= i THEN i - 1 + 1 ELSE 0)
          /\ \A k \in 1..Len(b) : b[k] = e[1 + k - 1]
      BY <1>3, <3>1, SubSeqIsSeq
    <3> HIDE DEF b
    <3>3. \A k \in 1..Len(b) : b[k] \in ToSet(e)
      <4> TAKE k \in 1..Len(b)
      <4>1. 1 + k - 1 \in 1..Len(e)
        <5>1. Len(b) \in Nat /\ Len(e) \in Nat /\ (Len(b) = 0 \/ Len(b) = i)
          BY <1>3, <3>1, <3>2, IsSeqFacts
        <5> QED BY <3>1, <5>1
      <4>2. b[k] = e[1 + k - 1]
        BY <3>2
      <4>3. \A j \in 1..Len(e) : e[j] \in ToSet(e)
        BY <1>3, ElementsOf
      <4> QED BY <4>1, <4>2, <4>3
    <3>4. ToSet(b) \subseteq ToSet(e)
      BY <3>2, <3>3, ElementsOf
    <3>5. ToolsIn(b) = Kept(b, T)
      BY <1>3, <3>4, ToolsInAre
    <3> QED BY <3>5 DEF b
  <2> DEFINE W(i) == Len(ToolsIn(SubSeq(e, 1, i)))
             V(i) == Len(Kept(SubSeq(e, 1, i), T))
             A == {j \in DOMAIN e : e[j] \notin T}
  <2>3. \A i \in A : W(i) = V(i)
    BY <2>2
  <2>4. A = {j \in DOMAIN e : ~(e[j].kind = "tool")} /\ Behind(e, T) = {V(i) : i \in A}
    BY <2>1 DEF Behind
  <2> HIDE DEF W, V, A
  <2>5. {W(i) : i \in A} = {V(i) : i \in A}
    BY <2>3
  <2>6. {W(i) : i \in A} = CachedAt(c)
    BY <1>3, <2>4, <2>5
  <2>7. {W(i) : i \in {j \in DOMAIN e : ~(e[j].kind = "tool")}} = CachedAt(c)
    BY <2>4, <2>6
  <2> QED BY <2>7 DEF W
<1> QED BY <1>7, <1>8, <1>9 DEF e, tools

-----------------------------------------------------------------------------
(* The names of the uses.                                                  *)

Names(c)   == [k \in DOMAIN ToolUses(c) |-> ToolUses(c)[k].name]
NamesOf(S) == [m \in S |-> Names(m.content)]

\* The names of the uses of a content, and what they depend on.
LEMMA NamesAre ==
  ASSUME NEW c, IsSeq(c)
  PROVE  /\ IsSeq(Names(c)) /\ Len(Names(c)) = Len(ToolUses(c))
         /\ ToSet(Names(c)) = {b.name : b \in {x \in ToSet(c) : IsToolUse(x)}}
         /\ (\A b \in ToSet(c) : ~IsToolUse(b)) => Names(c) = <<>>
<1> DEFINE U == ToolUses(c)
           N == Names(c)
<1>1. IsSeq(U) /\ ToSet(U) = {b \in ToSet(c) : IsToolUse(b)}
  BY UsesAre
<1>2. DOMAIN N = DOMAIN U /\ N = [k \in DOMAIN U |-> N[k]] /\ \A k \in DOMAIN U : N[k] = U[k].name
  BY DEF Names
<1> HIDE DEF U, N
<1>3. IsSeq(N) /\ Len(N) = Len(U)
  BY <1>1, <1>2, MapIsSeq
<1>4. ToSet(N) = {b.name : b \in ToSet(U)}
  BY <1>2 DEF ToSet
<1>5. (\A b \in ToSet(c) : ~IsToolUse(b)) => N = <<>>
  <2>1. (\A b \in ToSet(c) : ~IsToolUse(b)) => ToSet(U) = {}
    BY <1>1
  <2>2. ToSet(U) = {} => ToSet(N) = {}
    BY <1>4
  <2> QED BY <1>3, <2>1, <2>2, ElementsOf
<1>6. ToSet(N) = {b.name : b \in {x \in ToSet(c) : IsToolUse(x)}}
  BY <1>1, <1>4
<1> QED BY <1>3, <1>5, <1>6 DEF U, N

\* What is kept depends on what is in the set, place by place.
LEMMA KeptPlaces ==
  ASSUME NEW s, NEW t, DOMAIN s = DOMAIN t, NEW T, NEW U,
         \A i \in DOMAIN s : (s[i] \in T <=> t[i] \in U) /\ (s[i] \in T => t[i] = s[i])
  PROVE  Kept(s, T) = Kept(t, U)
<1>1. [i \in DOMAIN s |-> IF s[i] \in T THEN <<s[i]>> ELSE <<>>]
        = [i \in DOMAIN t |-> IF t[i] \in U THEN <<t[i]>> ELSE <<>>]
  OBVIOUS
<1> QED BY <1>1, Zenon DEF Kept

\* Text for the orphaned results leaves the uses.
LEMMA OrphansKeepUses ==
  ASSUME NEW c, IsSeq(c), NEW ids
  PROVE  ToolUses(OrphansText(c, ids)) = ToolUses(c) /\ IsSeq(OrphansText(c, ids))
<1> DEFINE d == OrphansText(c, ids)
<1>1. /\ DOMAIN d = DOMAIN c /\ d = [k \in DOMAIN c |-> d[k]]
      /\ \A k \in DOMAIN c : d[k] = IF IsToolResult(c[k]) /\ c[k].id \notin ids
                                    THEN AsResultText(c[k]) ELSE c[k]
  BY DEF OrphansText
<1> HIDE DEF d
<1>2. IsSeq(d)
  BY <1>1, MapIsSeq
<1>3. \A b : ~IsToolUse(AsResultText(b)) /\ (IsToolResult(b) => ~IsToolUse(b))
  BY TextBlockIs DEF AsResultText, IsToolUse, IsToolResult
<1> DEFINE T == {b \in ToSet(c) : IsToolUse(b)}
           U == {b \in ToSet(d) : IsToolUse(b)}
<1>4. \A i \in DOMAIN c : (c[i] \in T <=> d[i] \in U) /\ (c[i] \in T => d[i] = c[i])
  <2> TAKE i \in DOMAIN c
  <2>1. c[i] \in ToSet(c) /\ d[i] \in ToSet(d)
    BY <1>1 DEF ToSet
  <2> QED BY <1>1, <1>3, <2>1
<1> HIDE DEF T, U
<1>5. Kept(c, T) = Kept(d, U)
  BY <1>1, <1>4, KeptPlaces
<1> QED BY <1>2, <1>5, UsesAre DEF T, U, d

\* What is gathered depends on what each place has.
LEMMA FlatPlaces ==
  ASSUME NEW s, NEW t, DOMAIN s = DOMAIN t, NEW f, NEW g, \A i \in DOMAIN s : f[s[i]] = g[t[i]]
  PROVE  Flat(s, f) = Flat(t, g)
<1>1. Mapped(s, f) = Mapped(t, g)
  BY DEF Mapped
<1> QED BY <1>1 DEF Flat

UsedNames(seq) == Flat(seq, NamesOf(ToSet(seq)))

\* The uses of a client are in its assistants' messages.
ProperUses(seq) ==
  \A m \in ToSet(seq) : \A b \in ToSet(m.content) : IsToolUse(b) => m.role = "assistant" /\ IsName(b.name)

ProperTools(r) == ProperUses(r.messages) /\ \A t \in ToSet(r.tools) : IsName(t.name)

\* The names of the uses are the same after Textualize, if there are tools.
LEMMA TextualizeKeepsNames ==
  ASSUME Sound(msgs), Textualize, ProperUses(msgs)
  PROVE  ProperUses(msgs') /\ (entries # <<>> => UsedNames(msgs') = UsedNames(msgs))
<1>1. /\ Sound(msgs') /\ Len(msgs') = Len(msgs)
      /\ \A i \in 1..Len(msgs) :
           /\ WellMade(msgs[i])
           /\ msgs'[i] = IF entries = <<>> THEN TextualizeAll(msgs[i]) ELSE TextualizeOrphans(msgs, i)
  BY TextualizeSound
<1>2. /\ DOMAIN msgs = 1..Len(msgs) /\ DOMAIN msgs' = 1..Len(msgs)
      /\ ToSet(msgs) = {msgs[i] : i \in 1..Len(msgs)} /\ ToSet(msgs') = {msgs'[i] : i \in 1..Len(msgs)}
  BY <1>1, IsSeqFacts, ElementsOf DEF Sound
<1>3. ASSUME NEW i \in 1..Len(msgs), entries # <<>>
      PROVE  msgs'[i].role = msgs[i].role /\ ToolUses(msgs'[i].content) = ToolUses(msgs[i].content)
             /\ IsSeq(msgs'[i].content) /\ IsSeq(msgs[i].content)
  <2>1. WellMade(msgs[i]) /\ msgs'[i] = TextualizeOrphans(msgs, i)
    BY <1>1, <1>3
  <2>2. IsSeq(msgs[i].content)
    BY <2>1 DEF WellMade
  <2>3. /\ msgs'[i].role = msgs[i].role
        /\ msgs'[i].content = IF msgs[i].role # "user" THEN msgs[i].content
                              ELSE OrphansText(msgs[i].content, PrecedingIds(msgs, i))
    BY <2>1, OrphansTextIs
  <2> QED BY <2>2, <2>3, OrphansKeepUses
<1>4. ASSUME NEW i \in 1..Len(msgs), NEW b \in ToSet(msgs'[i].content), IsToolUse(b)
      PROVE  msgs'[i].role = "assistant" /\ IsName(b.name)
  <2>1. entries # <<>>
    <3>1. entries = <<>> => NoTools(msgs'[i])
      BY <1>1, AllTextHasNoTools
    <3> QED BY <1>4, <3>1 DEF NoTools
  <2>2. b \in ToSet(ToolUses(msgs'[i].content))
    BY <1>3, <1>4, <2>1, UsesAre
  <2>3. b \in ToSet(msgs[i].content)
    BY <1>3, <2>1, <2>2, UsesAre
  <2>4. msgs[i] \in ToSet(msgs)
    BY <1>2
  <2> QED BY <1>3, <1>4, <2>1, <2>3, <2>4 DEF ProperUses
<1>5. ProperUses(msgs')
  BY <1>2, <1>4 DEF ProperUses
<1>6. ASSUME entries # <<>> PROVE UsedNames(msgs') = UsedNames(msgs)
  <2>1. \A i \in DOMAIN msgs' : NamesOf(ToSet(msgs'))[msgs'[i]] = NamesOf(ToSet(msgs))[msgs[i]]
    <3> TAKE i \in DOMAIN msgs'
    <3>1. i \in 1..Len(msgs) /\ msgs[i] \in ToSet(msgs) /\ msgs'[i] \in ToSet(msgs')
      BY <1>2
    <3>2. ToolUses(msgs'[i].content) = ToolUses(msgs[i].content)
      BY <1>3, <1>6, <3>1
    <3> QED BY <3>1, <3>2 DEF NamesOf, Names
  <2> DEFINE f == NamesOf(ToSet(msgs'))
             g == NamesOf(ToSet(msgs))
  <2>2. DOMAIN msgs' = DOMAIN msgs /\ \A i \in DOMAIN msgs' : f[msgs'[i]] = g[msgs[i]]
    BY <1>2, <2>1
  <2> HIDE DEF f, g
  <2>3. Flat(msgs', f) = Flat(msgs, g)
    BY <2>2, FlatPlaces
  <2> QED BY <2>3, Zenon DEF UsedNames, f, g
<1> QED BY <1>5, <1>6

\* NormalizeRoles changes no use.
LEMMA RolesKeepNames ==
  ASSUME Sound(msgs), NormalizeRoles, ProperUses(msgs)
  PROVE  ProperUses(msgs') /\ UsedNames(msgs') = UsedNames(msgs)
<1>1. /\ Sound(msgs') /\ Len(msgs') = Len(msgs)
      /\ \A i \in 1..Len(msgs) :
           /\ msgs'[i].content = msgs[i].content
           /\ msgs'[i].role = IF msgs[i].role = "other" THEN "user" ELSE msgs[i].role
  BY RolesSound
<1>2. /\ DOMAIN msgs = 1..Len(msgs) /\ DOMAIN msgs' = 1..Len(msgs)
      /\ ToSet(msgs) = {msgs[i] : i \in 1..Len(msgs)} /\ ToSet(msgs') = {msgs'[i] : i \in 1..Len(msgs)}
  BY <1>1, IsSeqFacts, ElementsOf DEF Sound
<1>3. ProperUses(msgs')
  <2>1. ASSUME NEW i \in 1..Len(msgs), NEW b \in ToSet(msgs'[i].content), IsToolUse(b)
        PROVE  msgs'[i].role = "assistant" /\ IsName(b.name)
    <3>1. msgs[i] \in ToSet(msgs) /\ b \in ToSet(msgs[i].content)
      BY <1>1, <1>2, <2>1
    <3>2. msgs[i].role = "assistant" /\ IsName(b.name)
      BY <2>1, <3>1 DEF ProperUses
    <3> QED BY <1>1, <3>2
  <2> QED BY <1>2, <2>1 DEF ProperUses
<1> DEFINE f == NamesOf(ToSet(msgs'))
           g == NamesOf(ToSet(msgs))
<1>4. DOMAIN msgs' = DOMAIN msgs /\ \A i \in DOMAIN msgs' : f[msgs'[i]] = g[msgs[i]]
  <2>1. \A i \in 1..Len(msgs) : f[msgs'[i]] = Names(msgs'[i].content) /\ g[msgs[i]] = Names(msgs[i].content)
    BY <1>2 DEF NamesOf
  <2> HIDE DEF f, g
  <2> QED BY <1>1, <1>2, <2>1
<1> HIDE DEF f, g
<1>5. Flat(msgs', f) = Flat(msgs, g)
  BY <1>4, FlatPlaces
<1> QED BY <1>3, <1>5, Zenon DEF UsedNames, f, g

\* A message without tool content has no names.
LEMMA NoNames ==
  ASSUME NEW m, NoTools(m), IsSeq(m.content)
  PROVE  Names(m.content) = <<>>
  BY NamesAre DEF NoTools

\* Merging, inserting and splitting change no use.
LEMMA ShapedKeepsNames ==
  ASSUME NEW old, NEW new, Shaped(old, new), Sound(old), Sound(new), ProperUses(old)
  PROVE  ProperUses(new) /\ UsedNames(new) = UsedNames(old)
<1>1. \A m \in ToSet(new) : m \in ToSet(old) \/ NoTools(m)
  BY ShapedAddsPlain
<1>2. ProperUses(new)
  BY <1>1 DEF ProperUses, NoTools
<1> DEFINE S == ToSet(old) \cup ToSet(new)
           f == NamesOf(S)
<1>3. \A m \in S : IsSeq(m.content) /\ f[m] = Names(m.content)
  BY DEF Sound, WellMade, NamesOf
<1> HIDE DEF f
<1>4. Yields(f, S)
  BY <1>3, NamesAre DEF Yields
<1>5. \A role, p : p \in {SyntheticEmpty, SyntheticContinue} /\ Says(role, p) \in ToSet(new)
        => f[Says(role, p)] = <<>>
  BY <1>3, SaysIsNoTools, NoNames
<1>6. \A run : (/\ Sound(run) /\ ToSet(run) \subseteq ToSet(old) /\ Joined(run) \in ToSet(new)
                /\ \A m \in ToSet(run) : IsPlainText(m))
                  => f[Joined(run)] = Flat(run, f)
  <2> SUFFICES ASSUME NEW run, Sound(run), ToSet(run) \subseteq ToSet(old), Joined(run) \in ToSet(new),
                      \A m \in ToSet(run) : IsPlainText(m)
               PROVE  f[Joined(run)] = Flat(run, f)
    BY Zenon
  <2>1. NoTools(Joined(run))
    BY JoinedIsSound, PlainIsNoTools
  <2>2. f[Joined(run)] = <<>>
    BY <1>3, <2>1, NoNames
  <2>3. \A m \in ToSet(run) : f[m] = <<>>
    BY <1>3, PlainIsNoTools, NoNames
  <2>4. Flat(run, f) = <<>>
    BY <2>3, FlatNone DEF Sound
  <2> QED BY <2>2, <2>4
<1>7. Flat(new, f) = Flat(old, f)
  BY <1>4, <1>5, <1>6, ShapedKeepsFlat
<1>8. \A m \in ToSet(new) : f[m] = NamesOf(ToSet(new))[m]
  BY <1>3 DEF NamesOf
<1>9. \A m \in ToSet(old) : f[m] = NamesOf(ToSet(old))[m]
  BY <1>3 DEF NamesOf
<1>10. Flat(new, f) = UsedNames(new)
  BY <1>8, FlatSame DEF UsedNames
<1>11. Flat(old, f) = UsedNames(old)
  BY <1>9, FlatSame DEF UsedNames
<1> QED BY <1>2, <1>7, <1>10, <1>11

Afterwards == {"roles", "merge", "alternate", "history", "current", "sent"}

\* The uses are those of the request.
UInv ==
  stage \in Afterwards /\ ProperTools(request) =>
    ProperUses(Whole) /\ (entries # <<>> => UsedNames(Whole) = UsedNames(request.messages))

\* UInv is an invariant.
LEMMA UsesInvariance == Spec => []UInv
<1>1. Init => UInv
  BY DEF Init, UInv, Afterwards
<1>2. UInv /\ BInv /\ IInv /\ [Next]_vars => UInv'
  <2> SUFFICES ASSUME UInv, BInv, IInv, [Next]_vars PROVE UInv'
    OBVIOUS
  <2>1. CASE Reject \/ RefuseImages \/ Route \/ ConvertTools
    BY <2>1 DEF Reject, RefuseImages, Route, ConvertTools, UInv, Afterwards
  <2>2. CASE Textualize
    <3>1. /\ request \in Requests /\ msgs = request.messages /\ stage' = "roles"
          /\ entries' = entries /\ request' = request
      BY <2>2 DEF BInv, Textualize
    <3>2. Sound(msgs)
      BY <3>1, RequestIsSound
    <3>3. Whole' = msgs'
      BY <3>1 DEF Whole
    <3>4. ProperTools(request) => ProperUses(msgs)
      BY <3>1 DEF ProperTools
    <3> QED BY <2>2, <3>1, <3>2, <3>3, <3>4, TextualizeKeepsNames DEF UInv
  <2>3. CASE NormalizeRoles
    <3>1. /\ Sound(msgs) /\ out = <<>> /\ out' = out /\ stage = "roles" /\ stage' = "merge"
          /\ entries' = entries /\ request' = request
      BY <2>3 DEF BInv, IInv, NormalizeRoles
    <3>2. Sound(msgs')
      BY <2>3, <3>1, RolesSound
    <3>3. Whole = msgs /\ Whole' = msgs'
      <4>1. out' \o msgs' = msgs'
        BY <3>1, <3>2, ConcatNothing DEF Sound
      <4> QED BY <3>1, <4>1 DEF Whole
    <3> QED BY <2>3, <3>1, <3>3, RolesKeepNames DEF UInv, Afterwards
  <2>4. CASE stage \in {"merge", "alternate", "history", "current", "sent"} /\ stage' # "refused"
    <3>1. /\ Shaped(Whole, Whole') /\ entries' = entries /\ request' = request
          /\ Sound(Whole) /\ Sound(Whole')
      BY <2>4, WholeMoves
    <3> QED BY <2>4, <3>1, ShapedKeepsNames DEF UInv, Afterwards
  <2>5. CASE UNCHANGED vars
    BY <2>5 DEF vars, UInv, Whole
  <2>6. CASE stage' = "refused"
    BY <2>6 DEF UInv, Afterwards
  <2>7. stage \in {"merge", "alternate", "history", "current",
          "sent"} \/ Reject \/ RefuseImages \/ Route
        \/ ConvertTools \/ Textualize \/ NormalizeRoles \/ UNCHANGED vars
    BY DEF Next, Done, MergeRun, StartWithUser, Alternate, Split, HistoryUser, HistoryAssistant,
           PlaceSystemPrompt, Finish
  <2> QED BY <2>1, <2>2, <2>3, <2>4, <2>5, <2>6, <2>7
<1> QED BY <1>1, <1>2, Invariance, BaseInvariance, PTL DEF Spec

-----------------------------------------------------------------------------
(* Every tool's name comes back.                                           *)

Remembers(known, used) == \A n \in used : n[1] = "long" => n \in known

Remembered(known, m) ==
  m.role = "assistant" => Remembers(known, {u.name : u \in ToSet(ToolUses(m.content))})

\* The long names that went out are in ToolNameMap, and the entries are those of the
\* callable tools.
TInv ==
  /\ request \in Requests
  /\ stage \in {"textualize"} \cup Afterwards =>
       /\ entries = ToolEntries(Callable(request.tools))
       /\ Remembers(names, {t.name : t \in ToSet(Callable(request.tools))})
  /\ stage = "history" => \A k \in 1..Len(history) : Remembered(names, msgs[k])
  /\ stage \in {"current", "sent"} => \A k \in 1..Len(msgs) : Remembered(names, msgs[k])
  /\ stage = "sent" => current.tools = entries

\* TInv is an invariant.
LEMMA ToolsInvariance == Spec => []TInv
<1>1. Init => TInv
  BY DEF Init, TInv, Afterwards
<1>2. TInv /\ IInv /\ [Next]_vars => TInv'
  <2> SUFFICES ASSUME TInv, IInv, [Next]_vars PROVE TInv'
    OBVIOUS
  <2>1. CASE Reject \/ RefuseImages \/ Route
    BY <2>1 DEF Reject, RefuseImages, Route, TInv, Afterwards
  <2>2. CASE ConvertTools
    BY <2>2 DEF ConvertTools, TInv, Afterwards, Remember, Remembers
  <2>3. CASE Textualize \/ NormalizeRoles \/ MergeRun \/ StartWithUser \/ Alternate
    <3>1. /\ stage \in {"textualize"} \cup Afterwards
          /\ stage' \notin {"history", "current", "sent"}
          /\ request' = request /\ entries' = entries /\ names' = names
      BY <2>3 DEF Textualize, NormalizeRoles, MergeRun, StartWithUser, Alternate, Afterwards
    <3> QED BY <3>1 DEF TInv, Remembers
  <2>4. CASE Split
    <3>1. /\ stage \in {"textualize"} \cup Afterwards /\ stage' = "history"
          /\ request' = request /\ entries' = entries /\ names' = names /\ history' = <<>>
      BY <2>4 DEF Split, Afterwards, IInv
    <3>2. 1..Len(<<>>) = {}
      OBVIOUS
    <3> QED BY <3>1, <3>2 DEF TInv, Remembers
  <2>5. CASE HistoryUser \/ HistoryAssistant
    <3> DEFINE n == Len(history)
    <3>1. /\ stage = "history" /\ stage' = "history" /\ msgs' = msgs /\ request' = request
          /\ entries' = entries /\ n \in Nat /\ Len(history') = n + 1
      <4>1. IsSeq(history) /\ \E t : history' = Append(history, t)
        BY <2>5 DEF HistoryUser, HistoryAssistant, IInv
      <4>2. n \in Nat /\ Len(history') = n + 1
        BY <4>1, IsSeqFacts, AppendIsSeq
      <4> QED BY <2>5, <4>2 DEF HistoryUser, HistoryAssistant
    <3>2. names \subseteq names' /\ Remembered(names', msgs[n + 1])
      <4>1. CASE HistoryUser
        BY <4>1 DEF HistoryUser, Remembered
      <4>2. CASE HistoryAssistant
        <5>1. names' = Remember(names, {u.name : u \in ToSet(ToolUses(msgs[n + 1].content))})
          BY <4>2 DEF HistoryAssistant
        <5> QED BY <3>1, <5>1 DEF Remember, Remembered, Remembers
      <4> QED BY <2>5, <4>1, <4>2
    <3>3. \A used : Remembers(names, used) => Remembers(names', used)
      BY <3>2 DEF Remembers
    <3>4. \A k \in 1..n : Remembered(names', msgs[k])
      <4> TAKE k \in 1..n
      <4>1. Remembered(names, msgs[k])
        BY <3>1 DEF TInv
      <4> QED BY <3>1, <3>2, <4>1 DEF Remembered, Remembers
    <3> HIDE DEF n
    <3>5. \A k \in 1..(n + 1) : k \in 1..n \/ k = n + 1
      BY <3>1
    <3>6. \A k \in 1..Len(history') : Remembered(names', msgs'[k])
      BY <3>1, <3>2, <3>4, <3>5
    <3> QED BY <3>1, <3>2, <3>6 DEF TInv, Afterwards, Remembers
  <2>6. CASE PlaceSystemPrompt \/ Finish
    <3>1. /\ stage \in {"history", "current"} /\ stage' \in {"current", "sent"}
          /\ stage = "history" => Len(history) = Len(msgs)
          /\ request' = request /\ entries' = entries /\ names' = names /\ msgs' = msgs
          /\ stage' = "sent" => current'.tools = entries
      BY <2>6 DEF PlaceSystemPrompt, Finish
    <3> QED BY <3>1 DEF TInv, Afterwards, Remembers, Remembered
  <2>7. CASE UNCHANGED vars
    BY <2>7 DEF vars, TInv, Remembers, Remembered
  <2> QED BY <2>1, <2>2, <2>3, <2>4, <2>5, <2>6, <2>7 DEF Next, Done
<1> QED BY <1>1, <1>2, Invariance, PTL DEF Spec

OutNames(t)  == [k \in DOMAIN t.uses |-> t.uses[k].name]
BackNames(t) == [k \in DOMAIN t.uses |-> Restore(names, t.uses[k].name)]

\* The uses of a turn go out under names that are not long, and come back.
LEMMA TurnReturns ==
  ASSUME NEW seq, Sound(seq), ProperUses(seq), NEW k \in 1..Len(seq), seq[k].role \in Speakers,
         Remembered(names, seq[k])
  PROVE  LET t == TurnAt(seq, k)
         IN /\ BackNames(t) = Names(seq[k].content)
            /\ IsSeq(OutNames(t)) /\ \A n \in ToSet(OutNames(t)) : n[1] # "long"
<1> DEFINE m == seq[k]
           t == TurnAt(seq, k)
           U == ToolUses(m.content)
<1>1. m \in ToSet(seq) /\ IsSeq(m.content)
  <2>1. m \in ToSet(seq)
    BY ElementsOf DEF Sound
  <2> QED BY <2>1 DEF Sound, WellMade
<1>2. IsSeq(U) /\ ToSet(U) = {b \in ToSet(m.content) : IsToolUse(b)}
  BY <1>1, UsesAre
<1>3. CASE m.role = "user"
  <2>1. t.uses = <<>>
    BY <1>3, TurnHas DEF TurnAt
  <2>2. OutNames(t) = <<>> /\ BackNames(t) = <<>>
    BY <2>1 DEF OutNames, BackNames
  <2>3. Names(m.content) = <<>>
    <3>1. \A b \in ToSet(m.content) : ~IsToolUse(b)
      BY <1>1, <1>3 DEF ProperUses
    <3> HIDE DEF m
    <3> QED BY <1>1, <3>1, NamesAre
  <2> HIDE DEF t, m
  <2>4. IsSeq(<<>>) /\ ToSet(<<>>) = {}
    BY EmptyIsSeq, ElementsOf
  <2> QED BY <2>2, <2>3, <2>4 DEF t, m
<1>4. CASE m.role = "assistant"
  <2>1. t.uses = [j \in DOMAIN U |-> [id |-> U[j].id, name |-> Shorten(U[j].name)]]
    BY <1>4, TurnHas DEF TurnAt, SentUses
  <2>2. \A j \in DOMAIN U : IsName(U[j].name) /\ (U[j].name[1] = "long" => U[j].name \in names)
    <3> TAKE j \in DOMAIN U
    <3>1. U[j] \in ToSet(U)
      BY DEF ToSet
    <3>2. IsName(U[j].name)
      BY <1>1, <1>2, <3>1 DEF ProperUses
    <3>3. Remembers(names, {u.name : u \in ToSet(U)})
      BY <1>4 DEF Remembered
    <3> QED BY <3>1, <3>2, <3>3 DEF Remembers
  <2> HIDE DEF t, U
  <2>3. DOMAIN t.uses = DOMAIN U /\ \A j \in DOMAIN U : t.uses[j].name = Shorten(U[j].name)
    BY <2>1
  <2>4. \A j \in DOMAIN U : t.uses[j].name[1] # "long" /\ Restore(names, t.uses[j].name) = U[j].name
    BY <2>2, <2>3, NameReturns
  <2>5. BackNames(t) = [j \in DOMAIN U |-> U[j].name]
    BY <2>3, <2>4 DEF BackNames
  <2> DEFINE o == OutNames(t)
  <2>6. DOMAIN o = DOMAIN U /\ o = [j \in DOMAIN U |-> o[j]] /\ \A j \in DOMAIN U : o[j][1] # "long"
    BY <2>3, <2>4 DEF OutNames
  <2> HIDE DEF o
  <2>7. IsSeq(o) /\ \A n \in ToSet(o) : n[1] # "long"
    BY <1>2, <2>6, MapIsSeq DEF ToSet
  <2> QED BY <2>5, <2>7 DEF Names, U, t, m, o
<1> QED BY <1>3, <1>4 DEF Speakers

\* The callable tools.
LEMMA CallableIs ==
  ASSUME NEW r \in Requests
  PROVE  IsSeq(Callable(r.tools)) /\ ToSet(Callable(r.tools)) \subseteq ToSet(r.tools)
<1> DEFINE T == {t \in ToSet(r.tools) : ~t.server}
           c == r.tools
<1>1. IsSeq(c)
  BY RequestsAssumption
<1>2. [i \in DOMAIN c |-> IF ~c[i].server THEN <<c[i]>> ELSE <<>>]
        = [i \in DOMAIN c |-> IF c[i] \in T THEN <<c[i]>> ELSE <<>>]
  BY DEF ToSet
<1>3. Callable(c) = Kept(c, T)
  BY <1>2, Zenon DEF Callable, Keep, Kept
<1> HIDE DEF T, c
<1>4. IsSeq(Callable(c)) /\ ToSet(Callable(c)) \subseteq ToSet(c)
  BY <1>1, <1>3, KeptIsSeq
<1> QED BY <1>4 DEF c

\* The turns of the messages, as uses.
LEMMA TurnsReturn ==
  ASSUME BInv, TInv, stage = "sent", ProperUses(Whole)
  PROVE  /\ FlattenSeq([i \in DOMAIN Turns |-> BackNames(Turns[i])]) = UsedNames(Whole)
         /\ \A n \in ToSet(FlattenSeq([i \in DOMAIN Turns |-> OutNames(Turns[i])])) : n[1] # "long"
<1> DEFINE p == Len(Preface)
           w == Whole
           back == [i \in DOMAIN Turns |-> BackNames(Turns[i])]
           outs == [i \in DOMAIN Turns |-> OutNames(Turns[i])]
           f == NamesOf(ToSet(w))
<1>1. /\ p \in Nat /\ Len(w) \in Nat /\ Sound(w) /\ IsSeq(Turns) /\ Len(Turns) = p + Len(w)
      /\ DOMAIN Turns = 1..(p + Len(w))
      /\ \A j \in 1..p : Turns[j] = Preface[j]
      /\ \A j \in 1..Len(w) : Turns[p + j].uses = TurnAt(w, j).uses
  <2>1. p \in Nat /\ Sound(w)
    BY PrefaceIs, IsSeqFacts, SoundRules DEF BInv, Whole
  <2>2. Len(w) \in Nat /\ IsSeq(Turns) /\ Len(Turns) = p + Len(w)
    BY <2>1, TurnsAre, IsSeqFacts DEF Sound
  <2>3. DOMAIN Turns = 1..(p + Len(w))
    BY <2>2, IsSeqFacts
  <2> QED BY <2>1, <2>2, <2>3, TurnsAre
<1>2. /\ IsSeq(w) /\ ToSet(w) = {w[j] : j \in 1..Len(w)} /\ \A m \in ToSet(w) : IsSeq(m.content)
  BY <1>1, ElementsOf DEF Sound, WellMade
<1>3. ASSUME NEW k \in 1..Len(w)
      PROVE  w[k].role \in Speakers /\ Remembered(names, w[k])
  <2>1. /\ Spoken(msgs, Speakers) /\ last.role = "user" /\ w = Append(msgs, last)
    BY DEF BInv, Whole
  <2>2. IsSeq(msgs) /\ Len(msgs) \in Nat /\ DOMAIN msgs = 1..Len(msgs)
    BY <2>1, IsSeqFacts DEF Spoken
  <2>3. Len(w) = Len(msgs) + 1 /\ w[Len(msgs) + 1] = last
          /\ \A j \in 1..Len(msgs) : w[j] = msgs[j]
    BY <2>1, <2>2, AppendIsSeq
  <2>4. k \in 1..Len(msgs) \/ k = Len(msgs) + 1
    BY <2>2, <2>3
  <2>5. w[k].role \in Speakers
    BY <2>1, <2>2, <2>3, <2>4 DEF Spoken, Speakers
  <2>6. Remembered(names, last)
    BY <2>1 DEF Remembered
  <2>7. \A j \in 1..Len(msgs) : Remembered(names, msgs[j])
    BY DEF TInv
  <2> QED BY <2>3, <2>4, <2>5, <2>6, <2>7
<1>4. \A t, u : t.uses = u.uses => BackNames(t) = BackNames(u) /\ OutNames(t) = OutNames(u)
  BY DEF BackNames, OutNames
<1>5. \A t : t.uses = <<>> => BackNames(t) = <<>> /\ OutNames(t) = <<>>
  BY DEF BackNames, OutNames
<1>6. \A k \in 1..Len(w) :
        /\ BackNames(Turns[p + k]) = f[w[k]]
        /\ IsSeq(OutNames(Turns[p + k])) /\ \A n \in ToSet(OutNames(Turns[p + k])) : n[1] # "long"
  <2> TAKE k \in 1..Len(w)
  <2> DEFINE t == TurnAt(w, k)
  <2>1. /\ BackNames(t) = Names(w[k].content)
        /\ IsSeq(OutNames(t)) /\ \A n \in ToSet(OutNames(t)) : n[1] # "long"
    BY <1>1, <1>3, TurnReturns
  <2>2. f[w[k]] = Names(w[k].content)
    BY <1>2 DEF NamesOf
  <2>3. BackNames(Turns[p + k]) = BackNames(t) /\ OutNames(Turns[p + k]) = OutNames(t)
    BY <1>1, <1>4
  <2> QED BY <2>1, <2>2, <2>3
<1>7. \A i \in 1..p : BackNames(Turns[i]) = <<>> /\ OutNames(Turns[i]) = <<>>
  BY <1>1, <1>5, PrefaceIs
<1>8. /\ DOMAIN back = DOMAIN Turns /\ back = [i \in DOMAIN Turns |-> back[i]]
      /\ DOMAIN outs = DOMAIN Turns /\ outs = [i \in DOMAIN Turns |-> outs[i]]
      /\ \A i \in DOMAIN Turns : back[i] = BackNames(Turns[i]) /\ outs[i] = OutNames(Turns[i])
  OBVIOUS
<1>9. Yields(f, ToSet(w))
  BY <1>2, NamesAre DEF Yields, NamesOf
<1> HIDE DEF back, outs, f, p, w
<1>10. IsSeq(back) /\ Len(back) = p + Len(w) /\ IsSeq(outs) /\ DOMAIN outs = 1..(p + Len(w))
  BY <1>1, <1>8, MapIsSeq
<1>11. \A i \in DOMAIN Turns : i \in 1..p \/ (i - p \in 1..Len(w) /\ i = p + (i - p))
  BY <1>1
<1>12. (\A i \in 1..p : i \in DOMAIN Turns) /\ \A k \in 1..Len(w) : p + k \in DOMAIN Turns
  BY <1>1
<1>13. FlattenSeq(back) = Flat(w, f)
  <2>1. \A i \in 1..p : back[i] = <<>>
    BY <1>7, <1>8, <1>12
  <2>2. \A k \in 1..Len(w) : back[p + k] = f[w[k]]
    BY <1>6, <1>8, <1>12
  <2>3. /\ p \in Nat /\ IsSeq(w) /\ IsSeq(back) /\ Len(back) = p + Len(w) /\ Yields(f, ToSet(w))
    BY <1>1, <1>2, <1>9, <1>10
  <2> QED BY ONLY <2>1, <2>2, <2>3, TurnsFlat, SMTT(30)
<1>14. \A i \in DOMAIN outs : IsSeq(outs[i]) /\ \A n \in ToSet(outs[i]) : n[1] # "long"
  <2>1. IsSeq(<<>>) /\ ToSet(<<>>) = {}
    BY EmptyIsSeq, ElementsOf
  <2> TAKE i \in DOMAIN outs
  <2>2. CASE i \in 1..p
    BY <1>7, <1>8, <2>1, <2>2
  <2>3. CASE i - p \in 1..Len(w) /\ i = p + (i - p)
    BY <1>6, <1>8, <2>3
  <2> QED BY <1>8, <1>11, <2>2, <2>3
<1>15. \A n \in ToSet(FlattenSeq(outs)) : n[1] # "long"
  <2>1. ToSet(FlattenSeq(outs)) = UNION {ToSet(x) : x \in ToSet(outs)}
    BY <1>10, <1>14, FlattenElements DEF Lists
  <2>2. \A x \in ToSet(outs) : \A n \in ToSet(x) : n[1] # "long"
    BY <1>14 DEF ToSet
  <2> QED BY <2>1, <2>2
<1> QED BY <1>13, <1>15 DEF back, outs, f, w, UsedNames

\* Every tool goes out under a name the runtime takes and comes back under its own,
\* in the history's uses too, and a cache point stands right behind the tool that
\* asked for it, for every request whose uses are an assistant's and whose names are
\* not somebody else's short form.
THEOREM ToolsTheorem == Spec => [](ProperTools(request) => ToolsRoundTrip)
<1>1. BInv /\ TInv /\ UInv => (ProperTools(request) => ToolsRoundTrip)
  <2> SUFFICES ASSUME BInv, TInv, UInv, ProperTools(request), stage = "sent" PROVE ToolsRoundTrip
    BY DEF ToolsRoundTrip
  <2> DEFINE c == Callable(request.tools)
             e == ToolEntries(c)
             tools == ToolsIn(e)
             outs == FlattenSeq([i \in DOMAIN Turns |-> OutNames(Turns[i])])
             back == FlattenSeq([i \in DOMAIN Turns |-> BackNames(Turns[i])])
  <2>1. /\ request \in Requests /\ current.tools = e /\ ProperUses(Whole)
        /\ entries # <<>> => UsedNames(Whole) = UsedNames(request.messages)
        /\ Remembers(names, {t.name : t \in ToSet(c)})
    BY DEF TInv, UInv, Afterwards
  <2>2. IsSeq(c) /\ \A t \in ToSet(c) : IsName(t.name) /\ (t.name[1] = "long" => t.name \in names)
    <3>1. IsSeq(c) /\ ToSet(c) \subseteq ToSet(request.tools)
      BY <2>1, CallableIs
    <3> HIDE DEF c
    <3> QED BY <2>1, <3>1 DEF Remembers, ProperTools
  <2>3. back = UsedNames(Whole) /\ \A n \in ToSet(outs) : n[1] # "long"
    BY <2>1, TurnsReturn
  <2> HIDE DEF c
  <2>4. /\ [i \in DOMAIN tools |-> Restore(names, tools[i].name)] = [i \in DOMAIN c |-> c[i].name]
        /\ \A t \in ToSet(tools) : t.name[1] # "long"
        /\ {Len(ToolsIn(SubSeq(e, 1, i))) : i \in {j \in DOMAIN e : ~(e[j].kind = "tool")}} = CachedAt(c)
    BY <2>2, ToolsReturn
  <2> HIDE DEF e, tools, outs, back
  <2>5. UsedNames(request.messages)
          = FlattenSeq([i \in DOMAIN request.messages |-> Names(request.messages[i].content)])
    <3>1. Mapped(request.messages, NamesOf(ToSet(request.messages)))
            = [i \in DOMAIN request.messages |-> Names(request.messages[i].content)]
      BY DEF Mapped, NamesOf, ToSet
    <3> QED BY <3>1, Zenon DEF UsedNames, Flat
  <2>6. entries # <<>> => back = FlattenSeq([i \in DOMAIN request.messages |-> Names(request.messages[i].content)])
    BY <2>1, <2>3, <2>5
  <2>7. \A n \in {t.name : t \in ToSet(tools)} \cup ToSet(outs) : n[1] # "long"
    BY <2>3, <2>4
  <2>8. tools = ToolsIn(current.tools)
    BY <2>1 DEF tools
  <2>9. /\ [i \in DOMAIN tools |-> Restore(names, tools[i].name)] = [i \in DOMAIN c |-> c[i].name]
        /\ \A n \in {t.name : t \in ToSet(tools)} \cup ToSet(outs) : n[1] # "long"
        /\ entries # <<>> => back = FlattenSeq([i \in DOMAIN request.messages |-> Names(request.messages[i].content)])
        /\ {Len(ToolsIn(SubSeq(current.tools, 1, i))) :
              i \in {j \in DOMAIN current.tools : ~(current.tools[j].kind = "tool")}}
             = {i \in DOMAIN c : c[i].cached}
    <3>1. {Len(ToolsIn(SubSeq(current.tools, 1, i))) :
             i \in {j \in DOMAIN current.tools : ~(current.tools[j].kind = "tool")}} = CachedAt(c)
      BY <2>1, <2>4, ZenonT(30)
    <3>2. [i \in DOMAIN tools |-> Restore(names, tools[i].name)] = [i \in DOMAIN c |-> c[i].name]
      BY <2>4, Zenon
    <3> QED BY <2>6, <2>7, <3>1, <3>2, Zenon DEF CachedAt
  <2> QED BY <2>8, <2>9, Zenon
          DEF ToolsRoundTrip, Gathered, Keep, Names, OutNames, BackNames, ToolsIn, outs, back, c
<1> QED BY <1>1, BaseInvariance, ToolsInvariance, UsesInvariance, PTL

-----------------------------------------------------------------------------
(* What is written in a text.                                              *)

\* Of a piece: itself, if the client wrote it; its place; or the use it stands for.
Got(how, p) ==
  IF how = "real" THEN IF p[3] > 0 THEN <<p>> ELSE <<>>
  ELSE IF how = "place" THEN <<p[3]>>
  ELSE IF p[1] = "use" THEN <<p[2]>> ELSE <<>>

GotFrom(how, P) == [p \in P |-> Got(how, p)]

\* Of a text.
Heard(how, s) == FlattenSeq([i \in DOMAIN s |-> Got(how, s[i])])

\* What is got from a piece is a sequence.
LEMMA GotIsSeq == \A how, p : IsSeq(Got(how, p))
<1> SUFFICES ASSUME NEW how, NEW p PROVE IsSeq(Got(how, p))
  OBVIOUS
<1>1. IsSeq(<<>>) /\ IsSeq(<<p>>) /\ IsSeq(<<p[2]>>) /\ IsSeq(<<p[3]>>)
  BY EmptyIsSeq, OneIsSeq
<1> QED BY <1>1 DEF Got

\* What is heard is gathered from the pieces.
LEMMA HeardIsFlat ==
  ASSUME NEW how, NEW P, NEW s \in Seq(P)
  PROVE  Heard(how, s) = Flat(s, GotFrom(how, P)) /\ Yields(GotFrom(how, P), P)
<1>1. \A i \in DOMAIN s : s[i] \in P
  OBVIOUS
<1>2. \A p \in P : GotFrom(how, P)[p] = Got(how, p)
  BY DEF GotFrom
<1>3. [i \in DOMAIN s |-> Got(how, s[i])] = [i \in DOMAIN s |-> GotFrom(how, P)[s[i]]]
  BY <1>1, <1>2
<1>4. Yields(GotFrom(how, P), P)
  BY <1>2, GotIsSeq DEF Yields
<1> QED BY <1>3, <1>4, Zenon DEF Heard, Flat, Mapped

\* What is heard is a sequence, nothing from nothing.
LEMMA HeardIsSeq ==
  ASSUME NEW how, NEW s, IsSeq(s)
  PROVE  IsSeq(Heard(how, s)) /\ Heard(how, <<>>) = <<>>
<1> DEFINE P == ToSet(s)
<1>1. s \in Seq(P) /\ <<>> \in Seq(P)
  BY IsSeqFacts
<1> DEFINE g == GotFrom(how, P)
<1>2. Yields(g, P) /\ Heard(how, s) = Flat(s, g) /\ Heard(how, <<>>) = Flat(<<>>, g)
  <2> HIDE DEF P
  <2> QED BY <1>1, HeardIsFlat
<1> HIDE DEF P, g
<1> QED BY <1>1, <1>2, FlatIsSeq, FlatEmpty

\* Hearing goes along with putting together.
LEMMA HeardConcat ==
  ASSUME NEW how, NEW s, NEW t, IsSeq(s), IsSeq(t)
  PROVE  Heard(how, s \o t) = Heard(how, s) \o Heard(how, t)
<1> DEFINE P == ToSet(s) \cup ToSet(t)
<1>1. s \in Seq(P) /\ t \in Seq(P)
  <2>1. ToSet(s) \subseteq P /\ ToSet(t) \subseteq P
    OBVIOUS
  <2> HIDE DEF P
  <2> QED BY <2>1, SeqWithin
<1> HIDE DEF P
<1> DEFINE u == s \o t
           g == GotFrom(how, P)
<1>2. u \in Seq(P)
  BY <1>1
<1>3. Yields(g, P) /\ Heard(how, s) = Flat(s, g) /\ Heard(how, t) = Flat(t, g) /\ Heard(how, u) = Flat(u, g)
  <2> HIDE DEF u
  <2> QED BY <1>1, <1>2, HeardIsFlat
<1> HIDE DEF g
<1>4. Flat(s \o t, g) = Flat(s, g) \o Flat(t, g)
  BY <1>1, <1>3, FlatConcat
<1> QED BY <1>3, <1>4

\* What is heard of one piece.
LEMMA HeardOne == \A how, p : Heard(how, <<p>>) = Got(how, p)
<1> SUFFICES ASSUME NEW how, NEW p PROVE Heard(how, <<p>>) = Got(how, p)
  OBVIOUS
<1> DEFINE g == GotFrom(how, {p})
<1>1. <<p>> \in Seq({p}) /\ g[p] = Got(how, p)
  BY DEF GotFrom
<1>2. Heard(how, <<p>>) = Flat(<<p>>, g) /\ IsSeq(g[p])
  BY <1>1, HeardIsFlat, GotIsSeq
<1> HIDE DEF g
<1> QED BY <1>1, <1>2, FlatOne

HeardIn(how, S, m) == [x \in S |-> Heard(how, m[x])]

\* What is heard of what is gathered is gathered from what is heard.
LEMMA HeardEach ==
  ASSUME NEW how, NEW S, NEW m, Yields(m, S), NEW s \in Seq(S)
  PROVE  /\ Heard(how, Flat(s, m)) = Flat(s, HeardIn(how, S, m))
         /\ Yields(HeardIn(how, S, m), S)
<1> DEFINE f == HeardIn(how, S, m)
<1>1. \A x \in S : f[x] = Heard(how, m[x]) /\ IsSeq(m[x])
  BY DEF HeardIn, Yields
<1> HIDE DEF f
<1>2. Yields(f, S)
  BY <1>1, HeardIsSeq DEF Yields
<1> DEFINE Good == {u \in Seq(S) : Heard(how, Flat(u, m)) = Flat(u, f)}
<1>3. <<>> \in Good
  BY FlatEmpty, HeardIsSeq, EmptyIsSeq
<1>4. ASSUME NEW u \in Seq(S), NEW x \in S, u \in Good PROVE Append(u, x) \in Good
  <2>1. IsSeq(Flat(u, m)) /\ Flat(Append(u, x), m) = Flat(u, m) \o m[x]
    BY FlatAppend
  <2>2. Flat(Append(u, x), f) = Flat(u, f) \o f[x]
    BY <1>2, FlatAppend
  <2>3. Heard(how, Flat(u, m)) = Flat(u, f) /\ Append(u, x) \in Seq(S)
    BY <1>4
  <2> DEFINE a == Flat(u, m)
             b == m[x]
  <2>4. IsSeq(a) /\ IsSeq(b) /\ Heard(how, a) = Flat(u, f) /\ Heard(how, b) = f[x]
        /\ Flat(Append(u, x), m) = a \o b
    BY <1>1, <2>1, <2>3
  <2> HIDE DEF a, b
  <2>5. Heard(how, a \o b) = Heard(how, a) \o Heard(how, b)
    BY <2>4, HeardConcat
  <2>6. Heard(how, Flat(Append(u, x), m)) = Flat(Append(u, x), f)
    BY <2>2, <2>4, <2>5
  <2> QED BY <2>3, <2>6
<1>5. Seq(S) \subseteq Good
  <2> HIDE DEF Good
  <2> QED BY <1>3, <1>4, BySequence
<1> QED BY <1>2, <1>5 DEF f

\* Nothing is heard of pieces that say nothing.
LEMMA HeardNone ==
  ASSUME NEW how, NEW s, IsSeq(s), \A p \in ToSet(s) : Got(how, p) = <<>>
  PROVE  Heard(how, s) = <<>>
<1> DEFINE P == ToSet(s)
           g == GotFrom(how, P)
<1>1. s \in Seq(P) /\ \A p \in P : g[p] = <<>>
  BY IsSeqFacts DEF GotFrom
<1>2. Heard(how, s) = Flat(s, g)
  BY <1>1, HeardIsFlat
<1> HIDE DEF g
<1> QED BY <1>1, <1>2, FlatNone

\* Nothing was written in a piece that is put in; only the text of a use tells one.
LEMMA PieceSays ==
  ASSUME NEW kind, NEW id
  PROVE  /\ Got("real", Piece(kind, id)) = <<>>
         /\ Got("use", Piece(kind, id)) = IF kind = "use" THEN <<id>> ELSE <<>>
<1> DEFINE p == Piece(kind, id)
<1>1. p[1] = kind /\ p[2] = id /\ p[3] = 0
  BY DEF Piece
<1> HIDE DEF p
<1>2. ~(p[3] > 0)
  BY <1>1
<1> QED BY <1>1, <1>2 DEF Got, p

-----------------------------------------------------------------------------
(* What a message says.                                                    *)

\* The pieces of a block the client wrote for the runtime to see.
WrittenAt(b)   == IF IsToolResult(b) \/ b.kind \notin Skipped THEN b.pieces ELSE <<>>
WrittenFrom(S) == [b \in S |-> WrittenAt(b)]
Written(c)     == FlattenSeq([i \in DOMAIN c |-> WrittenAt(c[i])])

Hows == {"real", "use"}

\* Of a content: the pieces written, or the uses, be they uses still or texts.
Value(how, c) ==
  IF how = "real" THEN Heard("real", Written(c)) ELSE ToolUseIds(c) \o Heard("use", ExtractText(c))

ValueOf(how, S) == [m \in S |-> Value(how, m.content)]

\* What is written is gathered from the blocks.
LEMMA WrittenIsFlat ==
  ASSUME NEW S, NEW c \in Seq(S), \A b \in S : IsSeq(b.pieces)
  PROVE  Written(c) = Flat(c, WrittenFrom(S)) /\ Yields(WrittenFrom(S), S) /\ IsSeq(Written(c))
<1>1. \A i \in DOMAIN c : c[i] \in S
  OBVIOUS
<1>2. \A b \in S : WrittenFrom(S)[b] = WrittenAt(b)
  BY DEF WrittenFrom
<1>3. [i \in DOMAIN c |-> WrittenAt(c[i])] = [i \in DOMAIN c |-> WrittenFrom(S)[c[i]]]
  BY <1>1, <1>2
<1>4. Written(c) = Flat(c, WrittenFrom(S))
  BY <1>3, Zenon DEF Written, Flat, Mapped
<1>5. Yields(WrittenFrom(S), S)
  BY <1>2, EmptyIsSeq DEF Yields, WrittenAt
<1> QED BY <1>4, <1>5, FlatIsSeq

\* What a message says is a sequence.
LEMMA ValueIsSeq ==
  ASSUME NEW m, WellMade(m), NEW how \in Hows
  PROVE  IsSeq(Value(how, m.content))
<1> DEFINE c == m.content
           S == ToSet(c)
           told == Heard("use", ExtractText(c))
           ids == ToolUseIds(c)
<1>1. c \in Seq(S) /\ IsSeq(c) /\ \A b \in S : IsSeq(b.pieces)
  BY IsSeqFacts DEF WellMade
<1>2. IsSeq(told) /\ IsSeq(ids)
  BY <1>1, ExtractIsSeq, HeardIsSeq, AsksAre
<1> HIDE DEF c, S
<1>3. IsSeq(Heard("real", Written(c)))
  BY <1>1, WrittenIsFlat, HeardIsSeq
<1>4. Value(how, c) = Heard("real", Written(c)) \/ Value(how, c) = ids \o told
  BY DEF Value
<1> HIDE DEF ids, told
<1>5. IsSeq(ids \o told)
  BY <1>2, ConcatIsSeq
<1> QED BY <1>3, <1>4, <1>5 DEF c

\* A content without uses has no ids of uses.
LEMMA NoUseIds ==
  ASSUME NEW c, IsSeq(c), \A b \in ToSet(c) : ~IsToolUse(b)
  PROVE  ToolUseIds(c) = <<>>
<1>1. IsSeq(ToolUses(c)) /\ ToSet(ToolUses(c)) = {} /\ ToolUseIds(c) = Idents(ToolUses(c))
  BY UsesAre
<1>2. ToolUses(c) = <<>>
  BY <1>1, ElementsOf
<1>3. Idents(<<>>) = <<>>
  BY DEF Idents
<1> QED BY <1>1, <1>2, <1>3

\* A plain message says its text.
LEMMA PlainValue ==
  ASSUME NEW m, WellMade(m), IsPlainText(m), NEW how \in Hows
  PROVE  Value(how, m.content) = Heard(how, ExtractText(m.content))
<1> DEFINE c == m.content
<1>1. IsSeq(c) /\ \A i \in DOMAIN c : c[i].kind = "text"
  BY DEF WellMade, IsPlainText
<1> HIDE DEF c
<1>2. \A b : b.kind = "text" => ~IsToolUse(b) /\ ~IsToolResult(b) /\ b.kind \notin Skipped
  BY DEF IsToolUse, IsToolResult, Skipped
<1>3. ToolUseIds(c) = <<>>
  BY <1>1, <1>2, NoUseIds DEF ToSet
<1>4. \A i \in DOMAIN c : /\ (IF c[i].kind \in Skipped THEN <<>> ELSE c[i].pieces) = c[i].pieces
                          /\ WrittenAt(c[i]) = c[i].pieces
  BY <1>1, <1>2 DEF WrittenAt
<1>5. [i \in DOMAIN c |-> WrittenAt(c[i])]
        = [i \in DOMAIN c |-> IF c[i].kind \in Skipped THEN <<>> ELSE c[i].pieces]
  BY <1>4
<1>6. Written(c) = ExtractText(c)
  BY <1>5, Zenon DEF Written, ExtractText
<1> DEFINE told == Heard("use", ExtractText(c))
<1>7. IsSeq(told)
  BY ExtractIsSeq, HeardIsSeq DEF c
<1>8. Value(how, c) = Heard(how, ExtractText(c))
  <2>1. CASE how = "real"
    BY <1>6, <2>1 DEF Value
  <2>2. CASE how = "use"
    <3>1. Value(how, c) = <<>> \o told
      BY <1>3, <2>2 DEF Value
    <3> HIDE DEF told
    <3>2. Value(how, c) = told
      BY <1>7, <3>1, ConcatNothing
    <3> QED BY <2>2, <3>2 DEF told
  <2> QED BY <2>1, <2>2 DEF Hows
<1> QED BY <1>8 DEF c

\* The text of a content of one text.
LEMMA OneTextShows ==
  ASSUME NEW text, IsSeq(text)
  PROVE  ExtractText(<<TextBlock(text)>>) = text
<1> DEFINE b == TextBlock(text)
           f == Shown({b})
<1>1. b.kind = "text" /\ b.pieces = text
  BY TextBlockIs
<1> HIDE DEF b
<1>2. f[b] = text
  BY <1>1 DEF Shown, Skipped
<1>3. <<b>> \in Seq({b})
  OBVIOUS
<1>4. ExtractText(<<b>>) = Flat(<<b>>, f)
  BY <1>3, ExtractIsFlat
<1> HIDE DEF f
<1>5. ExtractText(<<b>>) = text
  BY <1>2, <1>4, FlatOne
<1> QED BY <1>5 DEF b

\* A message that is put in says nothing.
LEMMA SaysNothing ==
  ASSUME NEW role, NEW p \in {SyntheticEmpty, SyntheticContinue}, NEW how \in Hows
  PROVE  Value(how, Says(role, p).content) = <<>>
<1> DEFINE m == Says(role, p)
<1>1. WellMade(m) /\ IsPlainText(m) /\ m.content = <<TextBlock(<<p>>)>>
  BY SaysIsSound
<1>2. ExtractText(m.content) = <<p>>
  BY <1>1, OneTextShows, OneIsSeq
<1> HIDE DEF m
<1>3. Value(how, m.content) = Heard(how, <<p>>)
  BY <1>1, <1>2, PlainValue
<1>4. Got(how, p) = <<>>
  BY PieceSays DEF Hows, SyntheticEmpty, SyntheticContinue
<1> QED BY <1>3, <1>4, HeardOne DEF m

TextsOf(S) == [m \in S |-> ExtractText(m.content)]
JoinedParts(run) == [i \in DOMAIN run |->
  (IF i = 1 THEN <<>> ELSE <<Piece("newline", "")>>) \o ExtractText(run[i].content)]

\* The text of messages joined, one message more.
LEMMA JoinedGrows ==
  ASSUME NEW run, Sound(run), NEW m, WellMade(m)
  PROVE  JoinedText(Append(run, m)) =
           JoinedText(run) \o ((IF run = <<>> THEN <<>> ELSE <<Piece("newline", "")>>) \o ExtractText(m.content))
<1> DEFINE u == Append(run, m)
           x == (IF run = <<>> THEN <<>> ELSE <<Piece("newline", "")>>) \o ExtractText(m.content)
           g == JoinedParts(run)
           h == JoinedParts(u)
           n == Len(run)
<1>1. /\ IsSeq(u) /\ Len(u) = n + 1 /\ u[n + 1] = m /\ DOMAIN u = 1..(n + 1)
      /\ \A i \in 1..n : u[i] = run[i]
      /\ n \in Nat /\ DOMAIN run = 1..n /\ (run = <<>> <=> n = 0) /\ IsSeq(run)
  BY AppendIsSeq, IsSeqFacts DEF Sound
<1> HIDE DEF u
<1>2. ASSUME NEW t, WellMade(t), NEW pre \in {<<>>, <<Piece("newline", "")>>}
      PROVE  IsSeq(pre \o ExtractText(t.content))
  <2> DEFINE text == ExtractText(t.content)
  <2>1. IsSeq(pre) /\ IsSeq(text)
    BY <1>2, EmptyIsSeq, OneIsSeq, ExtractIsSeq
  <2> HIDE DEF text
  <2>2. IsSeq(pre \o text)
    BY <2>1, ConcatIsSeq
  <2> QED BY <2>2 DEF text
<1>3. IsSeq(x)
  BY <1>2
<1>4. /\ DOMAIN g = DOMAIN run /\ g = [i \in DOMAIN run |-> g[i]]
      /\ DOMAIN h = DOMAIN u /\ h = [i \in DOMAIN u |-> h[i]]
  BY DEF JoinedParts
<1>5. \A i \in DOMAIN run : IsSeq(g[i])
  <2> TAKE i \in DOMAIN run
  <2>1. WellMade(run[i])
    BY DEF Sound, ToSet
  <2> QED BY <1>2, <2>1 DEF JoinedParts
<1>6. \A i \in 1..n : h[i] = g[i]
  <2> TAKE i \in 1..n
  <2>1. i \in DOMAIN u /\ i \in DOMAIN run /\ u[i] = run[i]
    BY <1>1
  <2> QED BY <2>1 DEF JoinedParts
<1>7. h[n + 1] = x
  <2>1. n + 1 \in DOMAIN u /\ (n + 1 = 1 <=> run = <<>>)
    BY <1>1
  <2> QED BY <1>1, <2>1 DEF JoinedParts
<1> HIDE DEF g, h, x
<1>8. IsSeq(g) /\ Len(g) = n /\ IsSeq(h) /\ Len(h) = n + 1
  BY <1>1, <1>4, MapIsSeq
<1>9. Lists(g)
  BY <1>4, <1>5, <1>8 DEF Lists
<1> DEFINE gx == Append(g, x)
<1>10. IsSeq(gx) /\ Len(gx) = n + 1 /\ gx[n + 1] = x /\ \A i \in 1..n : gx[i] = g[i]
  BY <1>8, AppendIsSeq
<1> HIDE DEF gx
<1>11. h = gx
  <2>1. \A i \in 1..(n + 1) : i \in 1..n \/ i = n + 1
    BY <1>1
  <2> QED BY <1>6, <1>7, <1>8, <1>10, <2>1, SeqSame
<1>12. FlattenSeq(h) = FlattenSeq(g) \o x
  BY <1>3, <1>9, <1>11, FlattenAppend DEF gx
<1>13. JoinedText(run) = FlattenSeq(g) /\ JoinedText(u) = FlattenSeq(h)
  BY Zenon DEF JoinedText, JoinedParts, g, h
<1> QED BY <1>12, <1>13 DEF u, x

HeardTexts(how, S) == [m \in S |-> Heard(how, ExtractText(m.content))]

\* What is heard of messages joined is what is heard of each: the newlines say nothing.
LEMMA JoinedHeard ==
  ASSUME NEW how \in Hows, NEW S, \A m \in S : WellMade(m), NEW run \in Seq(S)
  PROVE  Heard(how, JoinedText(run)) = Flat(run, HeardTexts(how, S))
<1> DEFINE f == HeardTexts(how, S)
           Good == {u \in Seq(S) : IsSeq(JoinedText(u)) /\ Heard(how, JoinedText(u)) = Flat(u, f)}
<1>1. \A m \in S : f[m] = Heard(how, ExtractText(m.content)) /\ IsSeq(f[m]) /\ IsSeq(ExtractText(m.content))
  BY ExtractIsSeq, HeardIsSeq DEF HeardTexts
<1>2. Yields(f, S)
  BY <1>1 DEF Yields
<1> HIDE DEF f
<1>3. <<>> \in Good
  <2>1. JoinedText(<<>>) = <<>>
    <3>1. [i \in DOMAIN <<>> |-> (IF i = 1 THEN <<>> ELSE <<Piece("newline", "")>>) \o ExtractText(<<>>[i].content)] = <<>>
      OBVIOUS
    <3> QED BY <3>1, FlattenEmpty DEF JoinedText
  <2>2. <<>> \in Seq(S) /\ IsSeq(<<>>) /\ Heard(how, <<>>) = <<>> /\ Flat(<<>>, f) = <<>>
    BY EmptyIsSeq, HeardIsSeq, FlatEmpty
  <2> QED BY <2>1, <2>2
<1>4. ASSUME NEW u \in Seq(S), NEW m \in S, u \in Good PROVE Append(u, m) \in Good
  <2> DEFINE pre == IF u = <<>> THEN <<>> ELSE <<Piece("newline", "")>>
             text == ExtractText(m.content)
             j == JoinedText(u)
             v == Append(u, m)
             pt == pre \o text
  <2>1. v \in Seq(S) /\ IsSeq(j) /\ Heard(how, j) = Flat(u, f) /\ IsSeq(text) /\ Heard(how, text) = f[m]
    BY <1>1, <1>4
  <2>2. Sound(u) /\ WellMade(m)
    <3>1. IsSeq(u) /\ \A i \in DOMAIN u : u[i] \in S
      BY SeqIs
    <3> QED BY <3>1 DEF Sound, ToSet
  <2>3. JoinedText(v) = j \o pt
    BY <2>2, JoinedGrows
  <2>4. IsSeq(pre) /\ Heard(how, pre) = <<>>
    <3>1. IsSeq(<<>>) /\ Heard(how, <<>>) = <<>> /\ IsSeq(<<Piece("newline", "")>>)
      BY EmptyIsSeq, HeardIsSeq, OneIsSeq
    <3>2. Heard(how, <<Piece("newline", "")>>) = <<>>
      <4>1. Got("real", Piece("newline", "")) = <<>> /\ Got("use", Piece("newline", "")) = <<>>
        BY PieceSays
      <4>2. Heard(how, <<Piece("newline", "")>>) = Got(how, Piece("newline", ""))
        BY HeardOne
      <4> QED BY <4>1, <4>2 DEF Hows
    <3> QED BY <3>1, <3>2
  <2>5. Flat(v, f) = Flat(u, f) \o f[m]
    BY <1>2, FlatAppend
  <2> HIDE DEF pre, text, j, v
  <2>6. IsSeq(pt) /\ Heard(how, pt) = Heard(how, pre) \o Heard(how, text)
    BY <2>1, <2>4, ConcatIsSeq, HeardConcat
  <2>7. Heard(how, pt) = f[m]
    BY <1>1, <2>1, <2>4, <2>6, ConcatNothing
  <2> HIDE DEF pt
  <2>8. IsSeq(j \o pt) /\ Heard(how, j \o pt) = Heard(how, j) \o Heard(how, pt)
    BY <2>1, <2>6, ConcatIsSeq, HeardConcat
  <2>9. IsSeq(JoinedText(v)) /\ Heard(how, JoinedText(v)) = Flat(v, f)
    BY <2>1, <2>3, <2>5, <2>7, <2>8
  <2> QED BY <2>1, <2>9 DEF v
<1>5. Seq(S) \subseteq Good
  <2> HIDE DEF Good
  <2> QED BY <1>3, <1>4, BySequence
<1> QED BY <1>5 DEF f

\* Plain messages joined say what they said.
LEMMA JoinedValue ==
  ASSUME NEW run, Sound(run), \A m \in ToSet(run) : IsPlainText(m), NEW how \in Hows
  PROVE  Value(how, Joined(run).content) = Flat(run, ValueOf(how, ToSet(run)))
<1> DEFINE S == ToSet(run)
           text == JoinedText(run)
           m == Joined(run)
<1>1. run \in Seq(S) /\ \A x \in S : WellMade(x)
  BY IsSeqFacts DEF Sound
<1>2. WellMade(m) /\ IsPlainText(m) /\ m.content = <<TextBlock(text)>> /\ IsSeq(text)
  BY JoinedIsSound
<1>3. \A x \in S : ValueOf(how, S)[x] = HeardTexts(how, S)[x]
  BY <1>1, PlainValue DEF ValueOf, HeardTexts
<1>4. Flat(run, ValueOf(how, S)) = Flat(run, HeardTexts(how, S))
  BY <1>3, FlatSame
<1>5. Heard(how, text) = Flat(run, HeardTexts(how, S))
  BY <1>1, JoinedHeard
<1> HIDE DEF S, text, m
<1>6. ExtractText(m.content) = text
  BY <1>2, OneTextShows
<1>7. Value(how, m.content) = Heard(how, text)
  BY <1>2, <1>6, PlainValue
<1> QED BY <1>4, <1>5, <1>7 DEF m, S

\* Merging, inserting and splitting change nothing that is said.
LEMMA ShapedKeepsValues ==
  ASSUME NEW old, NEW new, Shaped(old, new), Sound(old), Sound(new), NEW how \in Hows
  PROVE  Flat(new, ValueOf(how, ToSet(new))) = Flat(old, ValueOf(how, ToSet(old)))
<1> DEFINE S == ToSet(old) \cup ToSet(new)
           f == ValueOf(how, S)
<1>1. \A m \in S : WellMade(m) /\ f[m] = Value(how, m.content)
  BY DEF Sound, ValueOf
<1> HIDE DEF f
<1>2. Yields(f, S)
  BY <1>1, ValueIsSeq DEF Yields
<1>3. \A role, p : p \in {SyntheticEmpty, SyntheticContinue} /\ Says(role, p) \in ToSet(new)
        => f[Says(role, p)] = <<>>
  BY <1>1, SaysNothing
<1>4. \A run : (/\ Sound(run) /\ ToSet(run) \subseteq ToSet(old) /\ Joined(run) \in ToSet(new)
                /\ \A m \in ToSet(run) : IsPlainText(m))
                  => f[Joined(run)] = Flat(run, f)
  <2> SUFFICES ASSUME NEW run, Sound(run), ToSet(run) \subseteq ToSet(old), Joined(run) \in ToSet(new),
                      \A m \in ToSet(run) : IsPlainText(m)
               PROVE  f[Joined(run)] = Flat(run, f)
    BY Zenon
  <2>1. f[Joined(run)] = Flat(run, ValueOf(how, ToSet(run)))
    BY <1>1, JoinedValue
  <2>2. \A m \in ToSet(run) : ValueOf(how, ToSet(run))[m] = f[m]
    BY <1>1 DEF ValueOf
  <2>3. Flat(run, ValueOf(how, ToSet(run))) = Flat(run, f)
    BY <2>2, FlatSame
  <2> QED BY <2>1, <2>3
<1>5. Flat(new, f) = Flat(old, f)
  BY <1>2, <1>3, <1>4, ShapedKeepsFlat
<1>6. (\A m \in ToSet(new) : f[m] = ValueOf(how, ToSet(new))[m])
      /\ \A m \in ToSet(old) : f[m] = ValueOf(how, ToSet(old))[m]
  BY <1>1 DEF ValueOf
<1> QED BY <1>5, <1>6, FlatSame

IdsFrom(S) == [b \in S |-> IF IsToolUse(b) THEN <<b.id>> ELSE <<>>]

\* The ids of the uses, block by block.
LEMMA UseIdsFlat ==
  ASSUME NEW S, NEW c \in Seq(S)
  PROVE  ToolUseIds(c) = Flat(c, IdsFrom(S)) /\ Yields(IdsFrom(S), S)
<1> DEFINE T == {b \in S : IsToolUse(b)}
           f == IdsFrom(S)
           Good == {u \in Seq(S) : Idents(Kept(u, T)) = Flat(u, f)}
<1>1. \A b \in S : f[b] = IF b \in T THEN <<b.id>> ELSE <<>>
  BY DEF IdsFrom
<1>2. Yields(f, S)
  BY <1>1, EmptyIsSeq, OneIsSeq DEF Yields
<1> HIDE DEF f, T
<1>3. <<>> \in Good
  <2>1. Kept(<<>>, T) = <<>> /\ Idents(<<>>) = <<>> /\ Flat(<<>>, f) = <<>>
    BY KeptEmpty, FlatEmpty DEF Idents
  <2> QED BY <2>1
<1>4. ASSUME NEW u \in Seq(S), NEW b \in S, u \in Good PROVE Append(u, b) \in Good
  <2> DEFINE k == Kept(u, T)
  <2>1. IsSeq(u) /\ IsSeq(k) /\ Append(u, b) \in Seq(S) /\ Idents(k) = Flat(u, f)
    BY <1>4, SeqIs, KeptIsSeq
  <2>2. Kept(Append(u, b), T) = IF b \in T THEN Append(k, b) ELSE k
    BY <2>1, KeptAppend
  <2>3. Flat(Append(u, b), f) = Flat(u, f) \o f[b] /\ IsSeq(Flat(u, f))
    BY <1>2, FlatAppend
  <2> DEFINE q == Flat(u, f)
  <2> HIDE DEF k, q
  <2>4. CASE b \in T
    <3>1. Idents(Append(k, b)) = Append(Idents(k), b.id)
      BY <2>1, IdentsAppend
    <3>2. Append(q, b.id) = q \o <<b.id>>
      BY <2>3, AppendJoins DEF q
    <3>3. f[b] = <<b.id>>
      BY <1>1, <2>4
    <3>4. Flat(Append(u, b), f) = q \o <<b.id>>
      BY <2>3, <3>3 DEF q
    <3>5. Idents(Kept(Append(u, b), T)) = Append(q, b.id)
      BY <2>1, <2>2, <2>4, <3>1 DEF q
    <3>6. Idents(Kept(Append(u, b), T)) = Flat(Append(u, b), f)
      BY <3>2, <3>4, <3>5
    <3> QED BY <2>1, <3>6
  <2>5. CASE b \notin T
    <3>1. Flat(Append(u, b), f) = q \o <<>>
      BY <1>1, <2>3, <2>5 DEF q
    <3>2. q \o <<>> = q
      BY <2>3, ConcatNothing DEF q
    <3>3. Idents(Kept(Append(u, b), T)) = Flat(Append(u, b), f)
      BY <2>1, <2>2, <2>5, <3>1, <3>2 DEF q
    <3> QED BY <2>1, <3>3
  <2> QED BY <2>4, <2>5
<1>5. c \in Good
  <2> HIDE DEF Good
  <2> QED BY <1>3, <1>4, BySequence
<1>6. Kept(c, T) = Kept(c, {b \in ToSet(c) : IsToolUse(b)})
  <2>1. IsSeq(c) /\ \A b \in ToSet(c) : b \in S
    BY SeqIs DEF ToSet
  <2> DEFINE U == {b \in ToSet(c) : IsToolUse(b)}
  <2>2. \A b \in ToSet(c) : b \in T <=> b \in U
    BY <2>1 DEF T
  <2> HIDE DEF U
  <2>3. Kept(c, T) = Kept(c, U)
    BY <2>1, <2>2, KeptSame
  <2> QED BY <2>3 DEF U
<1>7. ToolUseIds(c) = Idents(Kept(c, T))
  <2>1. IsSeq(c)
    BY SeqIs
  <2> QED BY <1>6, <2>1, UsesAre
<1> QED BY <1>2, <1>5, <1>7 DEF f

\* No text of the client's stands for a use.
Quiet(c) == \A b \in ToSet(c) : \A p \in ToSet(b.pieces) : p[1] # "use"

\* A quiet content tells no use in its text.
LEMMA QuietText ==
  ASSUME NEW c, IsSeq(c), \A b \in ToSet(c) : IsSeq(b.pieces), Quiet(c)
  PROVE  Heard("use", ExtractText(c)) = <<>>
<1> DEFINE S == ToSet(c)
           f == Shown(S)
<1>1. c \in Seq(S) /\ Yields(f, S) /\ ExtractText(c) = Flat(c, f)
  BY IsSeqFacts, ExtractIsFlat, ShownYields
<1>2. \A b \in S : \A p \in ToSet(f[b]) : p[1] # "use"
  <2>1. ToSet(<<>>) = {}
    BY EmptyIsSeq, ElementsOf
  <2> QED BY <2>1 DEF Shown, Quiet
<1> HIDE DEF f
<1>3. IsSeq(ExtractText(c)) /\ ToSet(ExtractText(c)) = UNION {ToSet(f[b]) : b \in ToSet(c)}
  BY <1>1, FlatIsSeq, FlatElements
<1>4. \A p \in ToSet(ExtractText(c)) : Got("use", p) = <<>>
  BY <1>2, <1>3 DEF Got
<1> QED BY <1>3, <1>4, HeardNone

\* What the text of a result says is what the result said.
LEMMA ResultTextSays ==
  ASSUME NEW b, IsSeq(b.pieces), IsToolResult(b)
  PROVE  /\ Heard("real", WrittenAt(AsResultText(b))) = Heard("real", WrittenAt(b))
         /\ (\A p \in ToSet(b.pieces) : p[1] # "use") =>
              /\ Heard("use", AsResultText(b).pieces) = <<>>
              /\ \A p \in ToSet(AsResultText(b).pieces) : p[1] # "use"
<1> DEFINE d == AsResultText(b)
           r == Piece("result", b.id)
           mark == <<r>>
           q == b.pieces
<1>1. d.pieces = mark \o q /\ d.kind = "text" /\ ~IsToolResult(d) /\ IsSeq(d.pieces)
  BY AsTextIs
<1>2. IsSeq(mark) /\ ToSet(mark) = {r}
  BY OneIsSeq
<1>3. Got("real", r) = <<>> /\ r[1] = "result"
  BY PieceSays DEF Piece
<1>4. Heard("real", mark) = <<>>
  BY <1>3, HeardOne
<1>5. WrittenAt(d) = d.pieces /\ WrittenAt(b) = q
  BY <1>1 DEF WrittenAt, Skipped
<1> HIDE DEF d, mark, r, q
<1>6. IsSeq(q)
  BY DEF q
<1>7. Heard("real", mark \o q) = Heard("real", mark) \o Heard("real", q)
  BY <1>2, <1>6, HeardConcat
<1>8. Heard("real", d.pieces) = Heard("real", q)
  <2> DEFINE h == Heard("real", q)
  <2>1. IsSeq(h) /\ Heard("real", d.pieces) = <<>> \o h
    BY <1>1, <1>4, <1>6, <1>7, HeardIsSeq
  <2> HIDE DEF h
  <2>2. Heard("real", d.pieces) = h
    BY <2>1, ConcatNothing
  <2> QED BY <2>2 DEF h
<1>9. ASSUME \A p \in ToSet(q) : p[1] # "use"
      PROVE  Heard("use", d.pieces) = <<>> /\ \A p \in ToSet(d.pieces) : p[1] # "use"
  <2>1. ToSet(mark \o q) = ToSet(mark) \cup ToSet(q)
    BY <1>2, <1>6, ConcatElements
  <2>2. \A p \in ToSet(d.pieces) : p[1] # "use"
    BY <1>1, <1>2, <1>3, <1>9, <2>1
  <2>3. \A p \in ToSet(d.pieces) : Got("use", p) = <<>>
    BY <2>2 DEF Got
  <2> QED BY <1>1, <2>2, <2>3, HeardNone
<1> QED BY <1>5, <1>8, <1>9 DEF d, q

\* What a content says block by block, if each block says the same in another.
LEMMA WrittenPlaces ==
  ASSUME NEW c, NEW d, IsSeq(c), IsSeq(d), DOMAIN c = DOMAIN d,
         \A b \in ToSet(c) : IsSeq(b.pieces), \A b \in ToSet(d) : IsSeq(b.pieces),
         \A i \in DOMAIN c : Heard("real", WrittenAt(c[i])) = Heard("real", WrittenAt(d[i]))
  PROVE  Heard("real", Written(c)) = Heard("real", Written(d))
<1> DEFINE S == ToSet(c)
           D == ToSet(d)
           ws == WrittenFrom(S)
           wd == WrittenFrom(D)
           f == HeardIn("real", S, ws)
           g == HeardIn("real", D, wd)
<1>1. c \in Seq(S) /\ d \in Seq(D)
  BY IsSeqFacts
<1>2. \A i \in DOMAIN c : c[i] \in S /\ d[i] \in D
  BY DEF ToSet
<1>3. Written(c) = Flat(c, ws) /\ Yields(ws, S) /\ Written(d) = Flat(d, wd) /\ Yields(wd, D)
  <2>1. (\A b \in S : IsSeq(b.pieces)) /\ \A b \in D : IsSeq(b.pieces)
    OBVIOUS
  <2> HIDE DEF S, D
  <2> QED BY <1>1, <2>1, WrittenIsFlat
<1>4. \A i \in DOMAIN c : f[c[i]] = Heard("real", WrittenAt(c[i])) /\ g[d[i]] = Heard("real", WrittenAt(d[i]))
  BY <1>2 DEF HeardIn, WrittenFrom
<1> HIDE DEF S, D, ws, wd
<1>5. Heard("real", Flat(c, ws)) = Flat(c, f) /\ Heard("real", Flat(d, wd)) = Flat(d, g)
  BY <1>1, <1>3, HeardEach
<1> HIDE DEF f, g
<1>6. Flat(c, f) = Flat(d, g)
  BY <1>4, FlatPlaces
<1> QED BY <1>3, <1>5, <1>6

\* Text for tool content says what the content said.
LEMMA AllTextSays ==
  ASSUME NEW m, WellMade(m), Quiet(m.content), NEW how \in Hows
  PROVE  Value(how, TextualizeAll(m).content) = Value(how, m.content)
<1> DEFINE c == m.content
           d == AllText(c)
<1>1. /\ IsSeq(c) /\ \A b \in ToSet(c) : IsSeq(b.pieces)
      /\ TextualizeAll(m).content = d /\ IsSeq(d) /\ \A b \in ToSet(d) : IsSeq(b.pieces)
  <2>1. WellMade(TextualizeAll(m)) /\ TextualizeAll(m).content = d
    BY AllTextIs
  <2> QED BY <2>1 DEF WellMade
<1>2. /\ DOMAIN d = DOMAIN c
      /\ \A i \in DOMAIN c : d[i] = IF IsToolUse(c[i]) THEN TextBlock(<<Piece("use", c[i].id)>>)
                                    ELSE IF IsToolResult(c[i]) THEN AsResultText(c[i]) ELSE c[i]
  BY DEF AllText
<1>3. \A b \in ToSet(d) : ~IsToolUse(b)
  BY <1>1, AllTextHasNoTools DEF NoTools
<1>4. \A b \in ToSet(c) : \A p \in ToSet(b.pieces) : p[1] # "use"
  BY DEF Quiet
<1> HIDE DEF c, d
<1>5. \A i \in DOMAIN c : c[i] \in ToSet(c) /\ d[i] \in ToSet(d)
  BY <1>2 DEF ToSet
<1>6. \A b : IsToolUse(b) => ~IsToolResult(b) /\ b.kind \in Skipped
  BY DEF IsToolUse, IsToolResult, Skipped
<1>7. \A id : /\ Heard("real", <<Piece("use", id)>>) = <<>> /\ Heard("use", <<Piece("use", id)>>) = <<id>>
              /\ TextBlock(<<Piece("use", id)>>).pieces = <<Piece("use", id)>>
              /\ TextBlock(<<Piece("use", id)>>).kind = "text"
  BY HeardOne, PieceSays, TextBlockIs
<1>8. ASSUME NEW i \in DOMAIN c
      PROVE  Heard("real", WrittenAt(c[i])) = Heard("real", WrittenAt(d[i]))
  <2>1. CASE IsToolUse(c[i])
    <3> DEFINE u == TextBlock(<<Piece("use", c[i].id)>>)
    <3>1. d[i] = u /\ u.kind = "text" /\ u.pieces = <<Piece("use", c[i].id)>>
      BY <1>2, <1>7, <2>1
    <3> HIDE DEF u
    <3>2. WrittenAt(d[i]) = <<Piece("use", c[i].id)>>
      BY <3>1 DEF WrittenAt, Skipped
    <3>3. WrittenAt(c[i]) = <<>>
      BY <1>6, <2>1 DEF WrittenAt
    <3>4. Heard("real", <<>>) = <<>>
      BY EmptyIsSeq, HeardIsSeq
    <3> QED BY <1>7, <3>2, <3>3, <3>4
  <2>2. CASE ~IsToolUse(c[i]) /\ IsToolResult(c[i])
    BY <1>1, <1>2, <1>5, <2>2, ResultTextSays
  <2>3. CASE ~IsToolUse(c[i]) /\ ~IsToolResult(c[i])
    BY <1>2, <2>3
  <2> QED BY <2>1, <2>2, <2>3
<1>9. Heard("real", Written(c)) = Heard("real", Written(d))
  BY <1>1, <1>2, <1>8, WrittenPlaces
<1>10. ToolUseIds(d) = <<>>
  BY <1>1, <1>3, NoUseIds
<1>11. Heard("use", ExtractText(c)) = <<>>
  BY <1>1, <1>4, QuietText DEF Quiet
<1>12. Heard("use", ExtractText(d)) = ToolUseIds(c)
  <2> DEFINE S == ToSet(c)
             D == ToSet(d)
             sh == Shown(D)
             g == HeardIn("use", D, sh)
             f == IdsFrom(S)
  <2>1. c \in Seq(S) /\ d \in Seq(D)
    BY <1>1, IsSeqFacts
  <2>2. ToolUseIds(c) = Flat(c, f)
    BY <2>1, UseIdsFlat
  <2>3. ExtractText(d) = Flat(d, sh) /\ Yields(sh, D)
    BY <1>1, <2>1, ExtractIsFlat, ShownYields
  <2>4. \A i \in DOMAIN c : /\ f[c[i]] = IF IsToolUse(c[i]) THEN <<c[i].id>> ELSE <<>>
                            /\ g[d[i]] = Heard("use", IF d[i].kind \in Skipped THEN <<>> ELSE d[i].pieces)
    BY <1>5 DEF IdsFrom, HeardIn, Shown
  <2> HIDE DEF S, D, sh, f
  <2>5. Heard("use", Flat(d, sh)) = Flat(d, g)
    BY <2>1, <2>3, HeardEach
  <2> HIDE DEF g
  <2>6. ASSUME NEW i \in DOMAIN c PROVE g[d[i]] = f[c[i]]
    <3>1. Heard("use", <<>>) = <<>>
      BY EmptyIsSeq, HeardIsSeq
    <3>2. CASE IsToolUse(c[i])
      <4> DEFINE u == TextBlock(<<Piece("use", c[i].id)>>)
      <4>1. d[i] = u /\ u.kind = "text" /\ u.pieces = <<Piece("use", c[i].id)>>
        BY <1>2, <1>7, <3>2
      <4> HIDE DEF u
      <4>2. g[d[i]] = Heard("use", <<Piece("use", c[i].id)>>)
        BY <2>4, <4>1 DEF Skipped
      <4> QED BY <1>7, <2>4, <3>2, <4>2
    <3>3. CASE ~IsToolUse(c[i]) /\ IsToolResult(c[i])
      <4>1. d[i] = AsResultText(c[i]) /\ Heard("use", AsResultText(c[i]).pieces) = <<>>
        BY <1>1, <1>2, <1>4, <1>5, <3>3, ResultTextSays
      <4> QED BY <2>4, <3>1, <3>3, <4>1
    <3>4. CASE ~IsToolUse(c[i]) /\ ~IsToolResult(c[i])
      <4>1. d[i] = c[i] /\ IsSeq(c[i].pieces) /\ \A p \in ToSet(c[i].pieces) : p[1] # "use"
        BY <1>1, <1>2, <1>4, <1>5, <3>4
      <4>2. \A p \in ToSet(c[i].pieces) : Got("use", p) = <<>>
        BY <4>1 DEF Got
      <4>3. Heard("use", c[i].pieces) = <<>>
        BY <4>1, <4>2, HeardNone
      <4> QED BY <2>4, <3>1, <3>4, <4>1, <4>3
    <3> QED BY <3>2, <3>3, <3>4
  <2>7. Flat(d, g) = Flat(c, f)
    BY <1>2, <2>6, FlatPlaces
  <2> QED BY <2>2, <2>3, <2>5, <2>7
<1>13. IsSeq(ToolUseIds(c))
  BY <1>1, AsksAre DEF c
<1>14. Value(how, d) = Value(how, c)
  <2>1. CASE how = "real"
    BY <1>9, <2>1 DEF Value
  <2>2. CASE how = "use"
    <3> DEFINE ids == ToolUseIds(c)
    <3>1. Value(how, c) = ids \o <<>> /\ Value(how, d) = <<>> \o ids
      BY <1>10, <1>11, <1>12, <2>2 DEF Value
    <3> HIDE DEF ids
    <3> QED BY <1>13, <3>1, ConcatNothing DEF ids
  <2> QED BY <2>1, <2>2 DEF Hows
<1> QED BY <1>1, <1>14 DEF c

\* Text for orphaned results says what they said.
LEMMA OrphansTextSays ==
  ASSUME NEW c, IsSeq(c), \A b \in ToSet(c) : IsSeq(b.pieces), Quiet(c), NEW ids, NEW how \in Hows,
         \A b \in ToSet(OrphansText(c, ids)) : IsSeq(b.pieces)
  PROVE  Value(how, OrphansText(c, ids)) = Value(how, c)
<1> DEFINE d == OrphansText(c, ids)
<1>1. /\ DOMAIN d = DOMAIN c
      /\ \A i \in DOMAIN c : d[i] = IF IsToolResult(c[i]) /\ c[i].id \notin ids
                                    THEN AsResultText(c[i]) ELSE c[i]
  BY DEF OrphansText
<1>2. IsSeq(d) /\ ToolUses(d) = ToolUses(c)
  BY OrphansKeepUses
<1>3. ToolUseIds(d) = ToolUseIds(c)
  BY <1>2 DEF ToolUseIds
<1>4. \A b \in ToSet(d) : IsSeq(b.pieces)
  OBVIOUS
<1> HIDE DEF d
<1>5. \A i \in DOMAIN c : c[i] \in ToSet(c)
  BY DEF ToSet
<1>6. \A i \in DOMAIN c : Heard("real", WrittenAt(c[i])) = Heard("real", WrittenAt(d[i]))
  BY <1>1, <1>5, ResultTextSays
<1>7. Heard("real", Written(c)) = Heard("real", Written(d))
  BY <1>1, <1>2, <1>4, <1>6, WrittenPlaces
<1>8. Quiet(d)
  <2>1. \A i \in DOMAIN c : \A p \in ToSet(d[i].pieces) : p[1] # "use"
    BY <1>1, <1>5, ResultTextSays DEF Quiet
  <2> QED BY <1>1, <2>1 DEF Quiet, ToSet
<1>9. Heard("use", ExtractText(c)) = <<>> /\ Heard("use", ExtractText(d)) = <<>>
  BY <1>2, <1>4, <1>8, QuietText
<1> QED BY <1>3, <1>7, <1>9 DEF Value, d

-----------------------------------------------------------------------------
(* What is said, from the request to the payload.                          *)

\* All that a message has written has one position.
Placed(m) == \E q : \A p \in ToSet(Value("real", m.content)) : p[3] = q

\* Uses are an assistant's, results are not, and the pieces of one message are in one
\* place, if it is not plain.
Kempt(m) ==
  /\ \A b \in ToSet(m.content) : /\ IsToolUse(b) => m.role = "assistant"
                                 /\ IsToolResult(b) => m.role # "assistant"
  /\ Placed(m) \/ IsPlainText(m)

\* What a client writes: tool content where the API has it, each piece in its place,
\* and no piece that stands for a use.
WellWritten(r) ==
  \A i \in DOMAIN r.messages :
    \A b \in ToSet(r.messages[i].content) :
      /\ IsToolUse(b) => r.messages[i].role = "assistant"
      /\ IsToolResult(b) => r.messages[i].role # "assistant"
      /\ \A p \in ToSet(b.pieces) : p[1] # "use" /\ p[3] \in {0, i}

\* What was heard was there, and written.
LEMMA HeardReal ==
  ASSUME NEW s, IsSeq(s)
  PROVE  ToSet(Heard("real", s)) = {p \in ToSet(s) : p[3] > 0}
<1> DEFINE P == ToSet(s)
           g == GotFrom("real", P)
<1>1. s \in Seq(P) /\ \A p \in P : g[p] = Got("real", p)
  BY IsSeqFacts DEF GotFrom
<1>2. Heard("real", s) = Flat(s, g) /\ Yields(g, P)
  BY <1>1, HeardIsFlat
<1> HIDE DEF g
<1>3. ToSet(Heard("real", s)) = UNION {ToSet(g[p]) : p \in ToSet(s)}
  BY <1>1, <1>2, FlatElements
<1>4. \A p \in P : ToSet(g[p]) = IF p[3] > 0 THEN {p} ELSE {}
  <2>1. ToSet(<<>>) = {} /\ \A p : ToSet(<<p>>) = {p}
    BY EmptyIsSeq, ElementsOf, OneIsSeq
  <2> QED BY <1>1, <2>1 DEF Got
<1> DEFINE h == Heard("real", s)
<1> HIDE DEF P, h
<1>5. \A p \in ToSet(h) : p \in ToSet(s) /\ p[3] > 0
  <2> TAKE p \in ToSet(h)
  <2>1. PICK x \in ToSet(s) : p \in ToSet(g[x])
    BY <1>3 DEF h
  <2>2. p \in IF x[3] > 0 THEN {x} ELSE {}
    BY <1>4, <2>1 DEF P
  <2>3. p = x /\ x[3] > 0
    BY <2>2
  <2> QED BY <2>1, <2>3
<1>6. \A p \in ToSet(s) : p[3] > 0 => p \in ToSet(h)
  <2> SUFFICES ASSUME NEW p \in ToSet(s), p[3] > 0 PROVE p \in ToSet(h)
    OBVIOUS
  <2>1. p \in ToSet(g[p])
    BY <1>4 DEF P
  <2> QED BY <1>3, <2>1 DEF h
<1> QED BY <1>5, <1>6 DEF h

\* What is written comes from a block.
LEMMA WrittenElements ==
  ASSUME NEW c, IsSeq(c), \A b \in ToSet(c) : IsSeq(b.pieces)
  PROVE  /\ IsSeq(Written(c)) /\ IsSeq(Value("real", c))
         /\ \A p \in ToSet(Value("real", c)) :
              p[3] > 0 /\ \E b \in ToSet(c) : p \in ToSet(b.pieces)
<1> DEFINE S == ToSet(c)
           w == WrittenFrom(S)
<1>1. c \in Seq(S)
  BY IsSeqFacts
<1>2. Written(c) = Flat(c, w) /\ Yields(w, S) /\ IsSeq(Written(c))
  <2>1. \A b \in S : IsSeq(b.pieces)
    OBVIOUS
  <2> HIDE DEF S
  <2> QED BY <1>1, <2>1, WrittenIsFlat
<1>3. \A b \in S : \A p \in ToSet(w[b]) : p \in ToSet(b.pieces)
  <2>1. ToSet(<<>>) = {}
    BY EmptyIsSeq, ElementsOf
  <2> QED BY <2>1 DEF WrittenFrom, WrittenAt
<1> HIDE DEF w
<1>4. ToSet(Written(c)) = UNION {ToSet(w[b]) : b \in S}
  BY <1>1, <1>2, FlatElements
<1>5. Value("real", c) = Heard("real", Written(c))
  BY DEF Value
<1>6. IsSeq(Value("real", c)) /\ ToSet(Value("real", c)) = {p \in ToSet(Written(c)) : p[3] > 0}
  BY <1>2, <1>5, HeardIsSeq, HeardReal
<1> QED BY <1>2, <1>3, <1>4, <1>6

\* Textualize leaves what is said and keeps the messages kempt.
LEMMA TextualizeSays ==
  ASSUME Sound(msgs), Textualize, request \in Requests, msgs = request.messages, WellWritten(request),
         NEW how \in Hows
  PROVE  /\ \A m \in ToSet(msgs') : Kempt(m)
         /\ Flat(msgs', ValueOf(how, ToSet(msgs'))) = Flat(msgs, ValueOf(how, ToSet(msgs)))
<1>1. /\ Sound(msgs') /\ Len(msgs') = Len(msgs)
      /\ \A i \in 1..Len(msgs) :
           /\ WellMade(msgs[i])
           /\ msgs'[i] = IF entries = <<>> THEN TextualizeAll(msgs[i]) ELSE TextualizeOrphans(msgs, i)
  BY TextualizeSound
<1>2. /\ DOMAIN msgs = 1..Len(msgs) /\ DOMAIN msgs' = 1..Len(msgs)
      /\ ToSet(msgs) = {msgs[i] : i \in 1..Len(msgs)} /\ ToSet(msgs') = {msgs'[i] : i \in 1..Len(msgs)}
  BY <1>1, IsSeqFacts, ElementsOf DEF Sound
<1>3. ASSUME NEW i \in 1..Len(msgs)
      PROVE  /\ WellMade(msgs[i]) /\ WellMade(msgs'[i]) /\ Quiet(msgs[i].content) /\ Placed(msgs[i])
             /\ \A b \in ToSet(msgs[i].content) : /\ IsToolUse(b) => msgs[i].role = "assistant"
                                                  /\ IsToolResult(b) => msgs[i].role # "assistant"
  <2>1. \A b \in ToSet(msgs[i].content) :
          /\ IsToolUse(b) => msgs[i].role = "assistant"
          /\ IsToolResult(b) => msgs[i].role # "assistant"
          /\ \A p \in ToSet(b.pieces) : p[1] # "use" /\ p[3] \in {0, i}
    BY <1>2 DEF WellWritten
  <2>2. WellMade(msgs[i]) /\ WellMade(msgs'[i])
    BY <1>1, <1>2 DEF Sound
  <2> DEFINE m == msgs[i]
  <2>3. IsSeq(m.content) /\ \A b \in ToSet(m.content) : IsSeq(b.pieces)
    BY <2>2 DEF WellMade
  <2>4. \A p \in ToSet(Value("real", m.content)) :
          p[3] > 0 /\ \E b \in ToSet(m.content) : p \in ToSet(b.pieces)
    BY <2>3, WrittenElements
  <2>5. \A p \in ToSet(Value("real", m.content)) : p[3] = i
    <3> TAKE p \in ToSet(Value("real", m.content))
    <3>1. p[3] > 0 /\ p[3] \in {0, i}
      BY <2>1, <2>4
    <3> QED BY <3>1
  <2> QED BY <2>1, <2>2, <2>5 DEF Quiet, Placed
<1>4. ASSUME NEW i \in 1..Len(msgs), NEW way \in Hows
      PROVE  Value(way, msgs'[i].content) = Value(way, msgs[i].content)
  <2>1. CASE entries = <<>>
    <3>1. msgs'[i] = TextualizeAll(msgs[i])
      BY <1>1, <2>1
    <3> QED BY <1>3, <3>1, AllTextSays
  <2>2. CASE entries # <<>>
    <3> DEFINE ids == PrecedingIds(msgs, i)
               c == msgs[i].content
    <3>1. /\ WellMade(msgs[i]) /\ WellMade(msgs'[i])
          /\ msgs'[i].content = IF msgs[i].role # "user" THEN c ELSE OrphansText(c, ids)
      BY <1>1, <1>3, <2>2, OrphansTextIs
    <3>2. IsSeq(c) /\ (\A b \in ToSet(c) : IsSeq(b.pieces)) /\ Quiet(c)
      BY <1>3, <3>1 DEF WellMade
    <3>3. CASE msgs[i].role # "user"
      BY <3>1, <3>3
    <3>4. CASE msgs[i].role = "user"
      <4>1. msgs'[i].content = OrphansText(c, ids)
        BY <3>1, <3>4
      <4>2. \A b \in ToSet(OrphansText(c, ids)) : IsSeq(b.pieces)
        BY <3>1, <4>1 DEF WellMade
      <4> HIDE DEF c, ids
      <4>3. Value(way, OrphansText(c, ids)) = Value(way, c)
        BY <3>2, <4>2, OrphansTextSays
      <4> QED BY <4>1, <4>3 DEF c
    <3> QED BY <3>3, <3>4
  <2> QED BY <2>1, <2>2
<1>5. ASSUME NEW i \in 1..Len(msgs) PROVE Kempt(msgs'[i])
  <2>1. Placed(msgs'[i])
    <3>1. Value("real", msgs'[i].content) = Value("real", msgs[i].content)
      BY <1>4 DEF Hows
    <3> QED BY <1>3, <3>1 DEF Placed
  <2>2. CASE entries = <<>>
    <3>1. NoTools(msgs'[i])
      BY <1>1, <2>2, AllTextHasNoTools
    <3> QED BY <2>1, <3>1 DEF Kempt, NoTools
  <2>3. CASE entries # <<>>
    <3> DEFINE ids == PrecedingIds(msgs, i)
               c == msgs[i].content
    <3>1. /\ msgs'[i].role = msgs[i].role
          /\ msgs'[i].content = IF msgs[i].role # "user" THEN c ELSE OrphansText(c, ids)
      BY <1>1, <1>3, <2>3, OrphansTextIs
    <3>2. \A b : ~IsToolUse(AsResultText(b)) /\ ~IsToolResult(AsResultText(b))
      BY TextBlockIs DEF AsResultText
    <3>3. \A b \in ToSet(OrphansText(c, ids)) : b \in ToSet(c) \/ \E x : b = AsResultText(x)
      BY DEF OrphansText, ToSet
    <3> HIDE DEF c, ids
    <3>4. \A b \in ToSet(msgs'[i].content) : b \in ToSet(c) \/ (~IsToolUse(b) /\ ~IsToolResult(b))
      <4>1. \A b \in ToSet(OrphansText(c, ids)) : b \in ToSet(c) \/ (~IsToolUse(b) /\ ~IsToolResult(b))
        BY <3>2, <3>3
      <4>2. msgs'[i].content = c \/ msgs'[i].content = OrphansText(c, ids)
        BY <3>1
      <4> QED BY <4>1, <4>2
    <3>5. \A b \in ToSet(c) : /\ IsToolUse(b) => msgs[i].role = "assistant"
                              /\ IsToolResult(b) => msgs[i].role # "assistant"
      BY <1>3 DEF c
    <3> QED BY <2>1, <3>1, <3>4, <3>5 DEF Kempt
  <2> QED BY <2>2, <2>3
<1>6. Flat(msgs', ValueOf(how, ToSet(msgs'))) = Flat(msgs, ValueOf(how, ToSet(msgs)))
  <2> DEFINE f == ValueOf(how, ToSet(msgs'))
             g == ValueOf(how, ToSet(msgs))
  <2>1. DOMAIN msgs' = DOMAIN msgs /\ \A i \in DOMAIN msgs' : f[msgs'[i]] = g[msgs[i]]
    BY <1>2, <1>4 DEF ValueOf
  <2> HIDE DEF f, g
  <2>2. Flat(msgs', f) = Flat(msgs, g)
    BY <2>1, FlatPlaces
  <2> QED BY <2>2 DEF f, g
<1> QED BY <1>2, <1>5, <1>6

\* NormalizeRoles leaves what is said.
LEMMA RolesSay ==
  ASSUME Sound(msgs), NormalizeRoles, \A m \in ToSet(msgs) : Kempt(m), NEW how \in Hows
  PROVE  /\ \A m \in ToSet(msgs') : Kempt(m)
         /\ Flat(msgs', ValueOf(how, ToSet(msgs'))) = Flat(msgs, ValueOf(how, ToSet(msgs)))
<1>1. /\ Sound(msgs') /\ Len(msgs') = Len(msgs)
      /\ \A i \in 1..Len(msgs) :
           /\ msgs'[i].content = msgs[i].content
           /\ msgs'[i].role = IF msgs[i].role = "other" THEN "user" ELSE msgs[i].role
  BY RolesSound
<1>2. /\ DOMAIN msgs = 1..Len(msgs) /\ DOMAIN msgs' = 1..Len(msgs)
      /\ ToSet(msgs) = {msgs[i] : i \in 1..Len(msgs)} /\ ToSet(msgs') = {msgs'[i] : i \in 1..Len(msgs)}
  BY <1>1, IsSeqFacts, ElementsOf DEF Sound
<1>3. ASSUME NEW i \in 1..Len(msgs) PROVE Kempt(msgs'[i])
  <2>1. Kempt(msgs[i])
    BY <1>2
  <2>2. msgs'[i].content = msgs[i].content /\ (msgs'[i].role = "assistant" <=> msgs[i].role = "assistant")
    BY <1>1
  <2> QED BY <2>1, <2>2 DEF Kempt, Placed, IsPlainText
<1> DEFINE f == ValueOf(how, ToSet(msgs'))
           g == ValueOf(how, ToSet(msgs))
<1>4. DOMAIN msgs' = DOMAIN msgs /\ \A i \in DOMAIN msgs' : f[msgs'[i]] = g[msgs[i]]
  BY <1>1, <1>2 DEF ValueOf
<1> HIDE DEF f, g
<1>5. Flat(msgs', f) = Flat(msgs, g)
  BY <1>4, FlatPlaces
<1> QED BY <1>2, <1>3, <1>5 DEF f, g

SaidBy(how, seq) == Flat(seq, ValueOf(how, ToSet(seq)))

\* What is said is what the request said.
SInv ==
  stage \in Afterwards /\ WellWritten(request) =>
    /\ \A m \in ToSet(Whole) : Kempt(m)
    /\ \A how \in Hows : SaidBy(how, Whole) = SaidBy(how, request.messages)

\* SInv is an invariant.
LEMMA SaidInvariance == Spec => []SInv
<1>1. Init => SInv
  BY DEF Init, SInv, Afterwards
<1>2. SInv /\ BInv /\ IInv /\ [Next]_vars => SInv'
  <2> SUFFICES ASSUME SInv, BInv, IInv, [Next]_vars PROVE SInv'
    OBVIOUS
  <2>1. CASE Reject \/ RefuseImages \/ Route \/ ConvertTools
    BY <2>1 DEF Reject, RefuseImages, Route, ConvertTools, SInv, Afterwards
  <2>2. CASE Textualize
    <3>1. /\ request \in Requests /\ msgs = request.messages /\ stage' = "roles" /\ request' = request
      BY <2>2 DEF BInv, Textualize
    <3>2. Sound(msgs)
      BY <3>1, RequestIsSound
    <3>3. Whole' = msgs'
      BY <3>1 DEF Whole
    <3>4. ASSUME WellWritten(request)
          PROVE  /\ \A m \in ToSet(msgs') : Kempt(m)
                 /\ \A how \in Hows : SaidBy(how, msgs') = SaidBy(how, request.messages)
      <4>1. \A how \in Hows : /\ \A m \in ToSet(msgs') : Kempt(m)
                              /\ SaidBy(how, msgs') = SaidBy(how, msgs)
        BY <2>2, <3>1, <3>2, <3>4, TextualizeSays DEF SaidBy
      <4>2. "use" \in Hows
        BY DEF Hows
      <4> QED BY <3>1, <4>1, <4>2
    <3> QED BY <3>1, <3>3, <3>4 DEF SInv
  <2>3. CASE NormalizeRoles
    <3>1. /\ Sound(msgs) /\ out = <<>> /\ out' = out /\ stage = "roles" /\ stage' = "merge"
          /\ request' = request
      BY <2>3 DEF BInv, IInv, NormalizeRoles
    <3>2. Sound(msgs')
      BY <2>3, <3>1, RolesSound
    <3>3. Whole = msgs /\ Whole' = msgs'
      <4>1. out' \o msgs' = msgs'
        BY <3>1, <3>2, ConcatNothing DEF Sound
      <4> QED BY <3>1, <4>1 DEF Whole
    <3>4. ASSUME WellWritten(request)
          PROVE  /\ \A m \in ToSet(msgs') : Kempt(m)
                 /\ \A how \in Hows : SaidBy(how, msgs') = SaidBy(how, request.messages)
      <4>1. /\ \A m \in ToSet(msgs) : Kempt(m)
            /\ \A how \in Hows : SaidBy(how, msgs) = SaidBy(how, request.messages)
        BY <3>1, <3>3, <3>4 DEF SInv, Afterwards
      <4>2. \A how \in Hows : /\ \A m \in ToSet(msgs') : Kempt(m)
                              /\ SaidBy(how, msgs') = SaidBy(how, msgs)
        BY <2>3, <3>1, <4>1, RolesSay DEF SaidBy
      <4>3. "use" \in Hows
        BY DEF Hows
      <4> QED BY <4>1, <4>2, <4>3
    <3> QED BY <3>1, <3>3, <3>4 DEF SInv
  <2>4. CASE stage \in {"merge", "alternate", "history", "current", "sent"} /\ stage' # "refused"
    <3>1. /\ Shaped(Whole, Whole') /\ request' = request /\ Sound(Whole) /\ Sound(Whole')
      BY <2>4, WholeMoves
    <3>2. \A how \in Hows : SaidBy(how, Whole') = SaidBy(how, Whole)
      BY <3>1, ShapedKeepsValues DEF SaidBy
    <3>3. \A m \in ToSet(Whole') : m \in ToSet(Whole) \/ (IsPlainText(m) /\ NoTools(m))
      BY <3>1, ShapedAddsPlain
    <3>4. \A m : IsPlainText(m) /\ NoTools(m) => Kempt(m)
      BY DEF Kempt, NoTools
    <3> QED BY <2>4, <3>1, <3>2, <3>3, <3>4 DEF SInv, Afterwards
  <2>5. CASE UNCHANGED vars
    BY <2>5 DEF vars, SInv, Whole
  <2>6. CASE stage' = "refused"
    BY <2>6 DEF SInv, Afterwards
  <2>7. stage \in {"merge", "alternate", "history", "current",
          "sent"} \/ Reject \/ RefuseImages \/ Route
        \/ ConvertTools \/ Textualize \/ NormalizeRoles \/ UNCHANGED vars
    BY DEF Next, Done, MergeRun, StartWithUser, Alternate, Split, HistoryUser, HistoryAssistant,
           PlaceSystemPrompt, Finish
  <2> QED BY <2>1, <2>2, <2>3, <2>4, <2>5, <2>6, <2>7
<1> QED BY <1>1, <1>2, Invariance, BaseInvariance, PTL DEF Spec

-----------------------------------------------------------------------------
(* What the turns show, next to what the messages say.                     *)

\* As many elements, and the same ones.
Same(s, t) == IsSeq(s) /\ IsSeq(t) /\ Len(s) = Len(t) /\ ToSet(s) = ToSet(t)

\* The same pieces, with those of each place at the same positions.
Alike(s, t) == Same(s, t) /\ \A i \in 1..Len(s) : s[i][3] = t[i][3]

\* What is heard of a list of texts is what is heard of each.
LEMMA HeardLists ==
  ASSUME NEW how, NEW g, Lists(g)
  PROVE  LET h == [i \in DOMAIN g |-> Heard(how, g[i])]
         IN Heard(how, FlattenSeq(g)) = FlattenSeq(h) /\ Lists(h) /\ Len(h) = Len(g)
<1> DEFINE S == ToSet(g)
           m == [x \in S |-> x]
           f == HeardIn(how, S, m)
           h == [i \in DOMAIN g |-> Heard(how, g[i])]
<1>1. g \in Seq(S) /\ (\A x \in S : IsSeq(x)) /\ \A i \in DOMAIN g : g[i] \in S
  BY IsSeqFacts DEF Lists, ToSet
<1>2. Yields(m, S) /\ FlattenSeq(g) = Flat(g, m)
  BY <1>1, FlattenIsFlat
<1>3. \A i \in DOMAIN g : f[g[i]] = Heard(how, g[i])
  BY <1>1 DEF HeardIn
<1>4. Heard(how, Flat(g, m)) = Flat(g, f) /\ Yields(f, S)
  <2> HIDE DEF m, S
  <2> QED BY <1>1, <1>2, HeardEach
<1> HIDE DEF f, S, m
<1>5. h = Mapped(g, f)
  BY <1>3 DEF Mapped
<1>6. Flat(g, f) = FlattenSeq(h) /\ Lists(h) /\ Len(h) = Len(g)
  BY <1>1, <1>4, <1>5, MapLists DEF Flat
<1> QED BY <1>2, <1>4, <1>6

\* Putting alike lists together gives alike lists.
LEMMA AlikeConcat ==
  ASSUME NEW s, NEW t, NEW u, NEW v, Alike(s, t), Alike(u, v)
  PROVE  Alike(s \o u, t \o v)
<1> DEFINE a == s \o u
           b == t \o v
<1>1. /\ IsSeq(s) /\ IsSeq(t) /\ IsSeq(u) /\ IsSeq(v) /\ Len(s) = Len(t) /\ Len(u) = Len(v)
      /\ ToSet(s) = ToSet(t) /\ ToSet(u) = ToSet(v)
  BY DEF Alike, Same
<1>2. ToSet(a) = ToSet(s) \cup ToSet(u) /\ ToSet(b) = ToSet(t) \cup ToSet(v)
  BY <1>1, ConcatElements
<1>3. IsSeq(a) /\ Len(a) = Len(s) + Len(u) /\ Len(s) \in Nat /\ Len(u) \in Nat
      /\ (\A i \in 1..Len(s) : a[i] = s[i]) /\ (\A i \in 1..Len(u) : a[Len(s) + i] = u[i])
  BY <1>1, ConcatIsSeq
<1>4. IsSeq(b) /\ Len(b) = Len(t) + Len(v)
      /\ (\A i \in 1..Len(t) : b[i] = t[i]) /\ (\A i \in 1..Len(v) : b[Len(t) + i] = v[i])
  BY <1>1, ConcatIsSeq
<1> HIDE DEF a, b
<1>5. ASSUME NEW i \in 1..Len(a) PROVE a[i][3] = b[i][3]
  <2>1. CASE i \in 1..Len(s)
    BY <1>1, <1>3, <1>4, <2>1 DEF Alike
  <2>2. CASE i \notin 1..Len(s)
    <3> DEFINE k == i - Len(s)
    <3>1. k \in 1..Len(u) /\ i = Len(s) + k
      BY <1>3, <2>2
    <3> HIDE DEF k
    <3>2. a[i] = u[k] /\ b[i] = v[k]
      BY <1>1, <1>3, <1>4, <3>1
    <3>3. u[k][3] = v[k][3]
      BY <3>1 DEF Alike
    <3> QED BY <3>2, <3>3
  <2> QED BY <2>1, <2>2
<1>6. Same(a, b)
  BY <1>1, <1>2, <1>3, <1>4 DEF Same
<1>7. Alike(a, b)
  BY <1>5, <1>6 DEF Alike
<1> QED BY <1>7 DEF a, b

\* Gathering alike lists gives alike lists.
LEMMA FlatAlike ==
  ASSUME NEW S, NEW s \in Seq(S), NEW f, NEW g, \A x \in S : Alike(f[x], g[x])
  PROVE  Alike(Flat(s, f), Flat(s, g))
<1>1. Yields(f, S) /\ Yields(g, S)
  BY DEF Alike, Same, Yields
<1> DEFINE Good == {u \in Seq(S) : Alike(Flat(u, f), Flat(u, g))}
<1>2. <<>> \in Good
  <2>1. Flat(<<>>, f) = <<>> /\ Flat(<<>>, g) = <<>> /\ <<>> \in Seq(S) /\ IsSeq(<<>>) /\ Len(<<>>) = 0
    BY FlatEmpty, EmptyIsSeq
  <2>2. Alike(<<>>, <<>>)
    BY <2>1 DEF Alike, Same
  <2> QED BY <2>1, <2>2
<1>3. ASSUME NEW u \in Seq(S), NEW x \in S, u \in Good PROVE Append(u, x) \in Good
  <2>1. Flat(Append(u, x), f) = Flat(u, f) \o f[x] /\ Flat(Append(u, x), g) = Flat(u, g) \o g[x]
    BY <1>1, FlatAppend
  <2>2. Alike(Flat(u, f), Flat(u, g)) /\ Alike(f[x], g[x]) /\ Append(u, x) \in Seq(S)
    BY <1>3
  <2>3. Alike(Flat(u, f) \o f[x], Flat(u, g) \o g[x])
    BY <2>2, AlikeConcat
  <2> QED BY <2>1, <2>2, <2>3
<1>4. Seq(S) \subseteq Good
  <2> HIDE DEF Good
  <2> QED BY <1>2, <1>3, BySequence
<1> QED BY <1>4

\* Lists of one place with the same elements are alike.
LEMMA SamePlace ==
  ASSUME NEW s, NEW t, Same(s, t), NEW q, \A p \in ToSet(t) : p[3] = q
  PROVE  Alike(s, t)
<1>1. /\ ToSet(s) = {s[i] : i \in 1..Len(s)} /\ ToSet(t) = {t[i] : i \in 1..Len(t)}
      /\ ToSet(s) = ToSet(t) /\ Len(s) = Len(t)
  BY ElementsOf DEF Same
<1>2. \A i \in 1..Len(s) : s[i] \in ToSet(t) /\ t[i] \in ToSet(t)
  BY <1>1
<1>3. \A i \in 1..Len(s) : s[i][3] = t[i][3]
  BY <1>2
<1> QED BY <1>3 DEF Alike

\* A list is like itself.
LEMMA AlikeItself == \A s : IsSeq(s) => Alike(s, s)
BY DEF Alike, Same

-----------------------------------------------------------------------------
\* What is gathered in two ways, each element counting in one of them.
LEMMA FlatSplit ==
  ASSUME NEW S, NEW c \in Seq(S), NEW f, NEW a, NEW b, Yields(f, S), Yields(a, S), Yields(b, S),
         \A x \in S : (a[x] = f[x] /\ b[x] = <<>>) \/ (a[x] = <<>> /\ b[x] = f[x])
  PROVE  Same(Flat(c, a) \o Flat(c, b), Flat(c, f))
<1>1. ASSUME NEW x \in S
      PROVE  /\ Len(f[x]) = Len(a[x]) + Len(b[x]) /\ ToSet(f[x]) = ToSet(a[x]) \cup ToSet(b[x])
             /\ Len(f[x]) \in Nat /\ Len(a[x]) \in Nat /\ Len(b[x]) \in Nat
  <2>1. ToSet(<<>>) = {} /\ Len(<<>>) = 0
    BY EmptyIsSeq, ElementsOf
  <2>2. Len(f[x]) \in Nat /\ Len(a[x]) \in Nat /\ Len(b[x]) \in Nat
    BY IsSeqFacts DEF Yields
  <2> DEFINE p == a[x]
             q == b[x]
             r == f[x]
  <2>3. (p = r /\ q = <<>>) \/ (p = <<>> /\ q = r)
    OBVIOUS
  <2> HIDE DEF p, q, r
  <2>4. Len(r) \in Nat /\ Len(p) \in Nat /\ Len(q) \in Nat
    BY <2>2 DEF p, q, r
  <2>5. CASE p = r /\ q = <<>>
    <3>1. ToSet(r) = ToSet(p) \cup ToSet(q)
      BY <2>1, <2>5
    <3>2. Len(q) = 0 /\ Len(p) = Len(r)
      BY <2>1, <2>5
    <3>3. Len(r) = Len(p) + Len(q)
      BY <2>4, <3>2
    <3> QED BY <2>4, <3>1, <3>3 DEF p, q, r
  <2>6. CASE p = <<>> /\ q = r
    <3>1. ToSet(r) = ToSet(p) \cup ToSet(q)
      BY <2>1, <2>6
    <3>2. Len(p) = 0 /\ Len(q) = Len(r)
      BY <2>1, <2>6
    <3>3. Len(r) = Len(p) + Len(q)
      BY <2>4, <3>2
    <3> QED BY <2>4, <3>1, <3>3 DEF p, q, r
  <2> QED BY <2>3, <2>5, <2>6
<1> DEFINE Good == {u \in Seq(S) : /\ Len(Flat(u, f)) = Len(Flat(u, a)) + Len(Flat(u, b))
                                   /\ ToSet(Flat(u, f)) = ToSet(Flat(u, a)) \cup ToSet(Flat(u, b))}
<1>2. <<>> \in Good
  <2>1. ToSet(<<>>) = {} /\ Len(<<>>) = 0 /\ <<>> \in Seq(S)
    BY EmptyIsSeq, ElementsOf
  <2> QED BY <2>1, FlatEmpty
<1>3. ASSUME NEW u \in Seq(S), NEW x \in S, u \in Good PROVE Append(u, x) \in Good
  <2> DEFINE v == Append(u, x)
  <2>1. /\ Len(Flat(u, f)) = Len(Flat(u, a)) + Len(Flat(u, b))
        /\ ToSet(Flat(u, f)) = ToSet(Flat(u, a)) \cup ToSet(Flat(u, b)) /\ v \in Seq(S)
    BY <1>3
  <2>2. ASSUME NEW g, Yields(g, S)
        PROVE  /\ Len(Flat(v, g)) = Len(Flat(u, g)) + Len(g[x])
               /\ ToSet(Flat(v, g)) = ToSet(Flat(u, g)) \cup ToSet(g[x])
               /\ Len(Flat(u, g)) \in Nat
    <3> DEFINE p == Flat(u, g)
               q == g[x]
    <3>1. IsSeq(p) /\ IsSeq(q) /\ Flat(v, g) = p \o q
      BY <2>2, FlatAppend DEF Yields
    <3> HIDE DEF p, q
    <3>2. Len(p \o q) = Len(p) + Len(q) /\ ToSet(p \o q) = ToSet(p) \cup ToSet(q) /\ Len(p) \in Nat
      BY <3>1, ConcatIsSeq, ConcatElements, IsSeqFacts
    <3> QED BY <3>1, <3>2 DEF p, q
  <2> HIDE DEF v
  <2>3. /\ Len(Flat(v, f)) = Len(Flat(u, f)) + Len(f[x]) /\ Len(Flat(v, a)) = Len(Flat(u, a)) + Len(a[x])
        /\ Len(Flat(v, b)) = Len(Flat(u, b)) + Len(b[x])
        /\ Len(Flat(u, f)) \in Nat /\ Len(Flat(u, a)) \in Nat /\ Len(Flat(u, b)) \in Nat
        /\ ToSet(Flat(v, f)) = ToSet(Flat(u, f)) \cup ToSet(f[x])
        /\ ToSet(Flat(v, a)) = ToSet(Flat(u, a)) \cup ToSet(a[x])
        /\ ToSet(Flat(v, b)) = ToSet(Flat(u, b)) \cup ToSet(b[x])
    BY <2>2
  <2>4. Len(Flat(v, f)) = Len(Flat(v, a)) + Len(Flat(v, b))
    <3>1. /\ Len(f[x]) = Len(a[x]) + Len(b[x]) /\ Len(f[x]) \in Nat /\ Len(a[x]) \in Nat
          /\ Len(b[x]) \in Nat
      BY <1>1
    <3> DEFINE fx == Len(f[x])
               ax == Len(a[x])
               bx == Len(b[x])
               fu == Len(Flat(u, f))
               au == Len(Flat(u, a))
               bu == Len(Flat(u, b))
    <3>2. /\ fx = ax + bx /\ fu = au + bu /\ fx \in Nat /\ ax \in Nat /\ bx \in Nat
          /\ fu \in Nat /\ au \in Nat /\ bu \in Nat
      BY <2>1, <2>3, <3>1
    <3>3. /\ Len(Flat(v, f)) = fu + fx /\ Len(Flat(v, a)) = au + ax /\ Len(Flat(v, b)) = bu + bx
      BY <2>3
    <3> HIDE DEF fx, ax, bx, fu, au, bu
    <3> QED BY <3>2, <3>3
  <2>5. ToSet(Flat(v, f)) = ToSet(Flat(v, a)) \cup ToSet(Flat(v, b))
    <3>1. ToSet(f[x]) = ToSet(a[x]) \cup ToSet(b[x])
      BY <1>1
    <3>2. ToSet(Flat(v, f)) = (ToSet(Flat(u, a)) \cup ToSet(Flat(u, b))) \cup (ToSet(a[x]) \cup ToSet(b[x]))
      BY <2>1, <2>3, <3>1
    <3>3. ToSet(Flat(v, a)) = ToSet(Flat(u, a)) \cup ToSet(a[x])
          /\ ToSet(Flat(v, b)) = ToSet(Flat(u, b)) \cup ToSet(b[x])
      BY <2>3
    <3> QED BY <3>2, <3>3, Zenon
  <2> QED BY <2>1, <2>4, <2>5 DEF v
<1>4. c \in Good
  <2> HIDE DEF Good
  <2> QED BY <1>2, <1>3, BySequence
<1>5. /\ Len(Flat(c, f)) = Len(Flat(c, a)) + Len(Flat(c, b))
      /\ ToSet(Flat(c, f)) = ToSet(Flat(c, a)) \cup ToSet(Flat(c, b))
  BY <1>4
<1> DEFINE p == Flat(c, a)
           q == Flat(c, b)
           r == Flat(c, f)
<1>6. IsSeq(p) /\ IsSeq(q) /\ IsSeq(r)
  BY FlatIsSeq
<1> HIDE DEF p, q, r
<1>7. IsSeq(p \o q) /\ Len(p \o q) = Len(p) + Len(q) /\ ToSet(p \o q) = ToSet(p) \cup ToSet(q)
  BY <1>6, ConcatIsSeq, ConcatElements
<1>8. Same(p \o q, r)
  BY <1>5, <1>6, <1>7 DEF Same, p, q, r
<1> QED BY <1>8 DEF p, q, r

Only(S, T, m) == [x \in S |-> IF x \in T THEN m[x] ELSE <<>>]

\* What is gathered from the kept elements.
LEMMA FlatKept ==
  ASSUME NEW S, NEW c \in Seq(S), NEW T, NEW m, \A x \in S : x \in T => IsSeq(m[x])
  PROVE  Flat(Kept(c, T), m) = Flat(c, Only(S, T, m)) /\ Yields(Only(S, T, m), S)
<1> DEFINE f == Only(S, T, m)
           R == {x \in S : x \in T}
           Good == {u \in Seq(S) : Flat(Kept(u, T), m) = Flat(u, f)}
<1>1. \A x \in S : f[x] = IF x \in T THEN m[x] ELSE <<>>
  BY DEF Only
<1>2. Yields(f, S) /\ Yields(m, R)
  BY <1>1, EmptyIsSeq DEF Yields
<1> HIDE DEF f
<1>3. <<>> \in Good
  <2>1. Kept(<<>>, T) = <<>> /\ Flat(<<>>, f) = <<>> /\ Flat(<<>>, m) = <<>> /\ <<>> \in Seq(S)
    BY KeptEmpty, FlatEmpty
  <2> QED BY <2>1
<1>4. ASSUME NEW u \in Seq(S), NEW x \in S, u \in Good PROVE Append(u, x) \in Good
  <2> DEFINE k == Kept(u, T)
             q == Flat(u, f)
  <2>1. IsSeq(u) /\ Append(u, x) \in Seq(S) /\ Flat(k, m) = q
    BY <1>4, SeqIs
  <2>2. k \in Seq(R)
    <3>1. IsSeq(k) /\ ToSet(k) = ToSet(u) \cap T /\ ToSet(u) \subseteq S
      BY <2>1, KeptIsSeq DEF ToSet
    <3> HIDE DEF k
    <3>2. ToSet(k) \subseteq R
      BY <3>1
    <3> HIDE DEF R
    <3> QED BY <3>1, <3>2, SeqWithin
  <2>3. Kept(Append(u, x), T) = IF x \in T THEN Append(k, x) ELSE k
    BY <2>1, KeptAppend
  <2>4. Flat(Append(u, x), f) = q \o f[x] /\ IsSeq(q)
    BY <1>2, FlatAppend
  <2> HIDE DEF k, q
  <2>5. CASE x \in T
    <3>1. x \in R
      BY <2>5
    <3>2. Flat(Append(k, x), m) = Flat(k, m) \o m[x]
      <4> HIDE DEF R
      <4> QED BY <1>2, <2>2, <3>1, FlatAppend
    <3>3. f[x] = m[x]
      BY <1>1, <2>5
    <3>4. Flat(Append(k, x), m) = Flat(Append(u, x), f)
      BY <2>1, <2>4, <3>2, <3>3
    <3> QED BY <2>1, <2>3, <2>5, <3>4
  <2>6. CASE x \notin T
    <3>1. f[x] = <<>> /\ q \o <<>> = q
      BY <1>1, <2>4, <2>6, ConcatNothing
    <3>2. Flat(Append(u, x), f) = q
      BY <2>4, <3>1
    <3> QED BY <2>1, <2>3, <2>6, <3>2
  <2> QED BY <2>5, <2>6
<1>5. c \in Good
  <2> HIDE DEF Good
  <2> QED BY <1>3, <1>4, BySequence
<1> QED BY <1>2, <1>5 DEF f

\* What is gathered without one element.
LEMMA RemoveFlat ==
  ASSUME NEW S, NEW s \in Seq(S), NEW i \in DOMAIN s, NEW m, Yields(m, S)
  PROVE  Len(Flat(s, m)) = Len(Flat(RemoveAt(s, i), m)) + Len(m[s[i]])
<1> DEFINE a == SubSeq(s, 1, i - 1)
           b == SubSeq(s, i + 1, Len(s))
           c == SubSeq(s, 1, i)
           x == s[i]
           ax == Append(a, x)
<1>1. /\ IsSeq(s) /\ Len(s) \in Nat /\ i \in 1..Len(s) /\ x \in S /\ i - 1 \in Nat
      /\ i + 1 \in Nat \ {0} /\ 1 \in Nat \ {0} /\ i - 1 <= Len(s) /\ i \in Nat
  BY SeqIs
<1>2. s = c \o b
  <2>1. i <= Len(s)
    BY <1>1
  <2> QED BY <1>1, <2>1, Parted
<1>3. a \in Seq(S) /\ b \in Seq(S)
  <2>1. \A j, k \in Nat : (j > 0 /\ k <= Len(s)) => SubSeq(s, j, k) \in Seq(S)
    OBVIOUS
  <2> QED BY <1>1, <2>1
<1>4. c = ax
  <2>1. Len(a) = i - 1 /\ (\A k \in 1..Len(a) : a[k] = s[1 + k - 1]) /\ IsSeq(a)
    BY <1>1, SubSeqIsSeq
  <2>2. IsSeq(c) /\ Len(c) = i /\ (\A k \in 1..Len(c) : c[k] = s[1 + k - 1])
    BY <1>1, SubSeqIsSeq
  <2> HIDE DEF a, c, x
  <2>3. IsSeq(ax) /\ Len(ax) = i /\ (\A k \in 1..(i - 1) : ax[k] = a[k]) /\ ax[i] = x
    BY <1>1, <2>1, AppendIsSeq
  <2> HIDE DEF ax
  <2>4. \A k \in 1..i : c[k] = ax[k]
    <3> TAKE k \in 1..i
    <3>1. c[k] = s[k]
      BY <1>1, <2>2
    <3>2. CASE k = i
      BY <2>3, <3>1, <3>2 DEF x
    <3>3. CASE k # i
      <4>1. k \in 1..(i - 1)
        BY <1>1, <3>3
      <4> QED BY <1>1, <2>1, <2>3, <3>1, <4>1
    <3> QED BY <3>2, <3>3
  <2> QED BY <2>2, <2>3, <2>4, SeqSame
<1>5. RemoveAt(s, i) = a \o b
  BY DEF RemoveAt
<1> HIDE DEF a, b, c, x
<1>6. /\ Flat(a \o b, m) = Flat(a, m) \o Flat(b, m) /\ Flat(ax, m) = Flat(a, m) \o m[x]
      /\ IsSeq(Flat(a, m)) /\ IsSeq(Flat(b, m)) /\ IsSeq(m[x]) /\ ax \in Seq(S) /\ IsSeq(Flat(ax, m))
  <2>1. Flat(a \o b, m) = Flat(a, m) \o Flat(b, m)
    BY <1>3, FlatConcat
  <2>2. Flat(ax, m) = Flat(a, m) \o m[x]
    BY <1>1, <1>3, FlatAppend
  <2>3. ax \in Seq(S)
    BY <1>1, <1>3
  <2> HIDE DEF ax
  <2>4. IsSeq(Flat(a, m)) /\ IsSeq(Flat(b, m)) /\ IsSeq(Flat(ax, m))
    BY <1>3, <2>3, FlatIsSeq
  <2>5. IsSeq(m[x])
    BY <1>1 DEF Yields
  <2> QED BY <2>1, <2>2, <2>3, <2>4, <2>5
<1> HIDE DEF ax
<1>7. Flat(s, m) = Flat(ax, m) \o Flat(b, m)
  <2>1. Flat(ax \o b, m) = Flat(ax, m) \o Flat(b, m)
    <3>1. ax \in Seq(S) /\ b \in Seq(S)
      BY <1>3, <1>6
    <3> QED BY <3>1, FlatConcat
  <2>2. s = ax \o b
    BY <1>2, <1>4
  <2> QED BY <2>1, <2>2
<1> DEFINE p == Flat(a, m)
           q == Flat(b, m)
           r == m[x]
           t == Flat(ax, m)
<1>8. /\ IsSeq(p) /\ IsSeq(q) /\ IsSeq(r) /\ IsSeq(t) /\ t = p \o r /\ Flat(s, m) = t \o q
      /\ Flat(RemoveAt(s, i), m) = p \o q
  BY <1>5, <1>6, <1>7
<1> HIDE DEF p, q, r, t
<1>9. /\ Len(p \o r) = Len(p) + Len(r) /\ Len(t \o q) = Len(t) + Len(q) /\ Len(p \o q) = Len(p) + Len(q)
      /\ Len(p) \in Nat /\ Len(q) \in Nat /\ Len(r) \in Nat
  BY <1>8, ConcatIsSeq, IsSeqFacts
<1>10. Len(Flat(s, m)) = Len(Flat(RemoveAt(s, i), m)) + Len(r)
  BY <1>8, <1>9
<1> QED BY <1>10 DEF r, x

\* Take leaves all as it is, or moves one result from those left to those in order.
LEMMA TakeShape ==
  ASSUME NEW s, NEW id, IsSeq(s.rest)
  PROVE  \/ Take(s, id) = s
         \/ \E i \in DOMAIN s.rest :
              Take(s, id) = [ordered |-> Append(s.ordered, s.rest[i]), rest |-> RemoveAt(s.rest, i)]
<1>1. CASE \E i \in DOMAIN s.rest : s.rest[i].id = id
  <2> DEFINE Good(i) == s.rest[i].id = id /\ \A j \in 1..(i - 1) : s.rest[j].id # id
             i == CHOOSE i \in DOMAIN s.rest : Good(i)
  <2>1. Take(s, id) = [ordered |-> Append(s.ordered, s.rest[i]), rest |-> RemoveAt(s.rest, i)]
    BY <1>1 DEF Take
  <2>2. \E k \in DOMAIN s.rest : Good(k)
    <3> DEFINE Hits == {k \in DOMAIN s.rest : s.rest[k].id = id}
    <3>1. Hits \in SUBSET Nat /\ Hits # {}
      BY <1>1, IsSeqFacts
    <3>2. PICK k \in Hits : \A j \in Hits : k <= j
      <4> HIDE DEF Hits
      <4> QED BY <3>1, LeastNat
    <3>3. DOMAIN s.rest = 1..Len(s.rest) /\ Len(s.rest) \in Nat
      BY IsSeqFacts
    <3>4. \A j \in 1..(k - 1) : j \in DOMAIN s.rest /\ ~(k <= j)
      BY <3>2, <3>3
    <3> QED BY <3>2, <3>4
  <2>3. i \in DOMAIN s.rest
    <3> HIDE DEF Good
    <3> QED BY <2>2
  <2> QED BY <2>1, <2>3
<1>2. CASE ~\E i \in DOMAIN s.rest : s.rest[i].id = id
  BY <1>2 DEF Take
<1> QED BY <1>1, <1>2

-----------------------------------------------------------------------------
\* What two lists yield, element by element, is as long as it was.
YieldsAsMuch(s, t, m) ==
  Len(Flat(t.ordered, m)) + Len(Flat(t.rest, m)) = Len(Flat(s.ordered, m)) + Len(Flat(s.rest, m))

\* One use that takes its result keeps what the results yield as long as it was.
LEMMA TakeKeeps ==
  ASSUME NEW S, NEW s, NEW id, s.ordered \in Seq(S), s.rest \in Seq(S), NEW m, Yields(m, S)
  PROVE  LET t == Take(s, id)
         IN t.ordered \in Seq(S) /\ t.rest \in Seq(S) /\ YieldsAsMuch(s, t, m)
<1> DEFINE t == Take(s, id)
           o == s.ordered
           r == s.rest
<1>1. t = s \/ \E i \in DOMAIN r : t = [ordered |-> Append(o, r[i]), rest |-> RemoveAt(r, i)]
  <2>1. IsSeq(s.rest)
    BY SeqIs
  <2> QED BY <2>1, TakeShape
<1>2. ASSUME t = s PROVE t.ordered \in Seq(S) /\ t.rest \in Seq(S) /\ YieldsAsMuch(s, t, m)
  <2> HIDE DEF t
  <2> QED BY <1>2 DEF YieldsAsMuch
<1>3. ASSUME NEW i \in DOMAIN r, t = [ordered |-> Append(o, r[i]), rest |-> RemoveAt(r, i)]
      PROVE  t.ordered \in Seq(S) /\ t.rest \in Seq(S) /\ YieldsAsMuch(s, t, m)
  <2> DEFINE x == r[i]
             u == RemoveAt(r, i)
             v == Append(o, x)
  <2>1. t.ordered = v /\ t.rest = u /\ x \in S /\ IsSeq(r)
    <3>1. r[i] \in S
      OBVIOUS
    <3>2. t.ordered = Append(o, r[i]) /\ t.rest = RemoveAt(r, i)
      BY <1>3
    <3> QED BY <3>1, <3>2, SeqIs
  <2>2. IsSeq(u) /\ ToSet(r) = ToSet(u) \cup {x} /\ ToSet(r) \subseteq S
    <3>1. IsSeq(RemoveAt(r, i)) /\ ToSet(r) = ToSet(RemoveAt(r, i)) \cup {r[i]}
      <4> HIDE DEF r
      <4> QED BY <2>1, RemoveIs
    <3>2. ToSet(r) \subseteq S
      BY DEF ToSet
    <3> QED BY <3>1, <3>2
  <2>3. Len(Flat(r, m)) = Len(Flat(u, m)) + Len(m[x])
    <3> HIDE DEF r
    <3> QED BY RemoveFlat DEF r
  <2>4. u \in Seq(S)
    <3> HIDE DEF u, r
    <3>1. ToSet(u) \subseteq S
      BY <2>2
    <3> QED BY <2>2, <3>1, SeqWithin
  <2>5. v \in Seq(S)
    BY <2>1
  <2>6. Flat(v, m) = Flat(o, m) \o m[x] /\ IsSeq(Flat(o, m)) /\ IsSeq(m[x])
    <3> HIDE DEF x, o, r
    <3> QED BY <2>1, FlatAppend, ZenonT(30) DEF o, Yields
  <2>7. /\ Len(Flat(v, m)) = Len(Flat(o, m)) + Len(m[x]) /\ Len(Flat(o, m)) \in Nat /\ Len(m[x]) \in Nat
    <3> DEFINE a == Flat(o, m)
               b == m[x]
    <3>1. IsSeq(a) /\ IsSeq(b) /\ Flat(v, m) = a \o b
      BY <2>6
    <3> HIDE DEF a, b
    <3>2. Len(a \o b) = Len(a) + Len(b) /\ Len(a) \in Nat /\ Len(b) \in Nat
      BY <3>1, ConcatIsSeq, IsSeqFacts
    <3>3. Len(Flat(v, m)) = Len(a) + Len(b)
      BY <3>1, <3>2
    <3> QED BY <3>2, <3>3 DEF a, b
  <2>8. Len(Flat(u, m)) \in Nat
    <3> HIDE DEF u
    <3> QED BY <2>4, FlatIsSeq, IsSeqFacts
  <2> HIDE DEF u, v, o, r, x, t
  <2>9. Len(Flat(v, m)) + Len(Flat(u, m)) = Len(Flat(o, m)) + Len(Flat(r, m))
    BY <2>3, <2>7, <2>8
  <2>10. YieldsAsMuch(s, t, m)
    BY <2>1, <2>9 DEF YieldsAsMuch, o, r
  <2> QED BY <2>1, <2>4, <2>5, <2>10
<1> HIDE DEF t
<1>4. t.ordered \in Seq(S) /\ t.rest \in Seq(S) /\ YieldsAsMuch(s, t, m)
  BY <1>1, <1>2, <1>3
<1> QED BY <1>4 DEF t

\* Reordering results keeps what they yield, but for the order.
LEMMA ReorderSame ==
  ASSUME NEW S, NEW results \in Seq(S), NEW ids, IsSeq(ids), NEW m, Yields(m, S)
  PROVE  Reorder(results, ids) \in Seq(S) /\ Same(Flat(Reorder(results, ids), m), Flat(results, m))
<1> DEFINE R == Reorder(results, ids)
           N == Len(ids)
<1>1. IsSeq(results) /\ N \in Nat /\ ToSet(results) \subseteq S
  <2>1. IsSeq(results)
    BY SeqIs
  <2> QED BY <2>1, IsSeqFacts DEF ToSet
<1>2. IsSeq(R) /\ ToSet(R) = ToSet(results)
  BY <1>1, ReorderKeeps
<1>3. PICK f : /\ Taking(f, results, ids)
               /\ R = IF Len(results) <= 1 \/ ids = <<>> THEN results ELSE f[N].ordered \o f[N].rest
  BY ReorderIs
<1> HIDE DEF R
<1>4. R \in Seq(S)
  BY <1>1, <1>2, SeqWithin
<1>5. Len(Flat(R, m)) = Len(Flat(results, m))
  <2> DEFINE Good == {n \in Nat : /\ f[n].ordered \in Seq(S) /\ f[n].rest \in Seq(S)
                                  /\ Len(Flat(f[n].ordered, m)) + Len(Flat(f[n].rest, m)) = Len(Flat(results, m))}
  <2>1. 0 \in Good
    <3>1. f[0].ordered = <<>> /\ f[0].rest = results
      BY <1>3 DEF Taking
    <3>2. Flat(<<>>, m) = <<>> /\ Len(<<>>) = 0 /\ <<>> \in Seq(S) /\ Len(Flat(results, m)) \in Nat
      BY FlatEmpty, FlatIsSeq, IsSeqFacts
    <3> DEFINE a == f[0].ordered
               b == f[0].rest
               k == Len(Flat(results, m))
    <3>3. a \in Seq(S) /\ b \in Seq(S) /\ Len(Flat(a, m)) = 0 /\ Len(Flat(b, m)) = k /\ k \in Nat
      BY <3>1, <3>2
    <3> HIDE DEF a, b, k
    <3>4. Len(Flat(a, m)) + Len(Flat(b, m)) = k
      BY <3>3
    <3> QED BY <3>3, <3>4 DEF a, b, k
  <2>2. ASSUME NEW n \in 0..(N - 1), n \in Good PROVE n + 1 \in Good
    <3> DEFINE s == f[n]
               t == f[n + 1]
               id == ids[n + 1]
    <3>1. t = Take(s, id)
      BY <1>3 DEF Taking
    <3>2. s.ordered \in Seq(S) /\ s.rest \in Seq(S)
          /\ Len(Flat(s.ordered, m)) + Len(Flat(s.rest, m)) = Len(Flat(results, m))
      BY <2>2
    <3>3. n + 1 \in Nat
      BY <1>1
    <3> HIDE DEF s, t, id
    <3>4. t.ordered \in Seq(S) /\ t.rest \in Seq(S) /\ YieldsAsMuch(s, t, m)
      BY <3>1, <3>2, TakeKeeps
    <3>5. Len(Flat(t.ordered, m)) + Len(Flat(t.rest, m)) = Len(Flat(results, m))
      BY <3>2, <3>4 DEF YieldsAsMuch
    <3> QED BY <3>3, <3>4, <3>5 DEF t
  <2>3. N \in Good
    <3> HIDE DEF Good
    <3>1. 0..N \subseteq Good
      BY <1>1, <2>1, <2>2, UpTo
    <3>2. N \in 0..N
      BY <1>1
    <3> QED BY <3>1, <3>2
  <2>4. CASE Len(results) <= 1 \/ ids = <<>>
    BY <1>3, <2>4
  <2>5. CASE ~(Len(results) <= 1 \/ ids = <<>>)
    <3> DEFINE a == f[N].ordered
               b == f[N].rest
               p == Flat(a, m)
               q == Flat(b, m)
    <3>1. a \in Seq(S) /\ b \in Seq(S) /\ Len(p) + Len(q) = Len(Flat(results, m))
      BY <2>3
    <3>2. R = a \o b
      BY <1>3, <2>5
    <3> HIDE DEF a, b
    <3>3. Flat(R, m) = p \o q /\ IsSeq(p) /\ IsSeq(q)
      BY <3>1, <3>2, FlatConcat, FlatIsSeq
    <3> HIDE DEF p, q
    <3>4. Len(p \o q) = Len(p) + Len(q)
      BY <3>3, ConcatIsSeq
    <3> QED BY <3>1, <3>3, <3>4
  <2> QED BY <2>4, <2>5
<1>6. /\ ToSet(Flat(R, m)) = UNION {ToSet(m[x]) : x \in ToSet(R)}
      /\ ToSet(Flat(results, m)) = UNION {ToSet(m[x]) : x \in ToSet(results)}
      /\ IsSeq(Flat(R, m)) /\ IsSeq(Flat(results, m))
  BY <1>4, FlatElements, FlatIsSeq
<1>7. Same(Flat(R, m), Flat(results, m))
  BY <1>2, <1>5, <1>6 DEF Same
<1> QED BY <1>4, <1>7 DEF R

\* Going from one list to another of the same elements, twice.
LEMMA SameRules ==
  /\ \A s, t, u : Same(s, t) /\ Same(t, u) => Same(s, u)
  /\ \A s, t, u : Same(s, t) /\ IsSeq(u) => Same(u \o s, u \o t)
<1>1. \A s, t, u : Same(s, t) /\ Same(t, u) => Same(s, u)
  BY DEF Same
<1>2. ASSUME NEW s, NEW t, NEW u, Same(s, t), IsSeq(u) PROVE Same(u \o s, u \o t)
  <2>1. IsSeq(s) /\ IsSeq(t) /\ Len(s) = Len(t) /\ ToSet(s) = ToSet(t)
    BY <1>2 DEF Same
  <2>2. /\ IsSeq(u \o s) /\ IsSeq(u \o t) /\ Len(u \o s) = Len(u) + Len(s) /\ Len(u \o t) = Len(u) + Len(t)
    BY <1>2, <2>1, ConcatIsSeq
  <2>3. ToSet(u \o s) = ToSet(u) \cup ToSet(s) /\ ToSet(u \o t) = ToSet(u) \cup ToSet(t)
    BY <1>2, <2>1, ConcatElements
  <2> DEFINE a == u \o s
             b == u \o t
  <2>4. /\ IsSeq(a) /\ IsSeq(b) /\ Len(a) = Len(b) /\ ToSet(a) = ToSet(b)
    BY <2>1, <2>2, <2>3
  <2> HIDE DEF a, b
  <2>5. Same(a, b)
    BY <2>4 DEF Same
  <2> QED BY <2>5 DEF a, b
<1> QED BY <1>1, <1>2

-----------------------------------------------------------------------------
TextFrom(R) == [r \in R |-> r.text]

\* What a turn shows to the runtime.
Shows(t) == t.text \o FlattenSeq([j \in DOMAIN t.results |-> t.results[j].text])

\* A result sent says what the result said.
LEMMA ResultSays ==
  ASSUME NEW b, IsSeq(b.pieces)
  PROVE  IsSeq(Result(b).text) /\ Heard("real", Result(b).text) = Heard("real", b.pieces)
<1> DEFINE mark == IF Pictures(b) = <<>> THEN <<>> ELSE <<Piece("notice", "attached")>>
           none == <<Piece("synthetic", "(empty result)")>>
           q == b.pieces
           text == q \o mark
<1>1. Result(b).text = IF IsEmpty(text) THEN none ELSE text
  BY DEF Result
<1>2. IsSeq(<<>>) /\ Heard("real", <<>>) = <<>>
  BY EmptyIsSeq, HeardIsSeq
<1>3. IsSeq(mark) /\ Heard("real", mark) = <<>>
  <2>1. IsSeq(<<Piece("notice", "attached")>>) /\ Heard("real", <<Piece("notice", "attached")>>) = <<>>
    BY OneIsSeq, HeardOne, PieceSays
  <2> QED BY <1>2, <2>1
<1>4. IsSeq(none) /\ Heard("real", none) = <<>>
  <2> DEFINE p == Piece("synthetic", "(empty result)")
  <2>1. Got("real", p) = <<>>
    BY PieceSays
  <2> HIDE DEF p
  <2>2. IsSeq(<<p>>) /\ Heard("real", <<p>>) = <<>>
    BY <2>1, OneIsSeq, HeardOne
  <2> QED BY <2>2 DEF p
<1>5. Heard("real", <<Blank>>) = <<>>
  <2>1. Got("real", Blank) = <<>>
    BY PieceSays DEF Blank
  <2> QED BY <2>1, HeardOne
<1> HIDE DEF mark, none, q
<1>6. IsSeq(q) /\ IsSeq(text) /\ Heard("real", text) = Heard("real", q) \o Heard("real", mark)
  BY <1>3, ConcatIsSeq, HeardConcat DEF q
<1>7. Heard("real", text) = Heard("real", q)
  <2> DEFINE h == Heard("real", q)
  <2>1. IsSeq(h)
    BY <1>6, HeardIsSeq
  <2>2. Heard("real", text) = h \o <<>>
    BY <1>3, <1>6
  <2> HIDE DEF h
  <2>3. Heard("real", text) = h
    BY <2>1, <2>2, ConcatNothing
  <2> QED BY <2>3 DEF h
<1> HIDE DEF text
<1>8. CASE IsEmpty(text)
  <2>1. text = <<>> \/ text = <<Blank>>
    BY <1>8 DEF IsEmpty
  <2>2. Heard("real", text) = <<>>
    BY <1>2, <1>5, <2>1
  <2> QED BY <1>1, <1>4, <1>7, <1>8, <2>2 DEF q
<1>9. CASE ~IsEmpty(text)
  BY <1>1, <1>6, <1>7, <1>9 DEF q
<1> QED BY <1>8, <1>9

\* What is written in the results of a content, block by block.
InResults(S) == [b \in S |-> IF IsToolResult(b) THEN Heard("real", b.pieces) ELSE <<>>]

\* The results sent with a turn say what the results of its message said.
LEMMA ResultsSay ==
  ASSUME NEW m, WellMade(m), NEW ids, IsSeq(ids), NEW res, res = Reorder(Results(m.content), ids)
  PROVE  LET texts == FlattenSeq([j \in DOMAIN res |-> res[j].text])
         IN /\ IsSeq(texts)
            /\ Same(Heard("real", texts), Flat(m.content, InResults(ToSet(m.content))))
<1> DEFINE c == m.content
           C == ToSet(c)
           T == {b \in C : IsToolResult(b)}
           B == ResultBlocks(c)
           R == Results(c)
           S == ToSet(R)
           tx == TextFrom(S)
           h == HeardIn("real", S, tx)
           G == [b \in C |-> Heard("real", b.pieces)]
<1>1. IsSeq(c) /\ (\A b \in C : IsSeq(b.pieces)) /\ c \in Seq(C)
  BY IsSeqFacts DEF WellMade
<1>2. /\ IsSeq(B) /\ B = Kept(c, T) /\ ToSet(B) = T
      /\ IsSeq(R) /\ Len(R) = Len(B) /\ \A k \in 1..Len(B) : R[k] = Result(B[k])
  <2> HIDE DEF c
  <2> QED BY <1>1, ResultsAre
<1>3. /\ DOMAIN R = 1..Len(B) /\ DOMAIN B = 1..Len(B) /\ R \in Seq(S)
      /\ S = {R[k] : k \in 1..Len(B)} /\ T = {B[k] : k \in 1..Len(B)}
  BY <1>2, IsSeqFacts, ElementsOf
<1>4. \A k \in 1..Len(B) : /\ R[k] \in S /\ B[k] \in C /\ IsSeq(R[k].text)
                           /\ Heard("real", R[k].text) = Heard("real", B[k].pieces)
  <2> TAKE k \in 1..Len(B)
  <2>1. R[k] \in S /\ B[k] \in T /\ R[k] = Result(B[k])
    BY <1>2, <1>3
  <2>2. B[k] \in C /\ IsSeq(B[k].pieces)
    BY <1>1, <2>1
  <2> QED BY <2>1, <2>2, ResultSays
<1>5. \A r \in S : tx[r] = r.text /\ IsSeq(r.text)
  <2>1. \A r \in S : \E k \in 1..Len(B) : r = R[k]
    BY <1>3
  <2>2. \A r \in S : IsSeq(r.text)
    BY <1>4, <2>1
  <2> QED BY <2>2 DEF TextFrom
<1>6. Yields(tx, S)
  BY <1>5 DEF Yields
<1>7. (\A r \in S : h[r] = Heard("real", tx[r])) /\ (\A b \in C : G[b] = Heard("real", b.pieces))
  BY DEF HeardIn
<1>8. \A b \in C : InResults(C)[b] = Only(C, T, G)[b]
  BY DEF InResults, Only
<1> HIDE DEF c, C, T, B, R, S, tx, h, G
<1>9. res \in Seq(S) /\ Yields(h, S) /\ Heard("real", Flat(res, tx)) = Flat(res, h)
  <2>1. IsSeq(res) /\ ToSet(res) = S
    BY <1>2, ReorderKeeps DEF R, S, c
  <2>2. res \in Seq(S)
    BY <2>1, SeqWithin
  <2> QED BY <1>6, <2>2, HeardEach DEF h
<1>10. Same(Flat(res, h), Flat(R, h))
  BY <1>3, <1>9, ReorderSame DEF R, c
<1>11. Flat(R, h) = Flat(B, G)
  <2>1. \A k \in 1..Len(B) : h[R[k]] = G[B[k]]
    <3> TAKE k \in 1..Len(B)
    <3>1. h[R[k]] = Heard("real", R[k].text)
      BY <1>4, <1>5, <1>7
    <3>2. G[B[k]] = Heard("real", B[k].pieces)
      BY <1>4, <1>7
    <3> QED BY <1>4, <3>1, <3>2
  <2>2. DOMAIN R = DOMAIN B /\ \A k \in DOMAIN R : h[R[k]] = G[B[k]]
    BY <1>3, <2>1
  <2> HIDE DEF R, B, h, G
  <2> QED BY <2>2, FlatPlaces
<1>12. Flat(B, G) = Flat(c, Only(C, T, G))
  <2>1. \A b \in C : b \in T => IsSeq(G[b])
    BY <1>1, <1>7, HeardIsSeq
  <2> QED BY <1>1, <1>2, <2>1, FlatKept
<1>13. Flat(c, InResults(C)) = Flat(c, Only(C, T, G))
  BY <1>8, FlatSame DEF C
<1>14. FlattenSeq([j \in DOMAIN res |-> res[j].text]) = Flat(res, tx)
  <2>1. \A j \in DOMAIN res : res[j] \in S
    BY <1>9
  <2>2. [j \in DOMAIN res |-> res[j].text] = [j \in DOMAIN res |-> tx[res[j]]]
    BY <1>5, <2>1
  <2> QED BY <2>2, Zenon DEF Flat, Mapped
<1>15. IsSeq(Flat(res, tx))
  BY <1>6, <1>9, FlatIsSeq
<1> QED BY <1>9, <1>10, <1>11, <1>12, <1>13, <1>14, <1>15 DEF c, C

-----------------------------------------------------------------------------
\* The text of a content and its results say what the content says.
LEMMA PartsSay ==
  ASSUME NEW m, WellMade(m)
  PROVE  LET c == m.content
             x == Heard("real", ExtractText(c))
             z == Flat(c, InResults(ToSet(c)))
         IN /\ IsSeq(x) /\ IsSeq(z) /\ Same(x \o z, Value("real", c))
            /\ (\A b \in ToSet(c) : ~IsToolResult(b)) => z = <<>> /\ x = Value("real", c)
<1> DEFINE c == m.content
           C == ToSet(c)
           w == WrittenFrom(C)
           s == Shown(C)
           f == HeardIn("real", C, w)
           a == HeardIn("real", C, s)
           b == InResults(C)
<1>1. IsSeq(c) /\ (\A y \in C : IsSeq(y.pieces)) /\ c \in Seq(C)
  BY IsSeqFacts DEF WellMade
<1>2. \A y \in C : /\ f[y] = Heard("real", WrittenAt(y))
                   /\ a[y] = Heard("real", IF y.kind \in Skipped THEN <<>> ELSE y.pieces)
                   /\ b[y] = IF IsToolResult(y) THEN Heard("real", y.pieces) ELSE <<>>
  BY DEF HeardIn, WrittenFrom, Shown, InResults
<1> HIDE DEF c, C, b
<1>3. Written(c) = Flat(c, w) /\ Yields(w, C) /\ ExtractText(c) = Flat(c, s) /\ Yields(s, C)
  BY <1>1, WrittenIsFlat, ExtractIsFlat, ShownYields
<1> HIDE DEF w, s
<1>4. /\ Heard("real", Flat(c, w)) = Flat(c, f) /\ Yields(f, C)
      /\ Heard("real", Flat(c, s)) = Flat(c, a) /\ Yields(a, C)
  BY <1>1, <1>3, HeardEach
<1> HIDE DEF f, a
<1>5. Heard("real", ExtractText(c)) = Flat(c, a) /\ Value("real", c) = Flat(c, f)
  BY <1>3, <1>4 DEF Value
<1>6. Yields(b, C)
  BY <1>1, <1>2, HeardIsSeq, EmptyIsSeq DEF Yields
<1>7. \A y \in C : /\ (a[y] = f[y] /\ b[y] = <<>>) \/ (a[y] = <<>> /\ b[y] = f[y])
                   /\ ~IsToolResult(y) => a[y] = f[y] /\ b[y] = <<>>
  <2> TAKE y \in C
  <2>1. Heard("real", <<>>) = <<>>
    BY EmptyIsSeq, HeardIsSeq
  <2>2. CASE IsToolResult(y)
    <3>1. y.kind \in Skipped /\ WrittenAt(y) = y.pieces
      BY <2>2 DEF IsToolResult, Skipped, WrittenAt
    <3> QED BY <1>2, <2>1, <2>2, <3>1
  <2>3. CASE ~IsToolResult(y)
    <3>1. WrittenAt(y) = IF y.kind \in Skipped THEN <<>> ELSE y.pieces
      BY <2>3 DEF WrittenAt
    <3> QED BY <1>2, <2>3, <3>1
  <2> QED BY <2>2, <2>3
<1>8. Same(Flat(c, a) \o Flat(c, b), Flat(c, f))
  <2>1. \A y \in C : (a[y] = f[y] /\ b[y] = <<>>) \/ (a[y] = <<>> /\ b[y] = f[y])
    BY <1>7
  <2> QED BY <1>1, <1>4, <1>6, <2>1, FlatSplit
<1>9. IsSeq(Flat(c, a)) /\ IsSeq(Flat(c, b))
  BY <1>1, <1>4, <1>6, FlatIsSeq
<1>10. ASSUME \A y \in C : ~IsToolResult(y) PROVE Flat(c, b) = <<>> /\ Flat(c, a) = Flat(c, f)
  <2>1. \A y \in ToSet(c) : b[y] = <<>> /\ a[y] = f[y]
    BY <1>7, <1>10 DEF C
  <2> QED BY <1>1, <2>1, FlatNone, FlatSame
<1> QED BY <1>5, <1>8, <1>9, <1>10 DEF c, C, b

\* A kempt message and the turn made of it say alike, if the turn's text says what
\* the message's says.
LEMMA TurnSays ==
  ASSUME NEW m, WellMade(m), Kempt(m), m.role \in Speakers, NEW ids, IsSeq(ids), NEW t,
         IsSeq(t.text), Heard("real", t.text) = Heard("real", ExtractText(m.content)),
         t.results = IF m.role = "user" THEN Reorder(Results(m.content), ids) ELSE <<>>
  PROVE  IsSeq(Shows(t)) /\ Alike(Heard("real", Shows(t)), Value("real", m.content))
<1> DEFINE c == m.content
           C == ToSet(c)
           x == Heard("real", ExtractText(c))
           z == Flat(c, InResults(C))
           v == Value("real", c)
           texts == FlattenSeq([j \in DOMAIN t.results |-> t.results[j].text])
           y == Heard("real", texts)
           text == t.text
<1>1. /\ IsSeq(x) /\ IsSeq(z) /\ Same(x \o z, v)
      /\ (\A b \in C : ~IsToolResult(b)) => z = <<>> /\ x = v
  BY PartsSay
<1>2. /\ \A b \in C : IsToolResult(b) => m.role # "assistant"
      /\ Placed(m) \/ IsPlainText(m)
  BY DEF Kempt
<1>3. IsPlainText(m) => \A b \in C : ~IsToolResult(b)
  BY PlainIsNoTools DEF NoTools
<1>4. CASE m.role = "user"
  <2>1. t.results = Reorder(Results(c), ids)
    BY <1>4
  <2>2. IsSeq(texts) /\ Same(y, z)
    BY <2>1, ResultsSay
  <2> HIDE DEF C, x, z, v, texts, y, text
  <2>3. IsSeq(text) /\ Shows(t) = text \o texts /\ Heard("real", text) = x
    BY DEF Shows, text, texts, x, c
  <2>4. IsSeq(text \o texts) /\ Heard("real", text \o texts) = x \o y
    BY <2>2, <2>3, ConcatIsSeq, HeardConcat DEF y
  <2>5. Same(x \o y, x \o z)
    BY <1>1, <2>2, SameRules
  <2>6. Same(x \o y, v)
    BY <1>1, <2>5, SameRules
  <2>7. Alike(x \o y, v)
    <3>1. CASE Placed(m)
      <4>1. PICK q : \A p \in ToSet(v) : p[3] = q
        BY <3>1 DEF Placed, v, c
      <4> QED BY <2>6, <4>1, SamePlace
    <3>2. CASE \A b \in C : ~IsToolResult(b)
      <4>1. z = <<>> /\ x = v /\ IsSeq(y) /\ Len(y) = Len(z)
        BY <1>1, <2>2, <3>2 DEF Same
      <4>2. Len(<<>>) = 0
        BY EmptyIsSeq, IsSeqFacts
      <4>3. y = <<>>
        BY <4>1, <4>2, IsSeqFacts
      <4>4. x \o <<>> = x
        BY <1>1, ConcatNothing
      <4>5. x \o y = v
        BY <4>1, <4>3, <4>4
      <4>6. IsSeq(v)
        BY <1>1, <4>1
      <4> QED BY <4>5, <4>6, AlikeItself
    <3> QED BY <1>2, <1>3, <3>1, <3>2
  <2> QED BY <2>3, <2>4, <2>7 DEF v, c
<1>5. CASE m.role = "assistant"
  <2>1. t.results = <<>>
    BY <1>5
  <2>2. texts = <<>>
    <3>1. [j \in DOMAIN t.results |-> t.results[j].text] = <<>>
      BY <2>1
    <3> QED BY <3>1, FlattenEmpty
  <2>3. x = v
    BY <1>1, <1>2, <1>5
  <2> HIDE DEF C, x, z, v, texts, y, text
  <2>4. IsSeq(text) /\ Shows(t) = text \o texts /\ Heard("real", text) = x
    BY DEF Shows, text, texts, x, c
  <2>5. Shows(t) = text
    BY <2>2, <2>4, ConcatNothing
  <2>6. Alike(x, v)
    BY <1>1, <2>3, AlikeItself
  <2> QED BY <2>4, <2>5, <2>6 DEF v, c
<1> QED BY <1>4, <1>5 DEF Speakers

\* The uses a turn tells, as uses or in its text.
Tells(t) == UseIds(t) \o Heard("use", t.text)

\* A kempt message and the turn made of it tell the same uses.
LEMMA TurnTells ==
  ASSUME NEW seq, Sound(seq), NEW k \in 1..Len(seq), seq[k].role \in Speakers, Kempt(seq[k]), NEW t,
         t.uses = TurnAt(seq, k).uses,
         Heard("use", t.text) = Heard("use", ExtractText(seq[k].content))
  PROVE  Tells(t) = Value("use", seq[k].content)
<1> DEFINE m == seq[k]
           c == m.content
<1>1. IsSeq(c)
  BY IsSeqFacts DEF Sound, ToSet, WellMade
<1>2. UseIds(t) = UseIds(TurnAt(seq, k))
  BY DEF UseIds
<1>3. UseIds(t) = IF m.role = "assistant" THEN ToolUseIds(c) ELSE <<>>
  BY <1>2, UsesOfTurn
<1>4. m.role # "assistant" => ToolUseIds(c) = <<>>
  <2>1. m.role # "assistant" => \A b \in ToSet(c) : ~IsToolUse(b)
    BY DEF Kempt
  <2> QED BY <1>1, <2>1, NoUseIds
<1>5. UseIds(t) = ToolUseIds(c)
  BY <1>3, <1>4
<1> QED BY <1>5 DEF Tells, Value

-----------------------------------------------------------------------------
\* The turns in front say nothing of the client's.
LEMMA PrefaceSays ==
  \A i \in 1..Len(Preface) :
    /\ IsSeq(Preface[i].text) /\ IsSeq(Shows(Preface[i])) /\ Heard("real", Shows(Preface[i])) = <<>>
    /\ Tells(Preface[i]) = <<>>
<1>1. CASE ~request.system
  <2>1. Len(Preface) = 0
    BY <1>1, EmptyIsSeq DEF Preface
  <2> QED BY <2>1
<1>2. CASE request.system
  <2> DEFINE s == Piece("synthetic", "system")
             k == Piece("synthetic", "ack")
             a == Turn("user", <<s>>, <<>>, <<>>)
             b == Turn("assistant", <<k>>, <<>>, <<>>)
  <2>1. Preface = <<a, b>>
    BY <1>2 DEF Preface
  <2>2. \A p \in {s, k} : Got("real", p) = <<>> /\ Got("use", p) = <<>>
    BY PieceSays
  <2>3. /\ a.text = <<s>> /\ a.uses = <<>> /\ a.results = <<>>
        /\ b.text = <<k>> /\ b.uses = <<>> /\ b.results = <<>>
    BY TurnHas
  <2> HIDE DEF s, k, a, b
  <2>4. ASSUME NEW t, NEW p \in {s, k}, t.text = <<p>>, t.uses = <<>>, t.results = <<>>
        PROVE  IsSeq(t.text) /\ IsSeq(Shows(t)) /\ Heard("real", Shows(t)) = <<>> /\ Tells(t) = <<>>
    <3> DEFINE text == t.text
    <3>1. IsSeq(text) /\ Heard("real", text) = <<>> /\ Heard("use", text) = <<>>
      BY <2>2, <2>4, OneIsSeq, HeardOne
    <3>2. FlattenSeq([j \in DOMAIN t.results |-> t.results[j].text]) = <<>>
      <4>1. [j \in DOMAIN t.results |-> t.results[j].text] = <<>>
        BY <2>4
      <4> QED BY <4>1, FlattenEmpty
    <3> HIDE DEF text
    <3>3. Shows(t) = text \o <<>>
      BY <3>2 DEF Shows, text
    <3>4. Shows(t) = text
      BY <3>1, <3>3, ConcatNothing
    <3>5. UseIds(t) = <<>>
      BY <2>4 DEF UseIds
    <3>6. Tells(t) = <<>> \o <<>>
      BY <3>1, <3>5 DEF Tells, text
    <3>7. Tells(t) = <<>>
      BY <3>6, EmptyIsSeq, ConcatNothing
    <3> QED BY <3>1, <3>4, <3>7 DEF text
  <2>5. /\ IsSeq(a.text) /\ IsSeq(Shows(a)) /\ Heard("real", Shows(a)) = <<>> /\ Tells(a) = <<>>
        /\ IsSeq(b.text) /\ IsSeq(Shows(b)) /\ Heard("real", Shows(b)) = <<>> /\ Tells(b) = <<>>
    BY <2>3, <2>4
  <2> DEFINE p == <<a, b>>
  <2>6. Len(p) = 2 /\ p[1] = a /\ p[2] = b
    OBVIOUS
  <2> HIDE DEF p
  <2>7. \A i \in 1..2 : i = 1 \/ i = 2
    OBVIOUS
  <2>8. \A i \in 1..Len(p) :
          /\ IsSeq(p[i].text) /\ IsSeq(Shows(p[i])) /\ Heard("real", Shows(p[i])) = <<>>
          /\ Tells(p[i]) = <<>>
    BY <2>5, <2>6, <2>7
  <2> QED BY <2>1, <2>8 DEF p
<1> QED BY <1>1, <1>2

\* The current message's text says what the last message's does.
LEMMA LastSays ==
  ASSUME BInv, stage = "sent", NEW how \in Hows
  PROVE  IsSeq(current.text) /\ Heard(how, current.text) = Heard(how, ExtractText(last.content))
<1> DEFINE text == ExtractText(last.content)
<1>1. IsSeq(text)
  BY ExtractIsSeq DEF BInv
<1>2. current.text = text \/ (current.text = <<SyntheticContinue>> /\ IsEmpty(text))
  BY DEF BInv
<1> HIDE DEF text
<1>3. ASSUME NEW p \in {SyntheticContinue, Blank} PROVE Heard(how, <<p>>) = <<>>
  <2>1. Got("real", p) = <<>> /\ Got("use", p) = <<>>
    BY PieceSays DEF SyntheticContinue, Blank
  <2>2. Got(how, p) = <<>>
    BY <2>1 DEF Hows
  <2> QED BY <2>2, HeardOne
<1>4. CASE current.text = text
  BY <1>1, <1>4 DEF text
<1>5. CASE current.text = <<SyntheticContinue>> /\ IsEmpty(text)
  <2>1. Heard(how, <<>>) = <<>>
    BY EmptyIsSeq, HeardIsSeq
  <2>2. text = <<>> \/ text = <<Blank>>
    BY <1>5 DEF IsEmpty
  <2>3. Heard(how, text) = <<>>
    BY <1>3, <2>1, <2>2
  <2>4. Heard(how, current.text) = <<>> /\ IsSeq(current.text)
    BY <1>3, <1>5, OneIsSeq
  <2> QED BY <2>3, <2>4 DEF text
<1> QED BY <1>2, <1>4, <1>5

\* The uses before a message are a sequence.
LEMMA UsesAtIsSeq ==
  ASSUME NEW seq, Sound(seq), NEW k \in 1..Len(seq)
  PROVE  IsSeq(UsesAt(seq, k))
<1>1. CASE k > 1 /\ seq[k - 1].role = "assistant"
  <2>1. Len(seq) \in Nat /\ DOMAIN seq = 1..Len(seq)
    BY IsSeqFacts DEF Sound
  <2>2. k - 1 \in DOMAIN seq
    BY <1>1, <2>1
  <2>3. IsSeq(seq[k - 1].content)
    BY <2>2 DEF Sound, WellMade, ToSet
  <2> QED BY <1>1, <2>3, AsksAre DEF UsesAt
<1>2. CASE ~(k > 1 /\ seq[k - 1].role = "assistant")
  BY <1>2, EmptyIsSeq DEF UsesAt
<1> QED BY <1>1, <1>2

\* The turn that is sent for a message says what the message says.
LEMMA TurnsSay ==
  ASSUME BInv, stage = "sent", \A m \in ToSet(Whole) : Kempt(m), NEW k \in 1..Len(Whole)
  PROVE  LET t == Turns[Len(Preface) + k]
             c == Whole[k].content
         IN /\ IsSeq(t.text) /\ IsSeq(Shows(t)) /\ Alike(Heard("real", Shows(t)), Value("real", c))
            /\ Tells(t) = Value("use", c)
<1> DEFINE p == Len(Preface)
           w == Whole
           t == Turns[p + k]
           m == w[k]
           ids == UsesAt(w, k)
<1>1. p \in Nat /\ Sound(w)
  BY PrefaceIs, IsSeqFacts, SoundRules DEF BInv, Whole
<1>2. /\ Len(w) \in Nat /\ Len(w) = Len(msgs) + 1 /\ Len(msgs) \in Nat
      /\ t.uses = TurnAt(w, k).uses /\ t.results = TurnAt(w, k).results
      /\ k \in 1..(Len(w) - 1) => t = TurnAt(w, k)
      /\ k = Len(w) => t.text = current.text
  BY <1>1, TurnsAre, IsSeqFacts DEF Sound
<1>3. /\ Spoken(msgs, Speakers) /\ last.role = "user" /\ w = Append(msgs, last) /\ WellMade(last)
  BY DEF BInv, Whole
<1>4. /\ IsSeq(msgs) /\ DOMAIN msgs = 1..Len(msgs) /\ w[Len(msgs) + 1] = last
      /\ \A j \in 1..Len(msgs) : w[j] = msgs[j]
  <2>1. IsSeq(msgs)
    BY <1>3 DEF Spoken
  <2> QED BY <1>3, <2>1, IsSeqFacts, AppendIsSeq
<1>5. k \in 1..Len(msgs) \/ k = Len(msgs) + 1
  BY <1>2
<1>6. m.role \in Speakers
  BY <1>3, <1>4, <1>5 DEF Spoken, Speakers
<1>7. m \in ToSet(w) /\ WellMade(m) /\ Kempt(m)
  <2>1. m \in ToSet(w)
    BY <1>1, ElementsOf DEF Sound
  <2> QED BY <1>1, <2>1 DEF Sound
<1>8. IsSeq(ids)
  BY <1>1, UsesAtIsSeq
<1>9. t.results = IF m.role = "user" THEN Reorder(Results(m.content), ids) ELSE <<>>
  BY <1>2, TurnHas DEF TurnAt
<1>10. IsSeq(t.text) /\ \A how \in Hows : Heard(how, t.text) = Heard(how, ExtractText(m.content))
  <2>1. CASE k = Len(msgs) + 1
    <3>1. t.text = current.text /\ m = last
      BY <1>2, <1>4, <2>1
    <3>2. "real" \in Hows
      BY DEF Hows
    <3> HIDE DEF t, m
    <3> QED BY <3>1, <3>2, LastSays
  <2>2. CASE k \in 1..Len(msgs)
    <3>1. t = TurnAt(w, k)
      BY <1>2, <2>2
    <3>2. t.text = ExtractText(m.content)
      BY <3>1, TurnHas DEF TurnAt
    <3> QED BY <1>7, <3>2, ExtractIsSeq
  <2> QED BY <1>5, <2>1, <2>2
<1> HIDE DEF t, ids, p
<1>11. "real" \in Hows /\ "use" \in Hows
  BY DEF Hows
<1>12. IsSeq(Shows(t)) /\ Alike(Heard("real", Shows(t)), Value("real", m.content))
  <2> HIDE DEF m
  <2> QED BY <1>6, <1>7, <1>8, <1>9, <1>10, <1>11, TurnSays
<1>13. Tells(t) = Value("use", m.content)
  BY <1>1, <1>2, <1>6, <1>7, <1>10, <1>11, TurnTells
<1> QED BY <1>10, <1>12, <1>13 DEF t, p

-----------------------------------------------------------------------------
\* All that is sent says what all the messages say.
LEMMA SentSays ==
  ASSUME BInv, stage = "sent", \A m \in ToSet(Whole) : Kempt(m)
  PROVE  /\ Alike(Heard("real", FlattenSeq([i \in DOMAIN Turns |-> Shows(Turns[i])])), SaidBy("real", Whole))
         /\ FlattenSeq([i \in DOMAIN Turns |-> Tells(Turns[i])]) = SaidBy("use", Whole)
         /\ \A i \in DOMAIN Turns : IsSeq(Turns[i].text)
<1> DEFINE p == Len(Preface)
           w == Whole
           n == Len(w)
           g == [i \in DOMAIN Turns |-> Shows(Turns[i])]
           h == [i \in DOMAIN g |-> Heard("real", g[i])]
           told == [i \in DOMAIN Turns |-> Tells(Turns[i])]
           places == [k \in 1..n |-> k]
           f == [k \in 1..n |-> Heard("real", Shows(Turns[p + k]))]
           v == [k \in 1..n |-> Value("real", w[k].content)]
           r == ValueOf("real", ToSet(w))
           u == ValueOf("use", ToSet(w))
<1>1. /\ p \in Nat /\ n \in Nat /\ Sound(w) /\ IsSeq(w) /\ IsSeq(Turns) /\ Len(Turns) = p + n
      /\ DOMAIN Turns = 1..(p + n) /\ DOMAIN w = 1..n
      /\ \A j \in 1..p : Turns[j] = Preface[j]
  <2>1. p \in Nat /\ Sound(w) /\ IsSeq(w)
    BY PrefaceIs, IsSeqFacts, SoundRules DEF BInv, Whole, Sound
  <2>2. n \in Nat /\ IsSeq(Turns) /\ Len(Turns) = p + n /\ DOMAIN w = 1..n
    BY <2>1, TurnsAre, IsSeqFacts
  <2>3. DOMAIN Turns = 1..(p + n)
    BY <2>2, IsSeqFacts
  <2> QED BY <2>1, <2>2, <2>3, TurnsAre
<1>2. \A k \in 1..n : /\ w[k] \in ToSet(w) /\ WellMade(w[k])
                      /\ r[w[k]] = Value("real", w[k].content) /\ u[w[k]] = Value("use", w[k].content)
  <2>1. \A k \in 1..n : w[k] \in ToSet(w)
    BY <1>1, ElementsOf
  <2> QED BY <1>1, <2>1 DEF ValueOf, Sound
<1>3. \A k \in 1..n : /\ IsSeq(Turns[p + k].text) /\ IsSeq(Shows(Turns[p + k])) /\ Alike(f[k], v[k])
                      /\ Tells(Turns[p + k]) = u[w[k]]
  <2> TAKE k \in 1..n
  <2>1. /\ IsSeq(Turns[p + k].text) /\ IsSeq(Shows(Turns[p + k]))
        /\ Alike(Heard("real", Shows(Turns[p + k])), Value("real", w[k].content))
        /\ Tells(Turns[p + k]) = Value("use", w[k].content)
    BY TurnsSay
  <2> QED BY <1>2, <2>1
<1>4. \A i \in 1..p : /\ IsSeq(Turns[i].text) /\ IsSeq(Shows(Turns[i])) /\ Heard("real", Shows(Turns[i])) = <<>>
                      /\ Tells(Turns[i]) = <<>>
  BY <1>1, PrefaceSays
<1>5. /\ DOMAIN g = DOMAIN Turns /\ g = [i \in DOMAIN Turns |-> g[i]]
      /\ \A i \in DOMAIN Turns : g[i] = Shows(Turns[i])
      /\ DOMAIN told = DOMAIN Turns /\ told = [i \in DOMAIN Turns |-> told[i]]
      /\ \A i \in DOMAIN Turns : told[i] = Tells(Turns[i])
  OBVIOUS
<1>6. /\ DOMAIN h = DOMAIN g /\ \A i \in DOMAIN g : h[i] = Heard("real", g[i])
  OBVIOUS
<1>7. /\ places \in Seq(1..n) /\ Len(places) = n /\ DOMAIN places = 1..n
      /\ \A k \in 1..n : places[k] = k
  BY <1>1
<1>8. \A k \in 1..n : f[k] = Heard("real", Shows(Turns[p + k])) /\ v[k] = Value("real", w[k].content)
  OBVIOUS
<1>9. Yields(u, ToSet(w))
  <2>1. \A m \in ToSet(w) : WellMade(m) /\ u[m] = Value("use", m.content)
    BY <1>1 DEF Sound, ValueOf
  <2>2. "use" \in Hows
    BY DEF Hows
  <2> HIDE DEF u, w
  <2> QED BY <2>1, <2>2, ValueIsSeq DEF Yields
<1>10. /\ \A i \in DOMAIN Turns : i \in 1..p \/ (i - p \in 1..n /\ i = p + (i - p))
       /\ (\A i \in 1..p : i \in DOMAIN Turns) /\ \A k \in 1..n : p + k \in DOMAIN Turns
  BY <1>1
<1> HIDE DEF p, w, n, g, h, told, places, f, v, u, r
<1>11. IsSeq(g) /\ Len(g) = p + n /\ IsSeq(told) /\ Len(told) = p + n
  BY <1>1, <1>5, MapIsSeq
<1>12. Lists(g)
  <2>1. \A i \in DOMAIN Turns : IsSeq(g[i])
    BY <1>3, <1>4, <1>5, <1>10
  <2> QED BY <1>5, <1>11, <2>1 DEF Lists
<1>13. Heard("real", FlattenSeq(g)) = FlattenSeq(h) /\ Lists(h) /\ Len(h) = p + n
  BY <1>11, <1>12, HeardLists DEF h
<1>14. FlattenSeq(h) = Flat(places, f)
  <2>1. \A i \in 1..p : h[i] = <<>>
    BY <1>4, <1>5, <1>6, <1>10
  <2>2. \A k \in 1..n : h[p + k] = f[places[k]]
    BY <1>5, <1>6, <1>7, <1>8, <1>10
  <2>3. IsSeq(places) /\ Yields(f, ToSet(places))
    <3>1. IsSeq(places) /\ ToSet(places) \subseteq 1..n
      BY <1>7, SeqIs DEF ToSet
    <3>2. \A k \in 1..n : IsSeq(f[k])
      BY <1>3 DEF Alike, Same
    <3> QED BY <3>1, <3>2 DEF Yields
  <2>4. IsSeq(h)
    BY <1>13 DEF Lists
  <2>5. p \in Nat /\ Len(h) = p + Len(places) /\ \A k \in 1..Len(places) : h[p + k] = f[places[k]]
    BY <1>1, <1>7, <1>13, <2>2
  <2>6. IsSeq(places) /\ Yields(f, ToSet(places)) /\ p \in Nat /\ Len(h) = p + Len(places)
    BY <2>3, <2>5
  <2>7. \A k \in 1..Len(places) : h[p + k] = f[places[k]]
    BY <2>5
  <2> QED BY ONLY <2>1, <2>4, <2>6, <2>7, TurnsFlat, SMT
<1>15. Flat(w, r) = Flat(places, v)
  <2>1. DOMAIN w = DOMAIN places /\ \A k \in DOMAIN w : r[w[k]] = v[places[k]]
    BY <1>1, <1>2, <1>7, <1>8
  <2> QED BY <2>1, FlatPlaces
<1>16. Alike(Flat(places, f), Flat(places, v))
  BY <1>3, <1>7, FlatAlike
<1>17. FlattenSeq(told) = Flat(w, u)
  <2>1. \A i \in 1..p : told[i] = <<>>
    BY <1>4, <1>5, <1>10
  <2>2. \A k \in 1..n : told[p + k] = u[w[k]]
    BY <1>3, <1>5, <1>10
  <2>3. Len(told) = p + Len(w)
    BY <1>11 DEF n
  <2>4. \A k \in 1..Len(w) : told[p + k] = u[w[k]]
    BY <2>2 DEF n
  <2>5. IsSeq(told) /\ p \in Nat /\ IsSeq(w)
    BY <1>1, <1>11
  <2> QED BY <1>9, <2>1, <2>3, <2>4, <2>5, TurnsFlat
<1>18. Alike(Heard("real", FlattenSeq(g)), Flat(w, r))
  BY <1>13, <1>14, <1>15, <1>16
<1>19. \A i \in DOMAIN Turns : IsSeq(Turns[i].text)
  BY <1>3, <1>4, <1>10
<1> QED BY <1>17, <1>18, <1>19 DEF g, told, w, r, u, SaidBy

Rising(s)       == \A i, j \in DOMAIN s : i < j => s[i] <= s[j]
RisingPlaces(s) == \A i, j \in DOMAIN s : i < j => s[i][3] <= s[j][3]

\* What is gathered from places in order, each with its own pieces, is in order.
LEMMA FlatRises ==
  ASSUME NEW S \in SUBSET Nat, NEW f, Yields(f, S), \A x \in S : \A p \in ToSet(f[x]) : p[3] = x,
         NEW s \in Seq(S), Rising(s)
  PROVE  RisingPlaces(Flat(s, f))
<1> DEFINE Good == {u \in Seq(S) : Rising(u) => RisingPlaces(Flat(u, f))}
<1>1. <<>> \in Good
  <2>1. DOMAIN <<>> = {} /\ Flat(<<>>, f) = <<>> /\ <<>> \in Seq(S)
    BY FlatEmpty
  <2>2. RisingPlaces(<<>>)
    BY <2>1 DEF RisingPlaces
  <2> QED BY <2>1, <2>2
<1>2. ASSUME NEW u \in Seq(S), NEW x \in S, u \in Good PROVE Append(u, x) \in Good
  <2> DEFINE v == Append(u, x)
             a == Flat(u, f)
             b == f[x]
             c == a \o b
  <2>1. /\ v \in Seq(S) /\ IsSeq(u) /\ IsSeq(a) /\ IsSeq(b) /\ Flat(v, f) = c
    <3>1. Flat(Append(u, x), f) = Flat(u, f) \o f[x] /\ IsSeq(Flat(u, f))
      BY FlatAppend
    <3>2. IsSeq(f[x])
      BY DEF Yields
    <3>3. Append(u, x) \in Seq(S) /\ IsSeq(u)
      BY SeqIs
    <3> QED BY <3>1, <3>2, <3>3
  <2>2. /\ IsSeq(v) /\ Len(v) = Len(u) + 1 /\ v[Len(u) + 1] = x /\ \A i \in 1..Len(u) : v[i] = u[i]
    BY <2>1, SeqIs, AppendIsSeq
  <2>3. ToSet(a) = UNION {ToSet(f[y]) : y \in ToSet(u)}
    BY FlatElements
  <2>4. Rising(u) => RisingPlaces(a)
    BY <1>2
  <2>5. \A p \in ToSet(b) : p[3] = x
    OBVIOUS
  <2> HIDE DEF v, a, b
  <2>6. /\ IsSeq(c) /\ Len(c) = Len(a) + Len(b) /\ Len(a) \in Nat /\ Len(b) \in Nat
        /\ \A i \in 1..Len(c) : c[i] = IF i <= Len(a) THEN a[i] ELSE b[i - Len(a)]
    BY <2>1, ConcatIsSeq, IsSeqFacts
  <2>7. DOMAIN c = 1..Len(c) /\ DOMAIN a = 1..Len(a) /\ DOMAIN b = 1..Len(b)
        /\ DOMAIN v = 1..(Len(u) + 1) /\ DOMAIN u = 1..Len(u) /\ Len(u) \in Nat
    BY <2>1, <2>2, <2>6, IsSeqFacts
  <2> HIDE DEF c
  <2>8. ASSUME Rising(v) PROVE RisingPlaces(c)
    <3>1. Rising(u)
      BY <2>2, <2>7, <2>8 DEF Rising
    <3>2. \A y \in ToSet(u) : y \in S /\ y <= x
      <4>1. ToSet(u) = {u[i] : i \in 1..Len(u)}
        BY <2>1, ElementsOf
      <4>2. \A i \in 1..Len(u) : u[i] <= x
        <5> TAKE i \in 1..Len(u)
        <5>1. i \in DOMAIN v /\ Len(u) + 1 \in DOMAIN v /\ i < Len(u) + 1
          BY <2>7
        <5>2. v[i] <= v[Len(u) + 1]
          BY <2>8, <5>1 DEF Rising
        <5> QED BY <2>2, <5>2
      <4>3. \A i \in 1..Len(u) : u[i] \in S
        BY <2>7
      <4> QED BY <4>1, <4>2, <4>3
    <3>3. \A p \in ToSet(a) : p[3] <= x
      <4> TAKE p \in ToSet(a)
      <4>1. PICK y \in ToSet(u) : p \in ToSet(f[y])
        BY <2>3
      <4>2. p[3] = y
        BY <3>2, <4>1
      <4> QED BY <3>2, <4>2
    <3>4. \A i \in 1..Len(a) : a[i] \in ToSet(a)
      BY <2>1, ElementsOf
    <3>5. \A i \in 1..Len(b) : b[i] \in ToSet(b)
      BY <2>1, ElementsOf
    <3>6. ASSUME NEW i \in DOMAIN c, NEW j \in DOMAIN c, i < j PROVE c[i][3] <= c[j][3]
      <4>1. i \in 1..Len(c) /\ j \in 1..Len(c)
        BY <2>7
      <4>2. CASE j <= Len(a)
        <5>1. i \in DOMAIN a /\ j \in DOMAIN a /\ c[i] = a[i] /\ c[j] = a[j]
          BY <2>6, <2>7, <3>6, <4>1, <4>2
        <5> QED BY <2>4, <3>1, <3>6, <5>1 DEF RisingPlaces
      <4>3. CASE ~(j <= Len(a))
        <5> DEFINE k == j - Len(a)
        <5>1. k \in 1..Len(b) /\ c[j] = b[k]
          BY <2>6, <4>1, <4>3
        <5>2. c[j][3] = x
          BY <2>5, <3>5, <5>1
        <5>3. c[i][3] <= x
          <6>1. CASE i <= Len(a)
            <7>1. i \in 1..Len(a) /\ c[i] = a[i]
              BY <2>6, <4>1, <6>1
            <7> QED BY <3>3, <3>4, <7>1
          <6>2. CASE ~(i <= Len(a))
            <7> DEFINE l == i - Len(a)
            <7>1. l \in 1..Len(b) /\ c[i] = b[l]
              BY <2>6, <4>1, <6>2
            <7>2. c[i][3] = x
              BY <2>5, <3>5, <7>1
            <7> QED BY <7>2
          <6> QED BY <6>1, <6>2
        <5> QED BY <5>2, <5>3
      <4> QED BY <4>2, <4>3
    <3> QED BY <3>6 DEF RisingPlaces
  <2> QED BY <2>1, <2>8 DEF v
<1>3. s \in Good
  <2> HIDE DEF Good
  <2> QED BY <1>1, <1>2, BySequence
<1> QED BY <1>3

-----------------------------------------------------------------------------
UseMarks(s) == Keep(s, LAMBDA p : p[1] = "use")
Marks(s)    == [k \in DOMAIN UseMarks(s) |-> UseMarks(s)[k][2]]
Seconds(s)  == [k \in DOMAIN s |-> s[k][2]]

\* The uses told in a text are its marks'.
LEMMA MarksAre ==
  ASSUME NEW s, IsSeq(s)
  PROVE  Heard("use", s) = Marks(s)
<1> DEFINE P == ToSet(s)
           T == {p \in P : p[1] = "use"}
           f == GotFrom("use", P)
           Good == {u \in Seq(P) : Seconds(Kept(u, T)) = Flat(u, f)}
<1>1. s \in Seq(P) /\ \A i \in DOMAIN s : s[i] \in P
  BY IsSeqFacts DEF ToSet
<1>2. \A p \in P : f[p] = IF p \in T THEN <<p[2]>> ELSE <<>>
  BY DEF GotFrom, Got
<1>3. Heard("use", s) = Flat(s, f) /\ Yields(f, P)
  <2> HIDE DEF P
  <2> QED BY <1>1, HeardIsFlat
<1>4. UseMarks(s) = Kept(s, T)
  <2>1. \A i \in DOMAIN s : s[i] \in T <=> s[i][1] = "use"
    BY <1>1
  <2>2. [i \in DOMAIN s |-> IF s[i][1] = "use" THEN <<s[i]>> ELSE <<>>]
          = [i \in DOMAIN s |-> IF s[i] \in T THEN <<s[i]>> ELSE <<>>]
    BY <2>1
  <2> HIDE DEF T
  <2> QED BY <2>2, Zenon DEF UseMarks, Keep, Kept
<1> HIDE DEF P, T, f
<1>5. <<>> \in Good
  <2>1. Kept(<<>>, T) = <<>> /\ Seconds(<<>>) = <<>> /\ Flat(<<>>, f) = <<>>
    BY KeptEmpty, FlatEmpty DEF Seconds
  <2> QED BY <2>1
<1>6. ASSUME NEW u \in Seq(P), NEW p \in P, u \in Good PROVE Append(u, p) \in Good
  <2> DEFINE k == Kept(u, T)
             q == Flat(u, f)
  <2>1. IsSeq(u) /\ IsSeq(k) /\ Append(u, p) \in Seq(P) /\ Seconds(k) = q
    BY <1>6, SeqIs, KeptIsSeq
  <2>2. Kept(Append(u, p), T) = IF p \in T THEN Append(k, p) ELSE k
    BY <2>1, KeptAppend
  <2>3. Flat(Append(u, p), f) = q \o f[p] /\ IsSeq(q)
    BY <1>3, FlatAppend
  <2> HIDE DEF k, q
  <2>4. CASE p \in T
    <3> DEFINE kp == Append(k, p)
               sk == Append(Seconds(k), p[2])
    <3>1. IsSeq(kp) /\ Len(kp) = Len(k) + 1 /\ kp[Len(k) + 1] = p /\ \A i \in 1..Len(k) : kp[i] = k[i]
      BY <2>1, AppendIsSeq
    <3>2. DOMAIN kp = 1..(Len(k) + 1) /\ DOMAIN k = 1..Len(k) /\ Len(k) \in Nat
      <4> HIDE DEF kp
      <4> QED BY <2>1, <3>1, IsSeqFacts
    <3>3. IsSeq(Seconds(k)) /\ Len(Seconds(k)) = Len(k) /\ \A i \in 1..Len(k) : Seconds(k)[i] = k[i][2]
      <4>1. DOMAIN Seconds(k) = DOMAIN k /\ Seconds(k) = [i \in DOMAIN k |-> Seconds(k)[i]]
        BY DEF Seconds
      <4> QED BY <2>1, <3>2, <4>1, MapIsSeq DEF Seconds
    <3>4. /\ IsSeq(sk) /\ Len(sk) = Len(k) + 1 /\ sk[Len(k) + 1] = p[2]
          /\ \A i \in 1..Len(k) : sk[i] = k[i][2]
      BY <3>3, AppendIsSeq
    <3> HIDE DEF kp, sk
    <3>5. IsSeq(Seconds(kp)) /\ Len(Seconds(kp)) = Len(k) + 1
          /\ \A i \in 1..(Len(k) + 1) : Seconds(kp)[i] = kp[i][2]
      <4>1. DOMAIN Seconds(kp) = DOMAIN kp /\ Seconds(kp) = [i \in DOMAIN kp |-> Seconds(kp)[i]]
        BY DEF Seconds
      <4> QED BY <3>1, <3>2, <4>1, MapIsSeq DEF Seconds
    <3>6. \A i \in 1..(Len(k) + 1) : Seconds(kp)[i] = sk[i]
      <4> TAKE i \in 1..(Len(k) + 1)
      <4>1. i \in 1..Len(k) \/ i = Len(k) + 1
        BY <3>2
      <4> QED BY <3>1, <3>4, <3>5, <4>1
    <3>7. Seconds(kp) = sk
      BY <3>4, <3>5, <3>6, SeqSame
    <3>8. sk = q \o <<p[2]>>
      <4>1. Append(q, p[2]) = q \o <<p[2]>>
        BY <2>3, AppendJoins
      <4> QED BY <2>1, <4>1 DEF sk
    <3>9. f[p] = <<p[2]>>
      BY <1>2, <2>4
    <3>10. Flat(Append(u, p), f) = q \o <<p[2]>>
      BY <2>3, <3>9
    <3>11. Kept(Append(u, p), T) = kp
      BY <2>2, <2>4 DEF kp
    <3>12. Seconds(Kept(Append(u, p), T)) = Flat(Append(u, p), f)
      BY <3>7, <3>8, <3>10, <3>11
    <3> QED BY <2>1, <3>12
  <2>5. CASE p \notin T
    <3>1. f[p] = <<>> /\ q \o <<>> = q
      BY <1>2, <2>3, <2>5, ConcatNothing
    <3>2. Flat(Append(u, p), f) = q
      BY <2>3, <3>1
    <3> QED BY <2>1, <2>2, <2>5, <3>2
  <2> QED BY <2>4, <2>5
<1>7. s \in Good
  <2> HIDE DEF Good
  <2> QED BY <1>1, <1>5, <1>6, BySequence
<1> QED BY <1>3, <1>4, <1>7 DEF Marks, Seconds

\* What a well-written request says, in the order of its messages.
LEMMA RequestSays ==
  ASSUME NEW r \in Requests, WellWritten(r)
  PROVE  LET q == r.messages
         IN /\ RisingPlaces(SaidBy("real", q))
            /\ SaidBy("real", q) = Heard("real", FlattenSeq([i \in DOMAIN q |-> Written(q[i].content)]))
            /\ SaidBy("use", q) = FlattenSeq([i \in DOMAIN q |-> ToolUseIds(q[i].content)])
<1> DEFINE q == r.messages
           n == Len(q)
           places == [k \in 1..n |-> k]
           v == [k \in 1..n |-> Value("real", q[k].content)]
           vr == ValueOf("real", ToSet(q))
           vu == ValueOf("use", ToSet(q))
           g == [i \in DOMAIN q |-> Written(q[i].content)]
           h == [i \in DOMAIN g |-> Heard("real", g[i])]
<1>1. Sound(q) /\ IsSeq(q) /\ n \in Nat /\ DOMAIN q = 1..n
  BY RequestIsSound, IsSeqFacts DEF Sound
<1>2. \A k \in 1..n : q[k] \in ToSet(q) /\ WellMade(q[k])
  BY <1>1 DEF Sound, ToSet
<1>3. \A k \in 1..n : /\ IsSeq(q[k].content) /\ \A b \in ToSet(q[k].content) : IsSeq(b.pieces)
  BY <1>2 DEF WellMade
<1>4. \A k \in 1..n : \A b \in ToSet(q[k].content) : \A p \in ToSet(b.pieces) : p[1] # "use" /\ p[3] \in {0, k}
  BY <1>1 DEF WellWritten
<1>5. /\ places \in Seq(1..n) /\ DOMAIN places = 1..n /\ \A k \in 1..n : places[k] = k
  BY <1>1
<1>6. /\ DOMAIN g = DOMAIN q /\ g = [i \in DOMAIN q |-> g[i]]
      /\ (\A k \in 1..n : g[k] = Written(q[k].content) /\ v[k] = Value("real", q[k].content))
      /\ DOMAIN h = DOMAIN g /\ \A k \in 1..n : h[k] = Heard("real", g[k])
  BY <1>1
<1>7. \A k \in 1..n : vr[q[k]] = Value("real", q[k].content) /\ vu[q[k]] = Value("use", q[k].content)
  BY <1>2 DEF ValueOf
<1> HIDE DEF q, n, places, v, vr, vu, g, h
<1>8. \A k \in 1..n : IsSeq(v[k]) /\ IsSeq(g[k]) /\ \A p \in ToSet(v[k]) : p[3] = k
  <2> TAKE k \in 1..n
  <2>1. /\ IsSeq(g[k]) /\ IsSeq(v[k])
        /\ \A p \in ToSet(v[k]) : p[3] > 0 /\ \E b \in ToSet(q[k].content) : p \in ToSet(b.pieces)
    BY <1>3, <1>6, WrittenElements
  <2>2. \A p \in ToSet(v[k]) : p[3] > 0 /\ p[3] \in {0, k}
    BY <1>4, <2>1
  <2>3. \A p \in ToSet(v[k]) : p[3] = k
    <3> TAKE p \in ToSet(v[k])
    <3>1. p[3] > 0 /\ (p[3] = 0 \/ p[3] = k)
      BY <2>2
    <3> QED BY <3>1
  <2> QED BY <2>1, <2>3
<1>9. Flat(q, vr) = Flat(places, v)
  <2>1. DOMAIN q = DOMAIN places /\ \A k \in DOMAIN q : vr[q[k]] = v[places[k]]
    BY <1>1, <1>5, <1>6, <1>7
  <2> QED BY <2>1, FlatPlaces
<1>10. RisingPlaces(Flat(places, v))
  <2>1. Rising(places)
    BY <1>1, <1>5 DEF Rising
  <2>2. 1..n \in SUBSET Nat /\ Yields(v, 1..n)
    BY <1>1, <1>8 DEF Yields
  <2> QED BY <1>5, <1>8, <2>1, <2>2, FlatRises
<1>11. Flat(q, vr) = Heard("real", FlattenSeq(g))
  <2>1. IsSeq(g) /\ Len(g) = n
    BY <1>1, <1>6, MapIsSeq
  <2>2. Lists(g)
    BY <1>1, <1>6, <1>8, <2>1 DEF Lists
  <2>3. Heard("real", FlattenSeq(g)) = FlattenSeq(h)
    BY <2>2, HeardLists DEF h
  <2>4. h = Mapped(q, vr)
    <3>1. \A k \in 1..n : h[k] = vr[q[k]]
      BY <1>6, <1>7 DEF Value
    <3>2. h = [k \in DOMAIN h |-> h[k]]
      BY DEF h
    <3> QED BY <1>1, <1>6, <3>1, <3>2 DEF Mapped
  <2> QED BY <2>3, <2>4 DEF Flat
<1>12. Flat(q, vu) = FlattenSeq([i \in DOMAIN q |-> ToolUseIds(q[i].content)])
  <2>1. \A k \in 1..n : vu[q[k]] = ToolUseIds(q[k].content)
    <3> TAKE k \in 1..n
    <3> DEFINE c == q[k].content
               ids == ToolUseIds(c)
    <3>1. IsSeq(c) /\ (\A b \in ToSet(c) : IsSeq(b.pieces)) /\ Quiet(c)
      BY <1>3, <1>4 DEF Quiet
    <3>2. Heard("use", ExtractText(c)) = <<>>
      <4> HIDE DEF c
      <4> QED BY <3>1, QuietText
    <3>3. IsSeq(ids)
      BY <3>1, AsksAre
    <3>4. vu[q[k]] = ids \o <<>>
      BY <1>7, <3>2 DEF Value
    <3> HIDE DEF ids
    <3>5. vu[q[k]] = ids
      BY <3>3, <3>4, ConcatNothing
    <3> QED BY <3>5 DEF ids
  <2>2. Mapped(q, vu) = [i \in DOMAIN q |-> ToolUseIds(q[i].content)]
    BY <1>1, <2>1 DEF Mapped
  <2> QED BY <2>2, Zenon DEF Flat
<1> QED BY <1>9, <1>10, <1>11, <1>12 DEF SaidBy, q, vr, vu, g

-----------------------------------------------------------------------------
Reals(s) == Keep(s, LAMBDA p : p[3] > 0)

\* The pieces the client wrote are what is heard of a text.
LEMMA RealsAre == \A s : Reals(s) = Heard("real", s)
BY DEF Reals, Keep, Heard, Got

\* What was written in a well-written request is in the payload, once and in the order
\* of the messages, and so are its uses (normalize.rs, content.rs, history.rs).
THEOREM LostTheorem == Spec => [](WellWritten(request) => NothingLost)
<1>1. BInv /\ TInv /\ SInv => (WellWritten(request) => NothingLost)
  <2> SUFFICES ASSUME BInv, TInv, SInv, WellWritten(request), stage = "sent" PROVE NothingLost
    BY DEF NothingLost
  <2> DEFINE q == request.messages
             shows == FlattenSeq([i \in DOMAIN Turns |-> Shows(Turns[i])])
             wrote == FlattenSeq([i \in DOMAIN q |-> Written(q[i].content)])
             sent == Reals(shows)
             said == Reals(wrote)
             tells == FlattenSeq([i \in DOMAIN Turns |-> Tells(Turns[i])])
             marks == FlattenSeq([i \in DOMAIN Turns |-> UseIds(Turns[i]) \o Marks(Turns[i].text)])
             made == FlattenSeq([i \in DOMAIN q |-> ToolUseIds(q[i].content)])
  <2>1. /\ request \in Requests /\ \A m \in ToSet(Whole) : Kempt(m)
        /\ SaidBy("real", Whole) = SaidBy("real", q) /\ SaidBy("use", Whole) = SaidBy("use", q)
    BY DEF TInv, SInv, Afterwards, Hows
  <2>2. /\ Alike(Heard("real", shows), SaidBy("real", Whole)) /\ tells = SaidBy("use", Whole)
        /\ \A i \in DOMAIN Turns : IsSeq(Turns[i].text)
    BY <2>1, SentSays
  <2>3. /\ RisingPlaces(SaidBy("real", q)) /\ SaidBy("real", q) = Heard("real", wrote)
        /\ SaidBy("use", q) = made
    BY <2>1, RequestSays
  <2>4. marks = tells
    <3>1. \A i \in DOMAIN Turns : UseIds(Turns[i]) \o Marks(Turns[i].text) = Tells(Turns[i])
      BY <2>2, MarksAre DEF Tells
    <3>2. [i \in DOMAIN Turns |-> UseIds(Turns[i]) \o Marks(Turns[i].text)]
            = [i \in DOMAIN Turns |-> Tells(Turns[i])]
      BY <3>1
    <3> QED BY <3>2, Zenon
  <2>5. sent = Heard("real", shows) /\ said = Heard("real", wrote)
    BY RealsAre
  <2> HIDE DEF shows, wrote, sent, said, tells, marks, made, q
  <2>6. Alike(sent, said) /\ RisingPlaces(said) /\ marks = made
    BY <2>1, <2>2, <2>3, <2>4, <2>5
  <2>7. /\ ToSet(sent) = ToSet(said) /\ Len(sent) = Len(said) /\ DOMAIN sent = 1..Len(sent)
        /\ DOMAIN said = 1..Len(sent) /\ \A i \in 1..Len(sent) : sent[i][3] = said[i][3]
    BY <2>6, IsSeqFacts DEF Alike, Same
  <2>8. \A j, k \in DOMAIN sent : j < k => sent[j][3] <= sent[k][3]
    BY <2>6, <2>7 DEF RisingPlaces
  <2>9. /\ ToSet(sent) = ToSet(said) /\ Len(sent) = Len(said)
        /\ \A j, k \in DOMAIN sent : j < k => sent[j][3] <= sent[k][3]
        /\ marks = made
    BY <2>6, <2>7, <2>8
  <2> QED BY <2>9, Zenon
          DEF NothingLost, Gathered, Keep, Reals, Shows, Marks, UseMarks, Written, WrittenAt, sent, said,
              shows, wrote, marks, made, q
<1> QED BY <1>1, BaseInvariance, ToolsInvariance, SaidInvariance, PTL

-----------------------------------------------------------------------------
(* Schemas.                                                                *)

\* What sanitize_schema makes of the schemas of A, among which nesting does not lead
\* outside.
Sanitizes(f, A) ==
  /\ A \subseteq Schemas /\ \A s \in A : Nested(s) \subseteq A
  /\ f = [s \in A |-> Rewritten(s, [inner \in Nested(s) |-> f[inner]])]

\* Two such functions agree where both are defined: a schema they disagree on would
\* hold another one.
LEMMA SanitizesAlike ==
  ASSUME NEW f, NEW A, NEW g, NEW B, Sanitizes(f, A), Sanitizes(g, B)
  PROVE  \A s \in A \cap B : f[s] = g[s]
<1> DEFINE T == {s \in A \cap B : f[s] # g[s]}
<1> SUFFICES ASSUME T # {} PROVE FALSE
  OBVIOUS
<1>1. T \in SUBSET Schemas
  BY DEF Sanitizes
<1>2. PICK s \in T : Nested(s) \cap T = {}
  <2> HIDE DEF T
  <2> QED BY <1>1, SchemasAssumption
<1>3. s \in A /\ s \in B /\ f[s] # g[s] /\ Nested(s) \subseteq A /\ Nested(s) \subseteq B
  BY <1>2 DEF Sanitizes
<1>4. \A inner \in Nested(s) : f[inner] = g[inner]
  BY <1>2, <1>3
<1>5. [inner \in Nested(s) |-> f[inner]] = [inner \in Nested(s) |-> g[inner]]
  BY <1>4
<1>6. /\ f[s] = Rewritten(s, [inner \in Nested(s) |-> f[inner]])
      /\ g[s] = Rewritten(s, [inner \in Nested(s) |-> g[inner]])
  BY <1>3 DEF Sanitizes
<1> QED BY <1>3, <1>5, <1>6

\* sanitize_schema comes to an end with every schema: the recursion defines a function.
LEMMA SanitizedIs ==
  \A s \in Schemas :
    Sanitized[s] = Rewritten(s, [inner \in Nested(s) |-> Sanitized[inner]])
<1> DEFINE Covered == {s \in Schemas : \E f, A : Sanitizes(f, A) /\ s \in A}
           Of(s) == CHOOSE f : \E A : Sanitizes(f, A) /\ s \in A
           all == [s \in Covered |-> Of(s)[s]]
<1>1. ASSUME NEW s \in Covered
      PROVE  \E A : Sanitizes(Of(s), A) /\ s \in A
  <2> DEFINE P(f) == \E A : Sanitizes(f, A) /\ s \in A
  <2>1. \E f : P(f)
    BY <1>1
  <2>2. P(CHOOSE f : P(f))
    <3> HIDE DEF P
    <3> QED BY <2>1
  <2> QED BY <2>2
<1> HIDE DEF Of
<1>2. ASSUME NEW s \in Covered
      PROVE  /\ Nested(s) \subseteq Covered
             /\ all[s] = Rewritten(s, [inner \in Nested(s) |-> all[inner]])
  <2>1. PICK A : Sanitizes(Of(s), A) /\ s \in A
    BY <1>1
  <2>2. A \subseteq Covered /\ Nested(s) \subseteq A
    BY <2>1 DEF Sanitizes
  <2>3. ASSUME NEW inner \in Nested(s) PROVE Of(s)[inner] = all[inner]
    <3>1. inner \in A /\ inner \in Covered
      BY <2>2
    <3>2. PICK B : Sanitizes(Of(inner), B) /\ inner \in B
      BY <1>1, <3>1
    <3>3. Of(s)[inner] = Of(inner)[inner]
      BY <2>1, <3>1, <3>2, SanitizesAlike
    <3> QED BY <3>1, <3>3
  <2>4. [inner \in Nested(s) |-> Of(s)[inner]] = [inner \in Nested(s) |-> all[inner]]
    BY <2>3
  <2>5. Of(s)[s] = Rewritten(s, [inner \in Nested(s) |-> Of(s)[inner]])
    BY <2>1 DEF Sanitizes
  <2>6. all[s] = Of(s)[s]
    OBVIOUS
  <2> QED BY <2>2, <2>4, <2>5, <2>6
<1>3. Covered \subseteq Schemas
  OBVIOUS
<1>4. DOMAIN all = Covered
  OBVIOUS
<1>5. ASSUME NEW f, NEW A, Sanitizes(f, A) PROVE A \subseteq Covered
  BY <1>5 DEF Sanitizes
<1> HIDE DEF all
<1> HIDE DEF Covered
<1>6. Schemas \subseteq Covered
  <2> SUFFICES ASSUME Schemas \ Covered # {} PROVE FALSE
    OBVIOUS
  <2>1. PICK s \in Schemas \ Covered : Nested(s) \cap (Schemas \ Covered) = {}
    BY SchemasAssumption
  <2>2. Nested(s) \subseteq Covered
    BY <2>1, SchemasAssumption
  <2> DEFINE B == Covered \cup {s}
             g == [x \in B |-> Rewritten(x, [inner \in Nested(x) |-> all[inner]])]
  <2>3. \A x \in B : Nested(x) \subseteq Covered
    BY <1>2, <2>2
  <2>4. \A x \in Covered : g[x] = all[x]
    BY <1>2
  <2>5. \A x \in B : g[x] = Rewritten(x, [inner \in Nested(x) |-> all[inner]])
    OBVIOUS
  <2>6. \A x \in B : [inner \in Nested(x) |-> all[inner]] = [inner \in Nested(x) |-> g[inner]]
    <3> HIDE DEF g
    <3> QED BY <2>3, <2>4
  <2>7. g = [x \in B |-> g[x]]
    OBVIOUS
  <2> HIDE DEF g
  <2>8. g = [x \in B |-> Rewritten(x, [inner \in Nested(x) |-> g[inner]])]
    BY <2>5, <2>6, <2>7
  <2>9. Sanitizes(g, B)
    BY <1>3, <2>1, <2>3, <2>8 DEF Sanitizes
  <2>10. B \subseteq Covered
    BY <1>5, <2>9
  <2> QED BY <2>1, <2>10
<1>7. all = [s \in Schemas |-> Rewritten(s, [inner \in Nested(s) |-> all[inner]])]
  <2>1. all = [s \in Schemas |-> all[s]]
    BY <1>3, <1>4, <1>6 DEF all
  <2> QED BY <1>2, <1>6, <2>1
<1> DEFINE P(f) == f = [s \in Schemas |-> Rewritten(s, [inner \in Nested(s) |-> f[inner]])]
           made == CHOOSE f : P(f)
<1>8. P(made)
  <2>1. P(all)
    BY <1>7
  <2> HIDE DEF P
  <2> QED BY <2>1
<1>9. Sanitized = made
  BY DEF Sanitized
<1> HIDE DEF made
<1> QED BY <1>8, <1>9

\* The way from the first item of an allOf to the last.
Merging(f, base, items) ==
  /\ f[0] = base
  /\ \A n \in 0..(Len(items) - 1) : f[n + 1] = Extend(f[n], items[n + 1])

\* The items of an allOf are taken one by one.
LEMMA MergedIs ==
  ASSUME NEW base, NEW items, IsSeq(items)
  PROVE  \E f : Merging(f, base, items) /\ Merged(base, items) = f[Len(items)]
<1> DEFINE Upto(f, m) == f = [n \in 0..m |-> IF n = 0 THEN base ELSE Extend(f[n - 1], items[n])]
           Good == {m \in Nat : \E f : Upto(f, m)}
<1>1. Len(items) \in Nat
  BY IsSeqFacts
<1>2. 0 \in Good
  <2> DEFINE f == [n \in 0..0 |-> base]
  <2>1. f = [n \in 0..0 |-> IF n = 0 THEN base ELSE Extend(f[n - 1], items[n])]
    OBVIOUS
  <2> HIDE DEF f
  <2> QED BY <2>1
<1>3. ASSUME NEW m \in Nat, m \in Good PROVE m + 1 \in Good
  <2>1. PICK f : Upto(f, m)
    BY <1>3
  <2> DEFINE g == [n \in 0..(m + 1) |-> IF n = m + 1 THEN Extend(f[m], items[n]) ELSE f[n]]
  <2>2. ASSUME NEW n \in 0..(m + 1)
        PROVE  g[n] = IF n = 0 THEN base ELSE Extend(g[n - 1], items[n])
    <3>1. CASE n = m + 1
      <4>1. g[n] = Extend(f[m], items[n]) /\ g[m] = f[m] /\ n # 0 /\ n - 1 = m
        BY <3>1
      <4> HIDE DEF g
      <4> QED BY <4>1
    <3>2. CASE n # m + 1
      <4>1. n \in 0..m /\ g[n] = f[n] /\ (n # 0 => n - 1 \in 0..m /\ g[n - 1] = f[n - 1])
        BY <3>2
      <4> HIDE DEF g
      <4>2. f[n] = IF n = 0 THEN base ELSE Extend(f[n - 1], items[n])
        BY <2>1, <4>1
      <4> QED BY <4>1, <4>2
    <3> QED BY <3>1, <3>2
  <2>3. g = [n \in 0..(m + 1) |-> g[n]]
    OBVIOUS
  <2> HIDE DEF g
  <2>4. Upto(g, m + 1)
    BY <2>2, <2>3
  <2> HIDE DEF Upto
  <2> QED BY <2>4
<1>4. Len(items) \in Good
  <2> HIDE DEF Good
  <2>1. Nat \subseteq Good
    BY <1>2, <1>3, UpTheNaturals
  <2> QED BY <1>1, <2>1
<1> DEFINE P(f) == Upto(f, Len(items))
           made == CHOOSE f : P(f)
<1>5. Merged(base, items) = made[Len(items)]
  BY DEF Merged
<1>6. \E f : P(f)
  BY <1>4
<1>7. P(made)
  <2> HIDE DEF P
  <2> QED BY <1>6
<1> HIDE DEF made
<1>8. made[0] = base
  BY <1>1, <1>7
<1>9. ASSUME NEW n \in 0..(Len(items) - 1) PROVE made[n + 1] = Extend(made[n], items[n + 1])
  <2>1. n + 1 \in 0..Len(items) /\ n + 1 # 0 /\ (n + 1) - 1 = n
    BY <1>1
  <2> QED BY <1>7, <2>1
<1> QED BY <1>5, <1>8, <1>9 DEF Merging

\* Without items nothing is added.
LEMMA MergedNothing == \A base : Merged(base, <<>>) = base
<1> TAKE base
<1>1. PICK f : Merging(f, base, <<>>) /\ Merged(base, <<>>) = f[Len(<<>>)]
  BY MergedIs, EmptyIsSeq
<1>2. Len(<<>>) = 0
  OBVIOUS
<1> QED BY <1>1, <1>2 DEF Merging

-----------------------------------------------------------------------------
HasFields(s) == s = Schema(s.type, s.enum, s.properties, s.required, s.unsupported, s.anyOf, s.allOf)

\* No keyword is left that the runtime does not take, and the parameters are of T.
IsClean(s)    == s.unsupported = {} /\ IsBare(s)
CleanIn(s, T) == HasFields(s) /\ IsClean(s) /\ Parts(s) \subseteq T

\* A clean schema is extended with a clean one, and with its type if it has one.
LEMMA ExtendIs ==
  ASSUME NEW T, NEW base, CleanIn(base, T), NEW more, CleanIn(more, T)
  PROVE  CleanIn(Extend(base, more), T) /\ Extend(base, more).type = Over(more.type, base.type, "")
<1> DEFINE e == Extend(base, more)
<1>1. HasFields(base) /\ HasFields(more)
  BY DEF CleanIn
<1>2. e = Schema(Over(more.type, base.type, ""), Over(more.enum, base.enum, Absent),
                 Over(more.properties, base.properties, NoParameters),
                 Over(more.required, base.required, Absent),
                 base.unsupported, base.anyOf, base.allOf)
  BY DEF Extend, Schema
<1> HIDE DEF e
<1>3. /\ HasFields(e) /\ e.type = Over(more.type, base.type, "")
      /\ e.unsupported = base.unsupported /\ e.anyOf = base.anyOf /\ e.allOf = base.allOf
      /\ e.properties = more.properties \/ e.properties = base.properties
  BY <1>2 DEF HasFields, Schema, Over
<1>4. Parts(e) \subseteq T
  BY <1>3 DEF CleanIn, Parts
<1>5. IsClean(e)
  BY <1>3 DEF CleanIn, IsClean, IsBare
<1> QED BY <1>3, <1>4, <1>5 DEF CleanIn, e

\* So is what an allOf is merged into.
LEMMA MergedIsClean ==
  ASSUME NEW T, NEW base, CleanIn(base, T), NEW items, IsSeq(items),
         \A i \in 1..Len(items) : CleanIn(items[i], T)
  PROVE  CleanIn(Merged(base, items), T)
<1>1. PICK f : Merging(f, base, items) /\ Merged(base, items) = f[Len(items)]
  BY MergedIs
<1> DEFINE n == Len(items)
           Good == {i \in 0..n : CleanIn(f[i], T)}
<1>2. n \in Nat
  BY IsSeqFacts
<1>3. 0 \in Good
  BY <1>1, <1>2 DEF Merging
<1>4. ASSUME NEW i \in 0..(n - 1), i \in Good PROVE i + 1 \in Good
  <2>1. i + 1 \in 0..n /\ i + 1 \in 1..n
    BY <1>2
  <2>2. f[i + 1] = Extend(f[i], items[i + 1]) /\ CleanIn(f[i], T) /\ CleanIn(items[i + 1], T)
    BY <1>1, <1>4, <2>1 DEF Merging
  <2>3. CleanIn(Extend(f[i], items[i + 1]), T)
    BY <2>2, ExtendIs, Zenon
  <2> QED BY <2>1, <2>2, <2>3
<1>5. 0..n \subseteq Good
  <2> HIDE DEF Good, n
  <2> QED BY <1>2, <1>3, <1>4, UpTo
<1> QED BY <1>1, <1>2, <1>5

\* The empty schema and a branch that is no object are clean.
LEMMA NothingIsClean ==
  \A T : /\ CleanIn(EmptySchema, T) /\ EmptySchema.type = "" /\ HasFields(EmptySchema)
         /\ CleanIn(NotAnObject, T) /\ NotAnObject.type = "no object"
<1> TAKE T
<1>1. Parts(EmptySchema) = {} /\ Parts(NotAnObject) = {}
  BY DEF EmptySchema, NotAnObject, Schema, Parts, NoParameters
<1>2. /\ HasFields(EmptySchema) /\ EmptySchema.type = "" /\ HasFields(NotAnObject)
      /\ NotAnObject.type = "no object" /\ IsClean(EmptySchema) /\ IsClean(NotAnObject)
  <2>1. EmptySchema = Schema("", {}, <<>>, {}, {}, <<>>, <<>>)
    BY DEF EmptySchema, Absent, NoParameters
  <2>2. NotAnObject = Schema("no object", {}, <<>>, {}, {}, <<>>, <<>>)
    BY DEF NotAnObject, Absent, NoParameters
  <2>3. \A t : LET s == Schema(t, {}, <<>>, {}, {}, <<>>, <<>>)
               IN HasFields(s) /\ s.type = t /\ IsClean(s)
    BY DEF Schema, HasFields, IsClean, IsBare
  <2> QED BY <2>1, <2>2, <2>3
<1> QED BY <1>1, <1>2 DEF CleanIn

\* The elements kept pass the test; the sequence kept is one.
LEMMA RealAre ==
  ASSUME NEW b, IsSeq(b)
  PROVE  /\ IsSeq(DropNullBranches(b))
         /\ ToSet(DropNullBranches(b)) = {x \in ToSet(b) : IsReal(x)}
<1> DEFINE T == {x \in ToSet(b) : IsReal(x)}
<1>1. [i \in DOMAIN b |-> IF IsReal(b[i]) THEN <<b[i]>> ELSE <<>>]
        = [i \in DOMAIN b |-> IF b[i] \in T THEN <<b[i]>> ELSE <<>>]
  BY DEF ToSet
<1>2. DropNullBranches(b) = Kept(b, T)
  BY <1>1, Zenon DEF DropNullBranches, Keep, Kept
<1> HIDE DEF T
<1>3. IsSeq(Kept(b, T)) /\ ToSet(Kept(b, T)) = ToSet(b) \cap T
  BY KeptIsSeq
<1> QED BY <1>2, <1>3 DEF T

\* The branches that are objects, as a sequence and as a set.
LEMMA ObjectsAre ==
  ASSUME NEW b, IsSeq(b)
  PROVE  LET o == Keep(b, IsObject) IN IsSeq(o) /\ ToSet(o) = {x \in ToSet(b) : IsObject(x)}
<1> DEFINE T == {x \in ToSet(b) : IsObject(x)}
           o == Keep(b, IsObject)
<1>1. [i \in DOMAIN b |-> IF IsObject(b[i]) THEN <<b[i]>> ELSE <<>>]
        = [i \in DOMAIN b |-> IF b[i] \in T THEN <<b[i]>> ELSE <<>>]
  BY DEF ToSet
<1>2. o = Kept(b, T)
  BY <1>1, Zenon DEF Keep, Kept
<1> HIDE DEF T, o
<1>3. IsSeq(Kept(b, T)) /\ ToSet(Kept(b, T)) = ToSet(b) \cap T
  BY KeptIsSeq
<1> QED BY <1>2, <1>3 DEF T, o

\* The first of several alternatives, or the only one of its kind, is not null.
Prefers(b) ==
  \E i \in DOMAIN b : IsReal(b[i]) /\ (i = 1 \/ \A j \in DOMAIN b \ {i} : IsNull(b[j]))

\* Among nulls a single other alternative is all that is kept.
LEMMA OneIsReal ==
  ASSUME NEW b, IsSeq(b), NEW i \in 1..Len(b), IsReal(b[i]),
         \A j \in 1..Len(b) \ {i} : IsNull(b[j])
  PROVE  Len(DropNullBranches(b)) = 1
<1> DEFINE T == {x \in ToSet(b) : IsReal(x)}
           front == SubSeq(b, 1, i - 1)
           back  == SubSeq(b, i + 1, Len(b))
<1>1. [k \in DOMAIN b |-> IF IsReal(b[k]) THEN <<b[k]>> ELSE <<>>]
        = [k \in DOMAIN b |-> IF b[k] \in T THEN <<b[k]>> ELSE <<>>]
  BY DEF ToSet
<1>2. DropNullBranches(b) = Kept(b, T)
  BY <1>1, Zenon DEF DropNullBranches, Keep, Kept
<1>3. b[i] \in T /\ \A j \in 1..Len(b) \ {i} : b[j] \notin T
  BY IsSeqFacts DEF ToSet, IsReal
<1> HIDE DEF T
<1> DEFINE most == SubSeq(b, 1, i)
<1>4. Len(b) \in Nat /\ i \in Nat \ {0} /\ i - 1 \in Nat /\ i <= Len(b)
  BY IsSeqFacts
<1>5. /\ IsSeq(front) /\ Len(front) = i - 1 /\ \A j \in 1..(i - 1) : front[j] = b[j]
      /\ IsSeq(most) /\ Len(most) = i /\ \A j \in 1..i : most[j] = b[j]
  BY <1>4, SubSeqIsSeq
<1>6. IsSeq(back) /\ Len(back) = Len(b) - i /\ \A j \in 1..(Len(b) - i) : back[j] = b[i + j]
  BY <1>4, SubSeqIsSeq
<1>7. b = most \o back
  BY <1>4, Parted
<1> HIDE DEF front, back, most
<1>8. most = Append(front, b[i])
  <2> DEFINE more == Append(front, b[i])
  <2>1. /\ IsSeq(more) /\ Len(more) = Len(front) + 1 /\ more[Len(front) + 1] = b[i]
        /\ \A j \in 1..Len(front) : more[j] = front[j]
    BY <1>5, AppendIsSeq
  <2> HIDE DEF more
  <2>2. \A j \in 1..i : most[j] = more[j]
    <3> TAKE j \in 1..i
    <3>1. CASE j = i
      BY <1>4, <1>5, <2>1, <3>1
    <3>2. CASE j \in 1..(i - 1)
      BY <1>4, <1>5, <2>1, <3>2
    <3> QED BY <1>4, <3>1, <3>2
  <2>3. Len(more) = i
    BY <1>4, <1>5, <2>1
  <2>4. most = more
    BY <1>5, <2>1, <2>2, <2>3, SeqSame
  <2> QED BY <2>4 DEF more
<1>9. Kept(front, T) = <<>>
  <2>1. ToSet(front) \cap T = {}
    <3>1. \A j \in 1..(i - 1) : j \in 1..Len(b) \ {i}
      BY <1>4
    <3>2. ToSet(front) = {front[j] : j \in 1..(i - 1)}
      BY <1>5, ElementsOf
    <3> QED BY <1>3, <1>5, <3>1, <3>2
  <2> QED BY <1>5, <2>1, KeptNone
<1>10. Kept(back, T) = <<>>
  <2>1. ToSet(back) \cap T = {}
    <3>1. \A j \in 1..(Len(b) - i) : i + j \in 1..Len(b) \ {i}
      BY <1>4
    <3>2. ToSet(back) = {back[j] : j \in 1..(Len(b) - i)}
      BY <1>6, ElementsOf
    <3> QED BY <1>3, <1>6, <3>1, <3>2
  <2> QED BY <1>6, <2>1, KeptNone
<1>11. Kept(most, T) = Append(<<>>, b[i])
  <2>1. Kept(Append(front, b[i]), T) = IF b[i] \in T THEN Append(Kept(front, T), b[i]) ELSE Kept(front, T)
    <3> DEFINE x == b[i]
    <3> HIDE DEF x
    <3>1. IsSeq(front)
      BY <1>5
    <3>2. Kept(Append(front, x), T) = IF x \in T THEN Append(Kept(front, T), x) ELSE Kept(front, T)
      BY ONLY <3>1, KeptAppend
    <3> QED BY <3>2 DEF x
  <2> QED BY <1>3, <1>8, <1>9, <2>1
<1>12. Kept(b, T) = Append(<<>>, b[i]) \o <<>>
  <2>1. Kept(most \o back, T) = Kept(most, T) \o Kept(back, T)
    BY <1>5, <1>6, KeptConcat
  <2> QED BY <1>7, <1>10, <1>11, <2>1
<1>13. Append(<<>>, b[i]) \o <<>> = Append(<<>>, b[i]) /\ Len(Append(<<>>, b[i])) = 1
  <2>1. IsSeq(Append(<<>>, b[i])) /\ Len(Append(<<>>, b[i])) = Len(<<>>) + 1 /\ Len(<<>>) = 0
    BY EmptyIsSeq, AppendIsSeq
  <2> QED BY <2>1, ConcatNothing
<1> QED BY <1>2, <1>12, <1>13

\* What is picked of sanitized branches is clean, and not null if one is preferred
\* that is not.
LEMMA ChosenIs ==
  ASSUME NEW T, NEW b, IsSeq(b), b # <<>>, \A x \in ToSet(b) : CleanIn(x, T)
  PROVE  CleanIn(Chosen(b), T) /\ (Prefers(b) => IsReal(Chosen(b)))
<1> DEFINE real == DropNullBranches(b)
           picked == IF Len(real) = 1 THEN Head(real) ELSE Head(b)
<1>1. Len(b) \in Nat \ {0} /\ DOMAIN b = 1..Len(b) /\ ToSet(b) = {b[i] : i \in 1..Len(b)}
  BY IsSeqFacts, ElementsOf, SMTT(20)
<1>2. Head(b) = b[1] /\ b[1] \in ToSet(b)
  BY <1>1, IsSeqFacts
<1>3. Len(real) = 1 => Head(real) \in ToSet(b) /\ IsReal(Head(real))
  <2>1. IsSeq(real) /\ ToSet(real) = {x \in ToSet(b) : IsReal(x)}
    BY RealAre
  <2> HIDE DEF real
  <2> SUFFICES ASSUME Len(real) = 1 PROVE Head(real) \in ToSet(real)
    BY <2>1
  <2>2. ToSet(real) = {real[i] : i \in 1..Len(real)}
    BY <2>1, ElementsOf
  <2>3. Head(real) = real[1] /\ 1 \in 1..Len(real)
    <3>1. real \in Seq(ToSet(real))
      BY <2>1, IsSeqFacts
    <3> QED BY <3>1
  <2> QED BY <2>2, <2>3
<1>4. Prefers(b) => IsReal(picked)
  <2> SUFFICES ASSUME NEW i \in 1..Len(b), IsReal(b[i]),
                      i = 1 \/ \A j \in 1..Len(b) \ {i} : IsNull(b[j])
               PROVE  IsReal(picked)
    BY <1>1 DEF Prefers
  <2>1. CASE i = 1
    BY <1>2, <1>3, <2>1
  <2>2. CASE \A j \in 1..Len(b) \ {i} : IsNull(b[j])
    BY <1>3, <2>2, OneIsReal
  <2> QED BY <2>1, <2>2
<1>5. CleanIn(picked, T)
  BY <1>2, <1>3
<1>6. CASE \A x \in ToSet(b) : IsEnum(x)
  <2> DEFINE types == {x.type : x \in ToSet(b)}
             type == IF \E t \in types : types = {t} THEN CHOOSE t \in types : TRUE ELSE ""
             enum == UNION {x.enum : x \in ToSet(b)}
  <2>1. Chosen(b) = Schema(type, enum, NoParameters, Absent, {}, <<>>, <<>>)
    BY <1>6 DEF Chosen, FlattenedEnum
  <2> HIDE DEF enum
  <2>2. CleanIn(Chosen(b), T) /\ Chosen(b).type = type
    <3> HIDE DEF type
    <3> DEFINE c == Schema(type, enum, NoParameters, Absent, {}, <<>>, <<>>)
    <3>1. HasFields(c) /\ IsClean(c) /\ c.type = type /\ c.properties = <<>>
      BY DEF Schema, HasFields, IsClean, IsBare, NoParameters
    <3> HIDE DEF c
    <3>2. Parts(c) = {}
      BY <3>1 DEF Parts
    <3> QED BY <2>1, <3>1, <3>2 DEF CleanIn, c
  <2>3. Prefers(b) => type # "null"
    <3> SUFFICES ASSUME NEW i \in 1..Len(b), IsReal(b[i]), type = "null" PROVE FALSE
      BY <1>1 DEF Prefers
    <3>1. b[i].type \in types /\ b[i].type # "null"
      BY <1>1 DEF IsReal, IsNull
    <3> HIDE DEF types
    <3>2. PICK t \in types : types = {t}
      OBVIOUS
    <3>3. type = t
      BY <3>2
    <3> QED BY <3>1, <3>2, <3>3
  <2> QED BY <2>2, <2>3 DEF IsReal, IsNull
<1>7. CASE ~ \A x \in ToSet(b) : IsEnum(x)
  <2>1. Chosen(b) = IF picked = NotAnObject THEN EmptySchema ELSE picked
    BY <1>7 DEF Chosen
  <2>2. CleanIn(EmptySchema, T) /\ IsReal(EmptySchema)
    BY NothingIsClean DEF IsReal, IsNull
  <2> HIDE DEF picked
  <2> QED BY <1>4, <1>5, <2>1, <2>2
<1> QED BY <1>6, <1>7

\* What becomes of a parameter or a branch, and of all branches.
Branch(inside, b)    == IF IsObject(b) THEN inside[b] ELSE NotAnObject
Branches(inside, bs) == [i \in DOMAIN bs |-> Branch(inside, bs[i])]

\* A parameter that stays other than null, its branches being sanitized.
Stays(s, inside) ==
  IsReal(s) /\ s.allOf = <<>> /\ (s.anyOf # <<>> => Prefers(Branches(inside, s.anyOf)))

\* sanitize_schema makes a clean schema of any, out of clean ones inside.
LEMMA RewrittenIs ==
  ASSUME NEW T, NotAnObject \in T, NEW s, IsSchema(s), NEW inside,
         \A inner \in Nested(s) : inside[inner] \in T /\ CleanIn(inside[inner], T)
  PROVE  LET r == Rewritten(s, inside)
         IN /\ CleanIn(r, T)
            /\ Stays(s, inside) => IsReal(r)
            /\ IsBare(s) => /\ r.type = s.type
                            /\ r.properties = [name \in DOMAIN s.properties |->
                                                 Branch(inside, s.properties[name])]
<1> DEFINE p     == [name \in DOMAIN s.properties |-> Branch(inside, s.properties[name])]
           plain == Plain(s, p)
           any   == Branches(inside, s.anyOf)
           items == Branches(inside, s.allOf)
           all   == Keep(items, IsObject)
           start == IF any = <<>> THEN plain ELSE Extend(plain, Chosen(any))
<1>1. Rewritten(s, inside) = Merged(start, all)
  BY DEF Rewritten, Branches, Branch
<1>2. IsSeq(s.anyOf) /\ IsSeq(s.allOf)
  BY DEF IsSchema
<1>3. ASSUME NEW b, IsObject(b) => b \in Nested(s)
      PROVE  Branch(inside, b) \in T /\ CleanIn(Branch(inside, b), T)
  BY <1>3, NothingIsClean DEF Branch
<1>4. /\ \A name \in DOMAIN s.properties : Branch(inside, s.properties[name]) \in T
      /\ \A i \in DOMAIN s.anyOf : CleanIn(Branch(inside, s.anyOf[i]), T)
      /\ \A i \in DOMAIN s.allOf : CleanIn(Branch(inside, s.allOf[i]), T)
  <2>1. /\ \A name \in DOMAIN s.properties : IsObject(s.properties[name]) => s.properties[name] \in Nested(s)
        /\ \A i \in DOMAIN s.anyOf : IsObject(s.anyOf[i]) => s.anyOf[i] \in Nested(s)
        /\ \A i \in DOMAIN s.allOf : IsObject(s.allOf[i]) => s.allOf[i] \in Nested(s)
    BY DEF Nested, IsObject, ToSet
  <2> QED BY <1>3, <2>1
<1>5. CleanIn(plain, T) /\ plain.type = s.type /\ plain.properties = p
  <2>1. Parts(plain) = {p[name] : name \in DOMAIN p}
    BY DEF Parts, Plain, Schema
  <2>2. Parts(plain) \subseteq T
    BY <1>4, <2>1
  <2> HIDE DEF p
  <2>3. HasFields(plain) /\ IsClean(plain) /\ plain.type = s.type /\ plain.properties = p
    BY DEF Plain, Schema, HasFields, IsClean, IsBare
  <2> HIDE DEF plain
  <2> QED BY <2>2, <2>3 DEF CleanIn
<1>6. /\ IsSeq(any) /\ Len(any) = Len(s.anyOf) /\ \A x \in ToSet(any) : CleanIn(x, T)
      /\ any = <<>> <=> s.anyOf = <<>>
  <2>1. DOMAIN any = DOMAIN s.anyOf /\ any = [i \in DOMAIN s.anyOf |-> any[i]]
          /\ \A i \in DOMAIN s.anyOf : CleanIn(any[i], T)
    BY <1>4 DEF Branches
  <2> HIDE DEF any
  <2>2. IsSeq(any) /\ Len(any) = Len(s.anyOf)
    BY <1>2, <2>1, MapIsSeq
  <2>3. any = <<>> <=> s.anyOf = <<>>
    BY <1>2, <2>2, IsSeqFacts
  <2> QED BY <2>1, <2>2, <2>3 DEF ToSet
<1>7. /\ IsSeq(all) /\ \A i \in 1..Len(all) : CleanIn(all[i], T)
      /\ s.allOf = <<>> => all = <<>>
  <2>1. DOMAIN items = DOMAIN s.allOf /\ items = [i \in DOMAIN s.allOf |-> items[i]]
          /\ \A i \in DOMAIN s.allOf : CleanIn(items[i], T)
    BY <1>4 DEF Branches
  <2> HIDE DEF items
  <2>2. IsSeq(items) /\ Len(items) = Len(s.allOf) /\ \A x \in ToSet(items) : CleanIn(x, T)
    BY <1>2, <2>1, MapIsSeq DEF ToSet
  <2>3. IsSeq(all) /\ ToSet(all) = {x \in ToSet(items) : IsObject(x)}
    BY <2>2, ObjectsAre
  <2>4. s.allOf = <<>> => all = <<>>
    <3> SUFFICES ASSUME s.allOf = <<>> PROVE ToSet(all) = {}
      BY <2>3, ElementsOf
    <3>1. ToSet(items) = {}
      BY <1>2, <2>2, IsSeqFacts, ElementsOf
    <3> QED BY <2>3, <3>1
  <2> HIDE DEF all
  <2>5. ToSet(all) = {all[i] : i \in 1..Len(all)}
    BY <2>3, ElementsOf
  <2> QED BY <2>2, <2>3, <2>4, <2>5
<1> HIDE DEF p, plain, all, items
<1>8. CleanIn(start, T)
  <2>1. CASE any = <<>>
    BY <1>5, <2>1
  <2>2. CASE any # <<>>
    <3>1. CleanIn(Chosen(any), T)
      BY <1>6, <2>2, ChosenIs
    <3> QED BY <1>5, <2>2, <3>1, ExtendIs
  <2> QED BY <2>1, <2>2
<1>9. Stays(s, inside) => IsReal(start)
  <2> SUFFICES ASSUME Stays(s, inside) PROVE IsReal(start)
    OBVIOUS
  <2>1. IsReal(plain) /\ (any # <<>> => Prefers(any))
    BY <1>5, <1>6 DEF Stays, IsReal, IsNull
  <2>2. CASE any = <<>>
    BY <2>1, <2>2
  <2>3. CASE any # <<>>
    <3>1. CleanIn(Chosen(any), T) /\ IsReal(Chosen(any))
      BY <1>6, <2>1, <2>3, ChosenIs
    <3>2. start.type = Over(Chosen(any).type, plain.type, "")
      BY <1>5, <2>3, <3>1, ExtendIs
    <3> HIDE DEF start
    <3> QED BY <2>1, <3>1, <3>2 DEF Over, IsReal, IsNull
  <2> QED BY <2>2, <2>3
<1>10. IsBare(s) => start = plain
  BY <1>6 DEF IsBare
<1> HIDE DEF start, any
<1>11. CleanIn(Merged(start, all), T)
  BY <1>7, <1>8, MergedIsClean
<1>12. s.allOf = <<>> => Merged(start, all) = start
  BY <1>7, MergedNothing
<1>13. Stays(s, inside) => IsReal(Merged(start, all))
  BY <1>9, <1>12 DEF Stays
<1>14. IsBare(s) => Merged(start, all) = plain
  BY <1>10, <1>12 DEF IsBare
<1> QED BY <1>1, <1>5, <1>11, <1>13, <1>14 DEF p

-----------------------------------------------------------------------------
\* What sanitize_schema makes of any schema, and what it leaves as it is.
Sanitary == {Sanitized[s] : s \in Schemas} \cup {NotAnObject}

\* Nothing sanitized holds anything else.
LEMMA SanitizedIsClean == \A s \in Schemas : CleanIn(Sanitized[s], Sanitary)
<1> DEFINE T == {s \in Schemas : ~CleanIn(Sanitized[s], Sanitary)}
<1> SUFFICES ASSUME T # {} PROVE FALSE
  OBVIOUS
<1>1. PICK s \in T : Nested(s) \cap T = {}
  <2>1. T \in SUBSET Schemas
    OBVIOUS
  <2> HIDE DEF T
  <2> QED BY <2>1, SchemasAssumption
<1>2. s \in Schemas /\ IsSchema(s) /\ Nested(s) \subseteq Schemas
  BY SchemasAssumption
<1> DEFINE inside == [inner \in Nested(s) |-> Sanitized[inner]]
<1>3. \A inner \in Nested(s) : inside[inner] \in Sanitary /\ CleanIn(inside[inner], Sanitary)
  BY <1>1, <1>2 DEF Sanitary
<1>4. Sanitized[s] = Rewritten(s, inside)
  BY <1>2, SanitizedIs
<1> HIDE DEF inside
<1>5. NotAnObject \in Sanitary
  BY DEF Sanitary
<1>6. CleanIn(Rewritten(s, inside), Sanitary)
  BY <1>2, <1>3, <1>5, RewrittenIs
<1> QED BY <1>1, <1>4, <1>6

\* What is sanitized of a schema keeps its parameters and its type if it has no
\* alternatives, and does not become null if something else is preferred.
LEMMA SanitizedKeeps ==
  ASSUME NEW s \in Schemas
  PROVE  LET inside == [inner \in Nested(s) |-> Sanitized[inner]]
             r      == Sanitized[s]
         IN /\ Stays(s, inside) => IsReal(r)
            /\ IsBare(s) => /\ r.type = s.type
                            /\ r.properties = [name \in DOMAIN s.properties |->
                                                 Branch(inside, s.properties[name])]
<1> DEFINE inside == [inner \in Nested(s) |-> Sanitized[inner]]
<1>1. IsSchema(s) /\ Nested(s) \subseteq Schemas
  BY SchemasAssumption
<1>2. \A inner \in Nested(s) : inside[inner] \in Sanitary /\ CleanIn(inside[inner], Sanitary)
  BY <1>1, SanitizedIsClean DEF Sanitary
<1>3. Sanitized[s] = Rewritten(s, inside)
  BY SanitizedIs
<1> HIDE DEF inside
<1>4. NotAnObject \in Sanitary
  BY DEF Sanitary
<1>5. LET r == Rewritten(s, inside)
      IN /\ Stays(s, inside) => IsReal(r)
         /\ IsBare(s) => /\ r.type = s.type
                         /\ r.properties = [name \in DOMAIN s.properties |->
                                              Branch(inside, s.properties[name])]
  BY <1>1, <1>2, <1>4, RewrittenIs
<1> QED BY <1>3, <1>5 DEF inside

\* The root is an object, and holds what it held or the schema itself.
LEMMA RootIs ==
  ASSUME NEW T, NEW s, CleanIn(s, T)
  PROVE  LET root == EnsureObjectRoot(s)
         IN /\ root.type = "object" /\ IsClean(root) /\ Parts(root) \subseteq T \cup {s}
            /\ s.type \in {"", "object"} => root.properties = s.properties
<1> DEFINE root == EnsureObjectRoot(s)
<1>1. CASE s.type \in {"", "object"}
  <2>1. root = [s EXCEPT !.type = "object"]
    BY <1>1 DEF EnsureObjectRoot
  <2>2. /\ root.type = "object" /\ root.properties = s.properties /\ root.unsupported = s.unsupported
        /\ root.anyOf = s.anyOf /\ root.allOf = s.allOf
    <3>1. s = Schema(s.type, s.enum, s.properties, s.required, s.unsupported, s.anyOf, s.allOf)
      BY Zenon DEF CleanIn, HasFields
    <3> DEFINE x == Schema(s.type, s.enum, s.properties, s.required, s.unsupported, s.anyOf, s.allOf)
    <3>2. LET y == [x EXCEPT !.type = "object"]
          IN /\ y.type = "object" /\ y.properties = s.properties /\ y.unsupported = s.unsupported
             /\ y.anyOf = s.anyOf /\ y.allOf = s.allOf
      BY DEF Schema
    <3> HIDE DEF x
    <3>3. root = [x EXCEPT !.type = "object"]
      BY <2>1, <3>1, Zenon DEF x
    <3> QED BY <3>2, <3>3, Zenon
  <2> HIDE DEF root
  <2>3. Parts(root) = Parts(s)
    BY <2>2, Zenon DEF Parts
  <2>4. IsClean(s) /\ Parts(s) \subseteq T
    BY DEF CleanIn
  <2>5. IsClean(root)
    BY <2>2, <2>4 DEF IsClean, IsBare
  <2>6. Parts(root) \subseteq T \cup {s}
    BY <2>3, <2>4
  <2> QED BY <2>2, <2>5, <2>6 DEF root
<1>2. CASE s.type \notin {"", "object"}
  <2>1. root = Schema("object", Absent, [name \in {"input"} |-> s], Absent, {}, <<>>, <<>>)
    BY <1>2 DEF EnsureObjectRoot
  <2>2. /\ root.type = "object" /\ root.properties = [name \in {"input"} |-> s]
        /\ root.unsupported = {} /\ root.anyOf = <<>> /\ root.allOf = <<>>
    BY <2>1 DEF Schema
  <2> HIDE DEF root
  <2>3. Parts(root) = {s}
    BY <2>2 DEF Parts
  <2>4. IsClean(root)
    BY <2>2 DEF IsClean, IsBare
  <2> QED BY <1>2, <2>2, <2>3, <2>4 DEF root
<1> QED BY <1>1, <1>2

\* Every schema sent is an object and clean at every depth: some set holds it, and with
\* each schema its parameters, and none of them has a keyword the runtime refuses or an
\* alternative left, however deep the client's schema goes (schema.rs).
THEOREM CleanAtEveryDepth ==
  \A s \in Schemas :
    LET root == EnsureObjectRoot(Sanitized[s])
    IN /\ root.type = "object"
       /\ \E T : root \in T /\ \A x \in T : IsClean(x) /\ Parts(x) \subseteq T
<1> TAKE s \in Schemas
<1> DEFINE root == EnsureObjectRoot(Sanitized[s])
           T == Sanitary \cup {root}
<1>1. CleanIn(Sanitized[s], Sanitary) /\ Sanitized[s] \in Sanitary
  BY SanitizedIsClean DEF Sanitary
<1>2. root.type = "object" /\ IsClean(root) /\ Parts(root) \subseteq Sanitary
  <2>1. root.type = "object" /\ IsClean(root) /\ Parts(root) \subseteq Sanitary \cup {Sanitized[s]}
    BY <1>1, RootIs, Zenon
  <2> QED BY <1>1, <2>1
<1>3. \A x \in Sanitary : CleanIn(x, Sanitary)
  BY SanitizedIsClean, NothingIsClean DEF Sanitary
<1> HIDE DEF root
<1>4. \A x \in T : IsClean(x) /\ Parts(x) \subseteq T
  BY <1>2, <1>3 DEF CleanIn
<1> QED BY <1>2, <1>4 DEF root

\* The type of a schema without alternatives is its own.
LEMMA BareStays ==
  ASSUME NEW s \in Schemas, NEW b, IsObject(b) => b \in Nested(s), IsBare(b),
         NEW inside, inside = [inner \in Nested(s) |-> Sanitized[inner]]
  PROVE  Branch(inside, b).type = b.type
<1>1. CASE IsObject(b)
  <2>1. b \in Schemas /\ Branch(inside, b) = Sanitized[b]
    BY <1>1, SchemasAssumption DEF Branch
  <2> QED BY <2>1, SanitizedKeeps
<1>2. CASE ~IsObject(b)
  BY <1>2 DEF Branch, IsObject
<1> QED BY <1>1, <1>2

\* A parameter that is wanted stays.
LEMMA WantedStays ==
  ASSUME NEW s \in Schemas, IsWanted(s)
  PROVE  IsReal(Sanitized[s])
<1> DEFINE inside == [inner \in Nested(s) |-> Sanitized[inner]]
           any == Branches(inside, s.anyOf)
<1>1. DOMAIN any = DOMAIN s.anyOf /\ \A i \in DOMAIN s.anyOf : any[i] = Branch(inside, s.anyOf[i])
  BY DEF Branches
<1>2. \A i \in DOMAIN s.anyOf : any[i].type = s.anyOf[i].type
  <2> TAKE i \in DOMAIN s.anyOf
  <2>1. s.anyOf[i] \in ToSet(s.anyOf)
    BY DEF ToSet
  <2>2. IsBare(s.anyOf[i]) /\ (IsObject(s.anyOf[i]) => s.anyOf[i] \in Nested(s))
    BY <2>1 DEF IsWanted, Nested, IsObject
  <2> HIDE DEF inside, any
  <2>3. Branch(inside, s.anyOf[i]).type = s.anyOf[i].type
    BY <2>2, BareStays DEF inside
  <2> QED BY <1>1, <2>3
<1> HIDE DEF any
<1>3. s.anyOf # <<>> => Prefers(any)
  BY <1>1, <1>2 DEF IsWanted, Prefers, IsReal, IsNull
<1>4. Stays(s, inside)
  BY <1>3 DEF Stays, IsWanted, any
<1> QED BY <1>4, SanitizedKeeps

\* What is sent for a schema: an object, clean as far down as one looks, with the
\* parameters it had.
LEMMA SentIsFit ==
  ASSUME NEW given \in Schemas
  PROVE  LET sent == EnsureObjectRoot(Sanitized[given])
         IN /\ sent.type = "object"
            /\ \A s \in Within(sent) : s.unsupported = {} /\ IsBare(s)
            /\ IsBare(given) /\ given.type \in {"", "object"} =>
                 /\ DOMAIN sent.properties = DOMAIN given.properties
                 /\ \A name \in DOMAIN given.properties :
                      IsWanted(given.properties[name]) => IsReal(sent.properties[name])
<1> DEFINE root == Sanitized[given]
           sent == EnsureObjectRoot(root)
           inside == [inner \in Nested(given) |-> Sanitized[inner]]
<1>1. CleanIn(root, Sanitary) /\ root \in Sanitary
  BY SanitizedIsClean DEF Sanitary
<1>2. /\ sent.type = "object" /\ IsClean(sent) /\ Parts(sent) \subseteq Sanitary
      /\ root.type \in {"", "object"} => sent.properties = root.properties
  <2> HIDE DEF root
  <2>1. /\ sent.type = "object" /\ IsClean(sent) /\ Parts(sent) \subseteq Sanitary \cup {root}
        /\ root.type \in {"", "object"} => sent.properties = root.properties
    BY <1>1, RootIs, Zenon
  <2> QED BY <1>1, <2>1
<1>3. \A x \in Sanitary : IsClean(x) /\ Parts(x) \subseteq Sanitary
  BY SanitizedIsClean, NothingIsClean DEF Sanitary, CleanIn
<1>4. IsBare(given) => /\ root.type = given.type
                       /\ root.properties = [name \in DOMAIN given.properties |->
                                               Branch(inside, given.properties[name])]
  BY SanitizedKeeps
<1> HIDE DEF sent, root
<1>5. \A s \in Within(sent) : IsClean(s)
  <2> DEFINE one == Parts(sent)
             two == UNION {Parts(p) : p \in one}
             three == UNION {Parts(p) : p \in two}
  <2>1. one \subseteq Sanitary
    BY <1>2
  <2>2. two \subseteq Sanitary
    <3> HIDE DEF one
    <3> QED BY <1>3, <2>1
  <2>3. three \subseteq Sanitary
    <3> HIDE DEF two
    <3> QED BY <1>3, <2>2
  <2>4. Within(sent) = {sent} \cup one \cup two \cup three
    BY DEF Within
  <2> HIDE DEF one, two, three
  <2> QED BY <1>2, <1>3, <2>1, <2>2, <2>3, <2>4
<1>6. ASSUME IsBare(given), given.type \in {"", "object"}
      PROVE  /\ DOMAIN sent.properties = DOMAIN given.properties
             /\ \A name \in DOMAIN given.properties :
                  IsWanted(given.properties[name]) => IsReal(sent.properties[name])
  <2>1. sent.properties = [name \in DOMAIN given.properties |-> Branch(inside, given.properties[name])]
    BY <1>2, <1>4, <1>6
  <2>2. ASSUME NEW name \in DOMAIN given.properties, IsWanted(given.properties[name])
        PROVE  IsReal(Branch(inside, given.properties[name]))
    <3> DEFINE p == given.properties[name]
    <3>1. IsObject(p) => p \in Nested(given)
      BY DEF Nested, IsObject
    <3> HIDE DEF p
    <3>2. CASE IsObject(p)
      <4>1. p \in Schemas /\ Branch(inside, p) = Sanitized[p]
        BY <3>1, <3>2, SchemasAssumption DEF Branch
      <4> QED BY <2>2, <4>1, WantedStays DEF p
    <3>3. CASE ~IsObject(p)
      BY <2>2, <3>3 DEF Branch, IsObject, IsWanted, p
    <3> QED BY <3>2, <3>3 DEF p
  <2> QED BY <2>1, <2>2
<1> QED BY <1>2, <1>5, <1>6 DEF IsClean, sent, root

\* The tools among the entries are those asked for, converted.
LEMMA ToolsAre ==
  ASSUME NEW c, IsSeq(c)
  PROVE  LET tools == ToolsIn(ToolEntries(c))
         IN DOMAIN tools = DOMAIN c /\ \A i \in DOMAIN c : tools[i] = Converted(c[i])
<1> DEFINE S == ToSet(c)
           e == ToolEntries(c)
<1>1. c \in Seq(S)
  BY IsSeqFacts
<1>2. Fits(S, c)
  BY <1>1, EntriesFit
<1>3. ToSet(e) \subseteq Made(S) \cup {CachePoint} /\ Kept(e, Made(S)) = Mapped(c, ToEntry(S))
  BY <1>2 DEF Fits
<1> HIDE DEF e
<1>4. ToolsIn(e) = Mapped(c, ToEntry(S))
  BY <1>3, ToolsInAre
<1>5. \A i \in DOMAIN c : ToEntry(S)[c[i]] = Converted(c[i])
  BY DEF ToEntry, ToSet
<1>6. /\ DOMAIN Mapped(c, ToEntry(S)) = DOMAIN c
      /\ \A i \in DOMAIN c : Mapped(c, ToEntry(S))[i] = Converted(c[i])
  BY <1>5 DEF Mapped
<1> QED BY <1>4, <1>6 DEF e

\* A tool's schema is an object the runtime takes, clean, with the parameters of a
\* schema without alternatives, of which none that is wanted has become null, for every
\* request and all schemas in which nesting ends.
THEOREM SchemaTheorem == Spec => []SchemaIsFit
<1>1. TInv => SchemaIsFit
  <2> SUFFICES ASSUME TInv, stage = "textualize" PROVE SchemaIsFit
    BY DEF SchemaIsFit
  <2> DEFINE c == Callable(request.tools)
             tools == ToolsIn(entries)
  <2>1. request \in Requests /\ entries = ToolEntries(c)
    BY DEF TInv
  <2>2. IsSeq(c) /\ ToSet(c) \subseteq ToSet(request.tools)
    BY <2>1, CallableIs
  <2>3. \A i \in DOMAIN c : c[i].schema \in Schemas
    <3> HIDE DEF c
    <3> QED BY <2>1, <2>2, RequestsAssumption DEF ToSet
  <2>4. DOMAIN tools = DOMAIN c /\ \A i \in DOMAIN c : tools[i] = Converted(c[i])
    <3> HIDE DEF c
    <3> QED BY <2>1, <2>2, ToolsAre
  <2> HIDE DEF c, tools
  <2>5. \A i \in DOMAIN tools : c[i].schema \in Schemas
                                 /\ tools[i].schema = EnsureObjectRoot(Sanitized[c[i].schema])
    BY <2>3, <2>4 DEF Converted
  <2>6. \A i \in DOMAIN tools :
          LET given == c[i].schema
              sent  == tools[i].schema
          IN /\ sent.type = "object"
             /\ \A s \in Within(sent) : s.unsupported = {} /\ IsBare(s)
             /\ IsBare(given) /\ given.type \in {"", "object"} =>
                  /\ DOMAIN sent.properties = DOMAIN given.properties
                  /\ \A name \in DOMAIN given.properties :
                       IsWanted(given.properties[name]) => IsReal(sent.properties[name])
    BY <2>5, SentIsFit
  <2> QED BY <2>6, Zenon DEF SchemaIsFit, ToolsIn, c, tools
<1> QED BY <1>1, ToolsInvariance, PTL

-----------------------------------------------------------------------------
(* The catalog.                                                            *)

\* The rows by their places in the table.
Places == DOMAIN Rows

\* What the rows have in common: no two are of one model.
LEMMA RowsAre ==
  /\ Places = 1..9 /\ Len(Rows) = 9
  /\ \A i \in Places :
       /\ Rows[i] = Row(Rows[i].model, Rows[i].minor, Rows[i].tier, Rows[i].effort)
       /\ Rows[i].minor \in BOOLEAN /\ Rows[i].tier \in {"always", "both", "only"}
       /\ Rows[i].effort \in {Full, Standard, <<>>}
  /\ \A i, j \in Places : Rows[i].model = Rows[j].model => i = j
<1>1. Places = 1..9 /\ Len(Rows) = 9
  BY DEF Places, Rows
<1> DEFINE Models9 == <<"opus-5", "opus-4-8", "opus-4-7", "opus-4-6", "sonnet-5", "sonnet-4-6",
                        "sonnet-4-5", "opus-4-5", "haiku-4-5">>
<1>2. /\ Rows[1] = Row("opus-5", FALSE, "always", Full)
      /\ Rows[2] = Row("opus-4-8", TRUE, "always", Full)
      /\ Rows[3] = Row("opus-4-7", TRUE, "always", Full)
      /\ Rows[4] = Row("opus-4-6", TRUE, "always", Standard)
      /\ Rows[5] = Row("sonnet-5", FALSE, "always", Full)
      /\ Rows[6] = Row("sonnet-4-6", TRUE, "both", Standard)
      /\ Rows[7] = Row("sonnet-4-5", TRUE, "both", <<>>)
      /\ Rows[8] = Row("opus-4-5", TRUE, "only", <<>>)
      /\ Rows[9] = Row("haiku-4-5", TRUE, "only", <<>>)
  BY DEF Rows
<1>3. \A i \in 1..9 : \E m \in BOOLEAN, t \in {"always", "both", "only"}, e \in {Full, Standard, <<>>} :
        Rows[i] = Row(Models9[i], m, t, e)
  <2> HIDE DEF Models9
  <2>1. /\ Models9[1] = "opus-5" /\ Models9[2] = "opus-4-8" /\ Models9[3] = "opus-4-7"
        /\ Models9[4] = "opus-4-6" /\ Models9[5] = "sonnet-5" /\ Models9[6] = "sonnet-4-6"
        /\ Models9[7] = "sonnet-4-5" /\ Models9[8] = "opus-4-5" /\ Models9[9] = "haiku-4-5"
    BY DEF Models9
  <2> TAKE i \in 1..9
  <2>2. i = 1 \/ i = 2 \/ i = 3 \/ i = 4 \/ i = 5 \/ i = 6 \/ i = 7 \/ i = 8 \/ i = 9
    OBVIOUS
  <2> QED BY <1>2, <2>1, <2>2, ZenonT(30)
<1>4. \A a, m, t, e : LET r == Row(a, m, t, e)
                      IN r.model = a /\ r.minor = m /\ r.tier = t /\ r.effort = e
  BY DEF Row
<1>5. \A i, j \in 1..9 : Models9[i] = Models9[j] => i = j
  OBVIOUS
<1>6. \A i \in 1..9 : /\ Rows[i] = Row(Rows[i].model, Rows[i].minor, Rows[i].tier, Rows[i].effort)
                      /\ Rows[i].model = Models9[i]
                      /\ Rows[i].minor \in BOOLEAN /\ Rows[i].tier \in {"always", "both", "only"}
                      /\ Rows[i].effort \in {Full, Standard, <<>>}
  <2> HIDE DEF Models9
  <2> TAKE i \in 1..9
  <2>1. PICK m \in BOOLEAN, t \in {"always", "both", "only"}, e \in {Full, Standard, <<>>} :
          Rows[i] = Row(Models9[i], m, t, e)
    BY <1>3
  <2>2. Rows[i].model = Models9[i] /\ Rows[i].minor = m /\ Rows[i].tier = t /\ Rows[i].effort = e
    BY <1>4, <2>1
  <2> QED BY <2>1, <2>2
<1> QED BY <1>1, <1>5, <1>6

\* An id, field by field.
IdOf(m, w, t, s, d) == [model |-> m, written |-> w, tail1m |-> t, suffix |-> s, dated |-> d]

\* The truth values as fields.
No  == FALSE
Yes == TRUE

\* A field of an id replaced.
LEMMA IdWith ==
  ASSUME NEW m, NEW w, NEW t, NEW s, NEW d, NEW f
  PROVE  /\ [IdOf(m, w, t, s, d) EXCEPT !.suffix = f] = IdOf(m, w, t, f, d)
         /\ [IdOf(m, w, t, s, d) EXCEPT !.dated = f] = IdOf(m, w, t, s, f)
         /\ [IdOf(m, w, t, s, d) EXCEPT !.tail1m = f] = IdOf(m, w, f, s, d)
         /\ [IdOf(m, w, t, s, d) EXCEPT !.written = f] = IdOf(m, f, t, s, d)
         /\ LET id == IdOf(m, w, t, s, d)
            IN id.model = m /\ id.written = w /\ id.tail1m = t /\ id.suffix = s /\ id.dated = d
<1>1. [IdOf(m, w, t, s, d) EXCEPT !.suffix = f] = IdOf(m, w, t, f, d)
  BY DEF IdOf
<1>2. [IdOf(m, w, t, s, d) EXCEPT !.dated = f] = IdOf(m, w, t, s, f)
  BY DEF IdOf
<1>3. [IdOf(m, w, t, s, d) EXCEPT !.tail1m = f] = IdOf(m, w, f, s, d)
  BY DEF IdOf
<1>4. [IdOf(m, w, t, s, d) EXCEPT !.written = f] = IdOf(m, f, t, s, d)
  BY DEF IdOf
<1> QED BY <1>1, <1>2, <1>3, <1>4 DEF IdOf

\* The SKU of an id.
LEMMA SkuIs ==
  ASSUME NEW m, NEW w, NEW t, NEW s, NEW d
  PROVE  /\ w = "dashed" /\ t = No => Sku(IdOf(m, w, t, s, d)) = IdOf(m, "dotted", t, No, No)
         /\ w # "dashed" => Sku(IdOf(m, w, t, s, d)) = IdOf(m, w, t, No, No)
         /\ LET id == IdOf(m, w, t, s, d)
            IN id.model = m /\ id.written = w /\ id.tail1m = t /\ id.suffix = s /\ id.dated = d
<1> DEFINE id == IdOf(m, w, t, s, d)
           bare == IdOf(m, w, t, No, No)
<1>1. No = FALSE
  BY DEF No
<1>2. [id EXCEPT !.suffix = No] = IdOf(m, w, t, No, d)
  BY IdWith
<1>3. StripDate(IdOf(m, w, t, No, d)) = bare
  <2>1. [IdOf(m, w, t, No, d) EXCEPT !.dated = No] = bare
    BY IdWith
  <2> QED BY <1>1, <2>1, Zenon DEF StripDate
<1>4. /\ bare.written = w /\ bare.tail1m = t /\ ~bare.dated
      /\ [bare EXCEPT !.written = "dotted"] = IdOf(m, "dotted", t, No, No)
  <2>1. /\ bare.written = w /\ bare.tail1m = t /\ bare.dated = No
        /\ [bare EXCEPT !.written = "dotted"] = IdOf(m, "dotted", t, No, No)
    BY IdWith
  <2> QED BY <1>1, <2>1, Zenon
<1> HIDE DEF bare
<1>5. CanonicalSku(bare) = IF w = "dashed" /\ ~t THEN IdOf(m, "dotted", t, No, No) ELSE bare
  BY <1>4, Zenon DEF CanonicalSku
<1>6. Sku(id) = CanonicalSku(bare)
  <2>1. [id EXCEPT !.suffix = FALSE] = IdOf(m, w, t, No, d)
    BY <1>1, <1>2, Zenon
  <2> QED BY <1>3, <2>1, Zenon DEF Sku
<1>7. /\ w = "dashed" /\ t = No => Sku(id) = IdOf(m, "dotted", t, No, No)
      /\ w # "dashed" => Sku(id) = IdOf(m, w, t, No, No)
  <2>1. t = No => ~t
    BY <1>1, Zenon
  <2> QED BY <1>5, <1>6, <2>1, Zenon DEF bare
<1>8. id.model = m /\ id.written = w /\ id.tail1m = t /\ id.suffix = s /\ id.dated = d
  BY IdWith
<1> QED BY <1>7, <1>8, Zenon

\* The ids of a row, and the SKUs they have.
LEMMA IdsAre ==
  ASSUME NEW i \in Places, NEW x
  PROVE  /\ Sku(Anthropic(i, x)) = Kiro(i) /\ Anthropic(i, x).suffix = x
         /\ Sku(Dotted(i, x)) = Kiro(i) /\ Dotted(i, x).suffix = x
         /\ Sku(Kiro(i)) = Kiro(i) /\ Kiro(i).suffix = FALSE
         /\ Kiro(i).model = Rows[i].model /\ Kiro(i).tail1m = FALSE
         /\ Sku(Kiro1m(i)) = Kiro1m(i) /\ Kiro1m(i).suffix = FALSE
         /\ Kiro1m(i).model = Rows[i].model /\ Kiro1m(i).tail1m = TRUE
<1> DEFINE m == Rows[i].model
           ours == Spelled(Rows[i], "dashed")
           theirs == Spelled(Rows[i], "dotted")
<1>1. /\ Anthropic(i, x) = IdOf(m, ours, No, x, No)
      /\ Dotted(i, x) = IdOf(m, theirs, No, x, No)
      /\ Kiro(i) = IdOf(m, theirs, No, No, No)
  BY Zenon DEF Anthropic, Dotted, Kiro, Id, IdOf, No
<1>2. (ours = "dashed" /\ theirs = "dotted") \/ (ours # "dashed" /\ theirs = ours)
  BY RowsAre DEF Spelled
<1> HIDE DEF m, ours, theirs
<1>3. Kiro1m(i) = IdOf(m, theirs, Yes, No, No)
  <2>1. [IdOf(m, theirs, No, No, No) EXCEPT !.tail1m = Yes] = IdOf(m, theirs, Yes, No, No)
    BY IdWith
  <2> QED BY <1>1, <2>1, Zenon DEF Kiro1m, Yes
<1>4. Sku(Anthropic(i, x)) = Kiro(i) /\ Anthropic(i, x).suffix = x
  <2>1. ours # "dashed" => Sku(IdOf(m, ours, No, x, No)) = IdOf(m, ours, No, No, No)
    BY SkuIs
  <2>2. Sku(IdOf(m, "dashed", No, x, No)) = IdOf(m, "dotted", No, No, No)
    BY SkuIs
  <2>3. IdOf(m, ours, No, x, No).suffix = x
    BY IdWith
  <2> QED BY <1>1, <1>2, <2>1, <2>2, <2>3, Zenon
<1>5. theirs # "dashed"
  BY <1>2
<1>6. /\ Sku(Dotted(i, x)) = Kiro(i) /\ Dotted(i, x).suffix = x
      /\ Sku(Kiro(i)) = Kiro(i) /\ Kiro(i).suffix = No /\ Kiro(i).model = m /\ Kiro(i).tail1m = No
  <2>1. Sku(IdOf(m, theirs, No, x, No)) = IdOf(m, theirs, No, No, No)
    BY <1>5, SkuIs
  <2>2. Sku(IdOf(m, theirs, No, No, No)) = IdOf(m, theirs, No, No, No)
    BY <1>5, SkuIs
  <2>3. IdOf(m, theirs, No, x, No).suffix = x
    BY IdWith
  <2>4. LET id == IdOf(m, theirs, No, No, No) IN id.suffix = No /\ id.model = m /\ id.tail1m = No
    BY IdWith
  <2> QED BY <1>1, <2>1, <2>2, <2>3, <2>4, Zenon
<1>7. /\ Sku(Kiro1m(i)) = Kiro1m(i) /\ Kiro1m(i).suffix = No /\ Kiro1m(i).model = m
      /\ Kiro1m(i).tail1m = Yes
  <2>1. Sku(IdOf(m, theirs, Yes, No, No)) = IdOf(m, theirs, Yes, No, No)
    BY <1>5, SkuIs
  <2>2. LET id == IdOf(m, theirs, Yes, No, No) IN id.suffix = No /\ id.model = m /\ id.tail1m = Yes
    BY IdWith
  <2> QED BY <1>3, <2>1, <2>2, Zenon
<1> QED BY <1>4, <1>6, <1>7, Zenon DEF m, No, Yes

\* A SKU that is known is that of one row; each row is found by the SKUs it has.
LEMMA RowIsFound ==
  /\ \A sku : RowsOf(sku) # {} => FindRow(sku) \in RowsOf(sku)
  /\ \A i \in Places : RowsOf(Kiro(i)) = {i} /\ FindRow(Kiro(i)) = i
  /\ \A i \in Places : Rows[i].tier = "both" => RowsOf(Kiro1m(i)) = {i} /\ FindRow(Kiro1m(i)) = i
<1>1. ASSUME NEW sku, RowsOf(sku) # {}
      PROVE  FindRow(sku) \in RowsOf(sku)
  <2> DEFINE S == RowsOf(sku)
  <2>1. S \in SUBSET Nat /\ S # {}
    BY <1>1, RowsAre DEF RowsOf, Places
  <2>2. \E i \in S : \A j \in S : i <= j
    <3> HIDE DEF S
    <3> QED BY <2>1, LeastNat
  <2> QED BY <2>2 DEF FindRow
<1>2. ASSUME NEW i \in Places PROVE RowsOf(Kiro(i)) = {i}
  <2>1. \A j \in Places : Kiro(i) = Kiro(j) \/ Kiro(i) = Kiro1m(j) => i = j
    <3> TAKE j \in Places
    <3>1. /\ Kiro(i).model = Rows[i].model /\ Kiro(i).tail1m = FALSE /\ Kiro1m(i).model = Rows[i].model
          /\ Kiro(j).model = Rows[j].model /\ Kiro(j).tail1m = FALSE /\ Kiro1m(j).model = Rows[j].model
          /\ Kiro1m(i).tail1m = TRUE /\ Kiro1m(j).tail1m = TRUE
      BY IdsAre
    <3>2. Kiro(i) # Kiro1m(j)
      BY <3>1, Zenon
    <3>3. Kiro(i) = Kiro(j) => Rows[i].model = Rows[j].model
      BY <3>1, Zenon
    <3> QED BY <3>2, <3>3, RowsAre, Zenon
  <2> QED BY <2>1 DEF RowsOf, Places
<1>3. ASSUME NEW i \in Places, Rows[i].tier = "both" PROVE RowsOf(Kiro1m(i)) = {i}
  <2>1. \A j \in Places : Kiro1m(i) = Kiro(j) \/ Kiro1m(i) = Kiro1m(j) => i = j
    <3> TAKE j \in Places
    <3>1. /\ Kiro(i).model = Rows[i].model /\ Kiro(i).tail1m = FALSE /\ Kiro1m(i).model = Rows[i].model
          /\ Kiro(j).model = Rows[j].model /\ Kiro(j).tail1m = FALSE /\ Kiro1m(j).model = Rows[j].model
          /\ Kiro1m(i).tail1m = TRUE /\ Kiro1m(j).tail1m = TRUE
      BY IdsAre
    <3>2. Kiro1m(i) # Kiro(j)
      BY <3>1, Zenon
    <3>3. Kiro1m(i) = Kiro1m(j) => Rows[i].model = Rows[j].model
      BY <3>1, Zenon
    <3> QED BY <3>2, <3>3, RowsAre, Zenon
  <2> QED BY <1>3, <2>1 DEF RowsOf, Places
<1>4. ASSUME NEW i \in Places PROVE FindRow(Kiro(i)) = i
  BY <1>1, <1>2
<1>5. ASSUME NEW i \in Places, Rows[i].tier = "both" PROVE FindRow(Kiro1m(i)) = i
  BY <1>1, <1>3, <1>5
<1> QED BY <1>1, <1>2, <1>3, <1>4, <1>5

\* The tiers a row is sold in.
Sold(i, oneM) == CASE Rows[i].tier = "always" -> oneM = TRUE
                   [] Rows[i].tier = "only"   -> oneM = FALSE
                   [] OTHER                   -> oneM \in BOOLEAN

\* A row is sold in the tiers its entry names.
LEMMA SoldIs ==
  ASSUME NEW i, NEW oneM, Sold(i, oneM)
  PROVE  /\ Rows[i].tier = "always" => oneM = TRUE
         /\ Rows[i].tier = "only" => oneM = FALSE
         /\ Rows[i].tier = "both" => oneM \in BOOLEAN
<1> DEFINE tier == Rows[i].tier
<1>1. (CASE tier = "always" -> oneM = TRUE
         [] tier = "only"   -> oneM = FALSE
         [] OTHER           -> oneM \in BOOLEAN)
  BY Zenon DEF Sold
<1> HIDE DEF tier
<1>2. /\ tier = "always" => oneM = TRUE
      /\ tier = "only" => oneM = FALSE
      /\ tier = "both" => oneM \in BOOLEAN
  BY <1>1
<1> QED BY <1>2 DEF tier

\* An id is routed to the row of its SKU, in a tier the row is sold in.
LEMMA ResolveIs ==
  ASSUME NEW id, NEW beta, Known(id)
  PROVE  LET i    == FindRow(Sku(id))
             r    == Resolve(id, beta)
             oneM == r.key[2]
         IN /\ i \in Places /\ r.key = <<i, oneM>> /\ Sold(i, oneM)
            /\ r.kiro = KiroModel(i, oneM) /\ r.anthropic = Anthropic(i, oneM)
            /\ r.levels = Rows[i].effort
            /\ Rows[i].tier = "both" => (oneM <=> Wants1m(id, beta))
<1> DEFINE i == FindRow(Sku(id))
           tier == Rows[i].tier
           oneM == tier = "always" \/ (tier = "both" /\ Wants1m(id, beta))
           r == Resolve(id, beta)
<1>1. i \in Places
  BY RowIsFound DEF Known, RowsOf, Places
<1>2. r = [key |-> <<i, oneM>>, kiro |-> KiroModel(i, oneM), anthropic |-> Anthropic(i, oneM),
           thinking |-> id.suffix /\ tier = "both", levels |-> Rows[i].effort]
  BY Zenon DEF Resolve
<1>3. oneM \in BOOLEAN /\ tier \in {"always", "both", "only"}
  BY <1>1, RowsAre
<1>4. Sold(i, oneM)
  BY <1>3 DEF Sold
<1>5. tier = "both" => (oneM <=> Wants1m(id, beta))
  OBVIOUS
<1> HIDE DEF oneM, i
<1>6. /\ r.key = <<i, oneM>> /\ r.key[2] = oneM /\ r.kiro = KiroModel(i, oneM)
      /\ r.anthropic = Anthropic(i, oneM) /\ r.levels = Rows[i].effort
  BY <1>2
<1> QED BY <1>1, <1>4, <1>5, <1>6 DEF i

\* Every name of a row's tier leads back to that tier.
LEMMA AliasesLeadBack ==
  ASSUME NEW i \in Places, NEW oneM, Sold(i, oneM), NEW alias \in Aliases(i, oneM)
  PROVE  Known(alias) /\ Resolve(alias, FALSE).key = <<i, oneM>>
<1>1. /\ FindRow(Sku(alias)) = i /\ RowsOf(Sku(alias)) = {i}
      /\ Rows[i].tier = "both" => (Wants1m(alias, FALSE) <=> oneM)
  <2>1. CASE alias \in {Anthropic(i, oneM), Dotted(i, oneM)}
    <3>1. Sku(alias) = Kiro(i) /\ alias.suffix = oneM
      <4>1. /\ Sku(Anthropic(i, oneM)) = Kiro(i) /\ Anthropic(i, oneM).suffix = oneM
            /\ Sku(Dotted(i, oneM)) = Kiro(i) /\ Dotted(i, oneM).suffix = oneM
        BY IdsAre, Zenon
      <4>2. alias = Anthropic(i, oneM) \/ alias = Dotted(i, oneM)
        BY <2>1, Zenon
      <4> QED BY <4>1, <4>2, Zenon
    <3>2. Kiro(i).tail1m = FALSE
      BY IdsAre
    <3> QED BY <3>1, <3>2, RowIsFound DEF Wants1m
  <2>2. CASE alias = KiroModel(i, oneM)
    <3>1. CASE oneM /\ Rows[i].tier = "both"
      <4>1. alias = Kiro1m(i)
        BY <2>2, <3>1 DEF KiroModel
      <4>2. Sku(alias) = Kiro1m(i) /\ Kiro1m(i).tail1m
        BY <4>1, IdsAre
      <4> QED BY <3>1, <4>2, RowIsFound DEF Wants1m
    <3>2. CASE ~(oneM /\ Rows[i].tier = "both")
      <4>1. alias = Kiro(i)
        BY <2>2, <3>2 DEF KiroModel
      <4>2. Sku(Kiro(i)) = Kiro(i) /\ Kiro(i).suffix = FALSE /\ Kiro(i).tail1m = FALSE
        BY IdsAre
      <4>3. Sku(alias) = Kiro(i) /\ ~Wants1m(alias, FALSE)
        BY <4>1, <4>2, Zenon DEF Wants1m
      <4>4. Rows[i].tier = "both" => ~oneM
        BY <3>2, Zenon
      <4> QED BY <4>3, <4>4, RowIsFound, Zenon
    <3> QED BY <3>1, <3>2
  <2>3. CASE Rows[i].tier = "always" /\ alias \in {Anthropic(i, FALSE), Dotted(i, FALSE)}
    <3>1. Sku(alias) = Kiro(i)
      BY <2>3, IdsAre
    <3> QED BY <2>3, <3>1, RowIsFound
  <2> QED BY <2>1, <2>2, <2>3 DEF Aliases
<1>2. Known(alias)
  BY <1>1 DEF Known
<1>3. LET r == Resolve(alias, FALSE)
      IN /\ r.key = <<i, r.key[2]>> /\ Sold(i, r.key[2])
         /\ Rows[i].tier = "both" => (r.key[2] <=> Wants1m(alias, FALSE))
  BY <1>1, <1>2, ResolveIs
<1> DEFINE other == Resolve(alias, FALSE).key[2]
<1>4. Rows[i].tier \in {"always", "both", "only"}
  BY RowsAre
<1>5. other = oneM
  <2> HIDE DEF other
  <2>1. Sold(i, other) /\ (Rows[i].tier = "both" => (other <=> oneM))
    BY <1>1, <1>3 DEF other
  <2>2. CASE Rows[i].tier = "always"
    <3>1. oneM = TRUE /\ other = TRUE
      BY <2>1, <2>2, Zenon DEF Sold
    <3> QED BY <3>1, Zenon
  <2>3. CASE Rows[i].tier = "only"
    <3>1. Rows[i].tier # "always"
      BY <2>3
    <3>2. oneM = FALSE /\ other = FALSE
      BY <2>1, <2>3, <3>1, SoldIs, Zenon
    <3> QED BY <3>2, Zenon
  <2>4. CASE Rows[i].tier = "both"
    <3>1. oneM \in BOOLEAN /\ other \in BOOLEAN
      BY <2>1, <2>4, SoldIs, Zenon
    <3> QED BY <2>1, <2>4, <3>1, Zenon
  <2> QED BY <1>4, <2>2, <2>3, <2>4, Zenon
<1> QED BY <1>2, <1>3, <1>5

\* The slots of the rows, one row after the other.
LEMMA SlotsAre ==
  /\ SlotsOf[0] = 0
  /\ \A n \in 0..(Len(Rows) - 1) : SlotsOf[n + 1] = SlotsOf[n] + Tiers(Rows[n + 1])
  /\ \A n \in 0..Len(Rows) : SlotsOf[n] \in Nat
<1> DEFINE Next1(f, n) == f[n - 1] + Tiers(Rows[n])
           Upto(f, m) == f = [n \in 0..m |-> IF n = 0 THEN 0 ELSE Next1(f, n)]
           Good == {m \in Nat : \E f : Upto(f, m)}
<1>1. Len(Rows) \in Nat
  BY RowsAre
<1>2. 0 \in Good
  <2> DEFINE f == [n \in 0..0 |-> 0]
  <2>1. f = [n \in 0..0 |-> IF n = 0 THEN 0 ELSE Next1(f, n)]
    OBVIOUS
  <2> HIDE DEF f
  <2> QED BY <2>1
<1>3. ASSUME NEW m \in Nat, m \in Good PROVE m + 1 \in Good
  <2>1. PICK f : Upto(f, m)
    BY <1>3
  <2> DEFINE g == [n \in 0..(m + 1) |-> IF n = m + 1 THEN Next1(f, n) ELSE f[n]]
  <2>2. ASSUME NEW n \in 0..(m + 1)
        PROVE  g[n] = IF n = 0 THEN 0 ELSE Next1(g, n)
    <3>1. CASE n = m + 1
      <4>1. g[n] = Next1(f, n) /\ g[n - 1] = f[n - 1] /\ n # 0
        BY <3>1
      <4> HIDE DEF g
      <4> QED BY <4>1
    <3>2. CASE n # m + 1
      <4>1. n \in 0..m /\ g[n] = f[n] /\ (n # 0 => n - 1 \in 0..m /\ g[n - 1] = f[n - 1])
        BY <3>2
      <4> HIDE DEF g
      <4>2. f[n] = IF n = 0 THEN 0 ELSE Next1(f, n)
        BY <2>1, <4>1
      <4> QED BY <4>1, <4>2
    <3> QED BY <3>1, <3>2
  <2>3. g = [n \in 0..(m + 1) |-> g[n]]
    OBVIOUS
  <2> HIDE DEF g
  <2>4. Upto(g, m + 1)
    BY <2>2, <2>3
  <2> HIDE DEF Upto
  <2> QED BY <2>4
<1>4. Len(Rows) \in Good
  <2> HIDE DEF Good
  <2>1. Nat \subseteq Good
    BY <1>2, <1>3, UpTheNaturals
  <2> QED BY <1>1, <2>1
<1> DEFINE P(f) == Upto(f, Len(Rows))
           made == CHOOSE f : P(f)
<1>5. SlotsOf = made
  BY DEF SlotsOf
<1>6. \E f : P(f)
  BY <1>4
<1>7. P(made)
  <2> HIDE DEF P
  <2> QED BY <1>6
<1> HIDE DEF made
<1>8. made[0] = 0
  BY <1>1, <1>7
<1>9. ASSUME NEW n \in 0..(Len(Rows) - 1) PROVE made[n + 1] = made[n] + Tiers(Rows[n + 1])
  <2>1. n + 1 \in 0..Len(Rows) /\ n + 1 # 0 /\ (n + 1) - 1 = n
    BY <1>1
  <2> QED BY <1>7, <2>1
<1>10. \A n \in 0..Len(Rows) : made[n] \in Nat
  <2> DEFINE Good2 == {n \in Nat : made[n] \in Nat}
  <2>1. 0 \in Good2
    BY <1>8
  <2>2. \A n \in 0..(Len(Rows) - 1) : n \in Good2 => n + 1 \in Good2
    BY <1>9 DEF Tiers
  <2> HIDE DEF Good2
  <2>3. 0..Len(Rows) \subseteq Good2
    BY <1>1, <2>1, <2>2, UpTo
  <2> QED BY <2>3 DEF Good2
<1> QED BY <1>5, <1>8, <1>9, <1>10

\* What a row lists: a tier for each slot it has.
LEMMA RowInfosAre ==
  ASSUME NEW i \in Places
  PROVE  /\ IsSeq(RowInfos(i)) /\ Len(RowInfos(i)) = Tiers(Rows[i])
         /\ DOMAIN RowInfos(i) = 1..Tiers(Rows[i])
         /\ \A oneM : Sold(i, oneM) =>
              LET at == IF oneM /\ Rows[i].tier # "always" THEN 1 ELSE 0
              IN at + 1 \in 1..Tiers(Rows[i]) /\ RowInfos(i)[at + 1] = ModelInfo(i, oneM)
<1>1. CASE Rows[i].tier = "always"
  <2>1. RowInfos(i) = <<ModelInfo(i, TRUE)>>
    BY <1>1, Zenon DEF RowInfos
  <2>2. Tiers(Rows[i]) = 1
    BY <1>1 DEF Tiers
  <2>3. \A oneM : Sold(i, oneM) => oneM = TRUE
    BY <1>1, SoldIs
  <2> DEFINE info == ModelInfo(i, TRUE)
  <2> HIDE DEF info
  <2>4. IsSeq(RowInfos(i)) /\ Len(RowInfos(i)) = 1 /\ RowInfos(i)[1] = info
    BY <2>1, OneIsSeq DEF info
  <2>5. ASSUME NEW oneM, Sold(i, oneM)
        PROVE  LET at == IF oneM /\ Rows[i].tier # "always" THEN 1 ELSE 0
               IN at = 0 /\ info = ModelInfo(i, oneM)
    <3>1. oneM = TRUE
      BY <2>3, <2>5
    <3> QED BY <1>1, <3>1, Zenon DEF info
  <2> QED BY <2>2, <2>4, <2>5, IsSeqFacts
<1>2. CASE Rows[i].tier = "only"
  <2>1. RowInfos(i) = <<ModelInfo(i, FALSE)>>
    <3>1. Rows[i].tier # "always"
      BY <1>2
    <3> QED BY <1>2, <3>1, Zenon DEF RowInfos
  <2>2. Tiers(Rows[i]) = 1
    BY <1>2 DEF Tiers
  <2> DEFINE info == ModelInfo(i, FALSE)
  <2> HIDE DEF info
  <2>4. IsSeq(RowInfos(i)) /\ Len(RowInfos(i)) = 1 /\ RowInfos(i)[1] = info
    BY <2>1, OneIsSeq DEF info
  <2>5. ASSUME NEW oneM, Sold(i, oneM)
        PROVE  LET at == IF oneM /\ Rows[i].tier # "always" THEN 1 ELSE 0
               IN at = 0 /\ info = ModelInfo(i, oneM)
    <3>1. oneM = FALSE
      BY <1>2, <2>5, SoldIs
    <3> QED BY <3>1, Zenon DEF info
  <2> QED BY <2>2, <2>4, <2>5, IsSeqFacts
<1>3. CASE Rows[i].tier = "both"
  <2> DEFINE bare == ModelInfo(i, FALSE)
             long == ModelInfo(i, TRUE)
  <2>1. RowInfos(i) = <<bare, long>>
    <3>1. Rows[i].tier # "always" /\ Rows[i].tier # "only"
      BY <1>3
    <3> QED BY <3>1, Zenon DEF RowInfos
  <2>2. Tiers(Rows[i]) = 2
    BY <1>3 DEF Tiers
  <2> HIDE DEF bare, long
  <2>3. <<bare, long>> = Append(<<bare>>, long)
    OBVIOUS
  <2>4. /\ IsSeq(RowInfos(i)) /\ Len(RowInfos(i)) = 2 /\ RowInfos(i)[1] = bare
        /\ RowInfos(i)[2] = long
    <3>1. IsSeq(<<bare>>) /\ Len(<<bare>>) = 1 /\ <<bare>>[1] = bare
      BY OneIsSeq
    <3> DEFINE one == <<bare>>
               t == Append(one, long)
    <3> HIDE DEF one
    <3>2. IsSeq(t) /\ Len(t) = 2 /\ t[1] = one[1] /\ t[2] = long
      <4>1. IsSeq(one) /\ Len(one) = 1
        BY <3>1 DEF one
      <4>2. /\ IsSeq(t) /\ Len(t) = Len(one) + 1 /\ t[Len(one) + 1] = long
            /\ \A j \in 1..Len(one) : t[j] = one[j]
        BY <4>1, AppendIsSeq, ZenonT(30)
      <4> HIDE DEF t
      <4> QED BY <4>1, <4>2
    <3>3. RowInfos(i) = t
      BY <2>1, <2>3, Zenon DEF one
    <3> HIDE DEF t
    <3> QED BY <3>1, <3>2, <3>3, Zenon DEF one
  <2> DEFINE At(oneM) == IF oneM /\ Rows[i].tier # "always" THEN 1 ELSE 0
  <2>5. At(TRUE) = 1 /\ At(FALSE) = 0
    BY <1>3
  <2> HIDE DEF At
  <2>6. ASSUME NEW oneM, Sold(i, oneM)
        PROVE  \/ At(oneM) = 0 /\ bare = ModelInfo(i, oneM)
               \/ At(oneM) = 1 /\ long = ModelInfo(i, oneM)
    <3>1. oneM = TRUE \/ oneM = FALSE
      BY <1>3, <2>6, SoldIs
    <3>2. CASE oneM = TRUE
      BY <2>5, <3>2, Zenon DEF long
    <3>3. CASE oneM = FALSE
      BY <2>5, <3>3, Zenon DEF bare
    <3> QED BY <3>1, <3>2, <3>3
  <2>7. ASSUME NEW oneM, Sold(i, oneM)
        PROVE  At(oneM) + 1 \in 1..2 /\ RowInfos(i)[At(oneM) + 1] = ModelInfo(i, oneM)
    BY <2>4, <2>6, <2>7
  <2>8. \A oneM : Sold(i, oneM) =>
          At(oneM) + 1 \in 1..Tiers(Rows[i]) /\ RowInfos(i)[At(oneM) + 1] = ModelInfo(i, oneM)
    BY <2>2, <2>7, Zenon
  <2>9. DOMAIN RowInfos(i) = 1..Tiers(Rows[i])
    BY <2>2, <2>4, IsSeqFacts
  <2> QED BY <2>2, <2>4, <2>8, <2>9, Zenon DEF At
<1>4. Rows[i].tier \in {"always", "both", "only"}
  BY RowsAre
<1> QED BY <1>1, <1>2, <1>3, <1>4

\* The rows are a sequence.
LEMMA RowsAreSeq == IsSeq(Rows)
<1>1. ASSUME NEW a, NEW b, NEW c, NEW d, NEW e, NEW f, NEW g, NEW h, NEW k
      PROVE  IsSeq(<<a, b, c, d, e, f, g, h, k>>)
  <2>1. <<a, b, c, d, e, f, g, h, k>> \in Seq({a, b, c, d, e, f, g, h, k})
    OBVIOUS
  <2> QED BY <2>1, SeqIs, Zenon
<1> QED BY <1>1, Zenon DEF Rows

\* A pair of anything.
LEMMA Pair == ASSUME NEW a, NEW b PROVE <<a, b>>[1] = a /\ <<a, b>>[2] = b
  OBVIOUS

\* The slot of a tier lists that tier: the rows before have the slots before.
LEMMA SlotIs ==
  ASSUME NEW i \in Places, NEW oneM, Sold(i, oneM)
  PROVE  /\ CatalogIndex(<<i, oneM>>) \in Nat /\ CatalogIndex(<<i, oneM>>) < Len(Models)
         /\ Models[CatalogIndex(<<i, oneM>>) + 1] = ModelInfo(i, oneM)
<1> DEFINE N == Len(Rows)
           s == [k \in DOMAIN Rows |-> RowInfos(k)]
           at == IF oneM /\ Rows[i].tier # "always" THEN 1 ELSE 0
           slot == SlotsOf[i - 1] + at
<1>1. N \in Nat \ {0} /\ Places = 1..N /\ DOMAIN Rows = 1..N /\ IsSeq(Rows)
  BY RowsAre, RowsAreSeq DEF Places
<1>2. IsSeq(s) /\ Len(s) = N /\ DOMAIN s = 1..N /\ \A k \in 1..N : s[k] = RowInfos(k)
  <2>1. DOMAIN s = DOMAIN Rows /\ s = [k \in DOMAIN Rows |-> s[k]]
    OBVIOUS
  <2>2. \A k \in 1..N : s[k] = RowInfos(k)
    BY <1>1
  <2> HIDE DEF s
  <2> QED BY <1>1, <2>1, <2>2, MapIsSeq
<1>3. Models = FlattenSeq(s)
  BY DEF Models
<1>4. \A k \in 1..N :
        /\ IsSeq(s[k]) /\ Len(s[k]) = Tiers(Rows[k]) /\ Tiers(Rows[k]) \in Nat
        /\ SlotsOf[k] = SlotsOf[k - 1] + Len(s[k]) /\ SlotsOf[k - 1] \in Nat /\ SlotsOf[k] \in Nat
  <2> TAKE k \in 1..N
  <2>1. k \in Places /\ k - 1 \in 0..(N - 1) /\ (k - 1) + 1 = k /\ k - 1 \in 0..N /\ k \in 0..N
    BY <1>1
  <2>2. IsSeq(s[k]) /\ Len(s[k]) = Tiers(Rows[k])
    BY <1>2, <2>1, RowInfosAre
  <2>3. Tiers(Rows[k]) \in Nat
    BY DEF Tiers
  <2>4. SlotsOf[(k - 1) + 1] = SlotsOf[k - 1] + Tiers(Rows[(k - 1) + 1])
    BY <2>1, SlotsAre
  <2> QED BY <2>1, <2>2, <2>3, <2>4, SlotsAre
<1>5. at \in Nat /\ at + 1 \in 1..Len(s[i]) /\ s[i][at + 1] = ModelInfo(i, oneM)
  <2>1. s[i] = RowInfos(i) /\ Len(s[i]) = Tiers(Rows[i])
    BY <1>1, <1>2, <1>4
  <2>2. at + 1 \in 1..Tiers(Rows[i]) /\ RowInfos(i)[at + 1] = ModelInfo(i, oneM)
    BY RowInfosAre
  <2>3. at = 0 \/ at = 1
    BY Zenon
  <2> HIDE DEF at, s
  <2> QED BY <2>1, <2>2, <2>3
<1>6. CatalogIndex(<<i, oneM>>) = slot
  <2>1. <<i, oneM>>[1] = i /\ <<i, oneM>>[2] = oneM
    BY Pair
  <2> QED BY <2>1, Zenon DEF CatalogIndex
<1> HIDE DEF s, at, N
<1>7. PICK f : Turned(f, s) /\ FlattenSeq(s) = f[N]
  <2>1. s # <<>>
    BY <1>1, <1>2, IsSeqFacts
  <2> QED BY <1>2, <2>1, FlattenIs
<1>8. \A k \in 1..N : f[k] = IF k = 1 THEN s[k] ELSE f[k - 1] \o s[k]
  BY <1>2, <1>7 DEF Turned
<1> DEFINE Holds(k) == k >= i => Len(f[k]) > slot /\ f[k][slot + 1] = ModelInfo(i, oneM)
           Good == {k \in 0..N : k # 0 => IsSeq(f[k]) /\ Len(f[k]) = SlotsOf[k] /\ Holds(k)}
<1>9. 0 \in Good
  BY <1>1
<1>10. ASSUME NEW k \in 0..(N - 1), k \in Good PROVE k + 1 \in Good
  <2>1. k + 1 \in 1..N /\ (k + 1) - 1 = k /\ k \in Nat
    BY <1>1
  <2>2. /\ IsSeq(s[k + 1]) /\ Len(s[k + 1]) \in Nat
        /\ SlotsOf[k + 1] = SlotsOf[k] + Len(s[k + 1]) /\ SlotsOf[k] \in Nat
    BY <1>4, <2>1
  <2>a. k # 0 => IsSeq(f[k]) /\ Len(f[k]) = SlotsOf[k] /\ Holds(k)
    <3> HIDE DEF Holds
    <3> QED BY <1>10
  <2>b. k # 0 => f[k + 1] = f[k] \o s[k + 1]
    <3>1. f[k + 1] = IF k + 1 = 1 THEN s[k + 1] ELSE f[(k + 1) - 1] \o s[k + 1]
      BY <1>8, <2>1
    <3>2. k # 0 => k + 1 # 1
      BY <2>1
    <3> QED BY <2>1, <3>1, <3>2, Zenon
  <2>3. IsSeq(f[k + 1]) /\ Len(f[k + 1]) = SlotsOf[k + 1]
    <3>1. CASE k = 0
      BY <1>8, <2>1, <2>2, <3>1, SlotsAre
    <3>2. CASE k # 0
      <4>1. f[k + 1] = f[k] \o s[k + 1] /\ IsSeq(f[k]) /\ Len(f[k]) = SlotsOf[k]
        BY <2>a, <2>b, <3>2
      <4>2. IsSeq(f[k] \o s[k + 1]) /\ Len(f[k] \o s[k + 1]) = Len(f[k]) + Len(s[k + 1])
        BY <2>2, <4>1, ConcatIsSeq
      <4> QED BY <2>2, <4>1, <4>2
    <3> QED BY <3>1, <3>2
  <2>4. Holds(k + 1)
    <3>1. CASE k + 1 < i
      BY <1>1, <2>1, <3>1
    <3>2. CASE k + 1 = i
      <4>1. slot = SlotsOf[k] + at
        BY <2>1, <3>2
      <4>2. f[i][slot + 1] = s[i][at + 1]
        <5>1. CASE k = 0
          BY <1>5, <1>8, <2>1, <3>2, <4>1, <5>1, SlotsAre
        <5>2. CASE k # 0
          <6>1. f[i] = f[k] \o s[i] /\ IsSeq(f[k]) /\ Len(f[k]) = SlotsOf[k]
            BY <2>a, <2>b, <3>2, <5>2
          <6>2. slot + 1 \in 1..Len(f[i]) /\ ~(slot + 1 <= Len(f[k]))
                /\ (slot + 1) - Len(f[k]) = at + 1
            <7>1. Len(f[i]) = SlotsOf[k] + Len(s[i]) /\ SlotsOf[k] \in Nat /\ Len(s[i]) \in Nat
              BY <2>2, <2>3, <3>2
            <7> HIDE DEF slot
            <7>2. at \in Nat /\ at + 1 \in 1..Len(s[i])
              BY <1>5
            <7>3. slot + 1 \in 1..Len(f[i])
              BY <4>1, <7>1, <7>2
            <7>4. ~(slot + 1 <= SlotsOf[k]) /\ (slot + 1) - SlotsOf[k] = at + 1
              BY <4>1, <7>1, <7>2
            <7> QED BY <6>1, <7>3, <7>4
          <6> HIDE DEF slot
          <6>3. \A j \in 1..Len(f[k] \o s[i]) :
                  (f[k] \o s[i])[j] = IF j <= Len(f[k]) THEN f[k][j] ELSE s[i][j - Len(f[k])]
            BY <2>2, <3>2, <6>1, ConcatIsSeq
          <6>4. f[i][slot + 1] = s[i][(slot + 1) - Len(f[k])]
            <7>1. slot + 1 \in 1..Len(f[k] \o s[i])
              BY <6>1, <6>2
            <7> DEFINE j == slot + 1
            <7>2. j \in 1..Len(f[k] \o s[i]) /\ ~(j <= Len(f[k]))
              BY <6>2, <7>1
            <7> HIDE DEF j
            <7>3. (f[k] \o s[i])[j] = s[i][j - Len(f[k])]
              BY <6>3, <7>2
            <7>4. f[i] = f[k] \o s[i]
              BY <6>1
            <7>5. f[i][j] = s[i][j - Len(f[k])]
              BY <7>3, <7>4, Zenon
            <7> QED BY <7>5, Zenon DEF j
          <6> QED BY <6>2, <6>4, Zenon
        <5> QED BY <5>1, <5>2
      <4>3. Len(f[i]) > slot
        BY <1>5, <2>2, <2>3, <3>2, <4>1
      <4> QED BY <1>5, <3>2, <4>2, <4>3
    <3>3. CASE k + 1 > i
      <4>1. /\ f[k + 1] = f[k] \o s[k + 1] /\ IsSeq(f[k]) /\ Len(f[k]) = SlotsOf[k]
            /\ Len(f[k]) > slot /\ f[k][slot + 1] = ModelInfo(i, oneM)
        <5>1. k # 0 /\ k >= i
          BY <1>1, <2>1, <3>3
        <5> QED BY <2>a, <2>b, <5>1
      <4>2. slot \in Nat
        <5>1. SlotsOf[i - 1] \in Nat
          BY <1>1, <1>4
        <5> QED BY <1>5, <5>1
      <4> HIDE DEF slot
      <4>3. slot + 1 \in 1..Len(f[k + 1]) /\ slot + 1 <= Len(f[k]) /\ Len(f[k + 1]) > slot
        BY <2>2, <2>3, <4>1, <4>2
      <4>4. f[k + 1][slot + 1] = f[k][slot + 1]
        BY <2>2, <4>1, <4>3, ConcatIsSeq
      <4> QED BY <4>1, <4>3, <4>4
    <3> QED BY <1>1, <2>1, <3>1, <3>2, <3>3
  <2> HIDE DEF Holds
  <2> QED BY <2>1, <2>3, <2>4
<1> HIDE DEF Good
<1>11. 0..N \subseteq Good
  BY <1>1, <1>9, <1>10, UpTo
<1>12. Len(f[N]) > slot /\ f[N][slot + 1] = ModelInfo(i, oneM)
  <2>1. N \in Good /\ N # 0 /\ N >= i
    BY <1>1, <1>11
  <2> QED BY <2>1 DEF Good
<1>13. slot \in Nat /\ Len(f[N]) \in Nat
  <2>1. SlotsOf[i - 1] \in Nat
    BY <1>1, <1>4
  <2>2. IsSeq(f[N])
    BY <1>1, <1>11 DEF Good
  <2> QED BY <1>5, <2>1, <2>2, IsSeqFacts
<1> HIDE DEF slot
<1> QED BY <1>3, <1>6, <1>7, <1>12, <1>13

-----------------------------------------------------------------------------
(* Routing.                                                                *)

\* Every id the listing has is known, and so is every SKU a request is routed to.
LEMMA ListedIsKnown ==
  /\ \A id \in ListModels : Known(id)
  /\ \A i \in Places, oneM \in BOOLEAN : SupportsKiroModel(KiroModel(i, oneM))
<1>1. \A i \in Places : RowsOf(Kiro(i)) # {} /\ (Rows[i].tier = "both" => RowsOf(Kiro1m(i)) # {})
  BY RowIsFound
<1>2. ASSUME NEW id \in ListModels PROVE Known(id)
  <2>1. PICK i \in Places : id \in {Anthropic(i, FALSE), Kiro(i), Anthropic(i, TRUE)}
    BY Zenon DEF ListModels, Places
  <2>2. /\ Sku(Anthropic(i, FALSE)) = Kiro(i) /\ Sku(Anthropic(i, TRUE)) = Kiro(i)
        /\ Sku(Kiro(i)) = Kiro(i)
    BY IdsAre
  <2>3. Sku(id) = Kiro(i)
    BY <2>1, <2>2, Zenon
  <2> QED BY <1>1, <2>3, Zenon DEF Known
<1>3. ASSUME NEW i \in Places, NEW oneM \in BOOLEAN PROVE SupportsKiroModel(KiroModel(i, oneM))
  BY <1>1, Zenon DEF SupportsKiroModel, KiroModel
<1> QED BY <1>2, <1>3

\* The effort sent is none, or one of the levels.
LEMMA EffortIs ==
  ASSUME NEW levels \in {Full, Standard, <<>>}, NEW asked, NEW thinking
  PROVE  ResolveEffort(levels, asked, thinking) \in {NoEffort} \cup ToSet(levels)
<1>1. CASE levels = <<>>
  BY <1>1, Zenon DEF ResolveEffort
<1>2. CASE levels # <<>>
  <2>1. "medium" \in ToSet(levels) /\ Last(levels) \in ToSet(levels)
    <3>1. CASE levels = Full
      <4>1. DOMAIN Full = 1..5 /\ Len(Full) = 5 /\ Full[2] = "medium"
        BY DEF Full
      <4> QED BY <3>1, <4>1 DEF ToSet, Last
    <3>2. CASE levels = Standard
      <4>1. DOMAIN Standard = 1..4 /\ Len(Standard) = 4 /\ Standard[2] = "medium"
        BY DEF Standard
      <4> QED BY <3>2, <4>1 DEF ToSet, Last
    <3> QED BY <1>2, <3>1, <3>2
  <2>2. CASE asked = NoEffort
    <3>1. ResolveEffort(levels, asked, thinking) = IF thinking THEN "medium" ELSE NoEffort
      BY <1>2, <2>2, Zenon DEF ResolveEffort
    <3> QED BY <2>1, <3>1, Zenon
  <2>3. CASE asked # NoEffort
    <3>1. ResolveEffort(levels, asked, thinking) =
            IF asked \in ToSet(levels) THEN asked
            ELSE IF asked \in ToSet(Full) THEN Last(levels) ELSE NoEffort
      BY <1>2, <2>3, Zenon DEF ResolveEffort
    <3> QED BY <2>1, <3>1, Zenon
  <2> QED BY <2>2, <2>3
<1> QED BY <1>1, <1>2

\* The routing of the request, until its messages are looked at.
RInv ==
  /\ stage = "parse" => request \in Requests
  /\ stage = "tools" =>
       /\ Known(request.model)
       /\ resolved = Resolve(request.model, request.beta)
       /\ effort = ResolveEffort(resolved.levels, request.effort, request.thinking \/ resolved.thinking)

\* RInv holds in every reachable state.
LEMMA RoutingInvariance == Spec => []RInv
<1>1. Init => RInv
  BY DEF Init, RInv
<1>2. RInv /\ [Next]_vars => RInv'
  <2> SUFFICES ASSUME RInv, [Next]_vars PROVE RInv'
    OBVIOUS
  <2>1. CASE Route
    <3>1. /\ Known(request.model) /\ request' = request /\ stage' = "tools"
          /\ resolved' = Resolve(request.model, request.beta)
          /\ effort' = ResolveEffort(resolved'.levels, request.effort,
                                     request.thinking \/ resolved'.thinking)
      BY <2>1, Zenon DEF Route, Refusable
    <3>2. stage' # "parse"
      BY <3>1
    <3> QED BY <3>1, <3>2, Zenon DEF RInv
  <2>2. CASE UNCHANGED vars
    BY <2>2, Zenon DEF vars, RInv
  <2>3. CASE Next /\ ~Route
    <3>1. stage' # "parse" /\ stage' # "tools"
      BY <2>3 DEF Next, Reject, ConvertTools, Textualize, NormalizeRoles, MergeRun, StartWithUser,
         Alternate, Split, HistoryUser, HistoryAssistant, PlaceSystemPrompt, Finish,
         RefuseImages, Done, vars
    <3> QED BY <3>1, Zenon DEF RInv
  <2> QED BY <2>1, <2>2, <2>3
<1> QED BY <1>1, <1>2, PTL DEF Spec

\* Where a request is routed to, its metadata, its usage slot and the listing agree,
\* for every request (catalog.rs).
THEOREM RouteTheorem == Spec => []RouteIsStable
<1>1. RInv => RouteIsStable
  <2> SUFFICES ASSUME RInv, stage = "tools"
               PROVE  LET info == Models[CatalogIndex(resolved.key) + 1]
                      IN /\ CatalogIndex(resolved.key) < Len(Models)
                         /\ info.key = resolved.key /\ info.kiro = resolved.kiro
                         /\ info.id = resolved.anthropic
                         /\ Resolve(resolved.anthropic, FALSE).key = resolved.key
                         /\ \A alias \in info.aliases : Resolve(alias, FALSE).key = resolved.key
                         /\ SupportsKiroModel(resolved.kiro)
                         /\ \A id \in ListModels : Known(id)
                         /\ (Rows[resolved.key[1]].tier = "both"
                               /\ (request.beta \/ request.model.suffix)) => resolved.key[2]
                         /\ effort \in {NoEffort} \cup ToSet(resolved.levels)
    BY Zenon DEF RouteIsStable
  <2> DEFINE i == FindRow(Sku(request.model))
             oneM == resolved.key[2]
  <2>1. /\ Known(request.model) /\ resolved = Resolve(request.model, request.beta)
        /\ effort = ResolveEffort(resolved.levels, request.effort,
                                  request.thinking \/ resolved.thinking)
    BY Zenon DEF RInv
  <2>2. /\ i \in Places /\ resolved.key = <<i, oneM>> /\ Sold(i, oneM)
        /\ resolved.kiro = KiroModel(i, oneM) /\ resolved.anthropic = Anthropic(i, oneM)
        /\ resolved.levels = Rows[i].effort
        /\ Rows[i].tier = "both" => (oneM <=> Wants1m(request.model, request.beta))
    <3>1. LET r == Resolve(request.model, request.beta)
          IN /\ i \in Places /\ r.key = <<i, r.key[2]>> /\ Sold(i, r.key[2])
             /\ r.kiro = KiroModel(i, r.key[2]) /\ r.anthropic = Anthropic(i, r.key[2])
             /\ r.levels = Rows[i].effort
             /\ Rows[i].tier = "both" => (r.key[2] <=> Wants1m(request.model, request.beta))
      BY <2>1, ResolveIs
    <3> QED BY <2>1, <3>1, Zenon
  <2> HIDE DEF i, oneM
  <2> DEFINE info == Models[CatalogIndex(resolved.key) + 1]
  <2>3. /\ CatalogIndex(resolved.key) < Len(Models)
        /\ info = ModelInfo(i, oneM)
    <3>1. /\ CatalogIndex(<<i, oneM>>) < Len(Models)
          /\ Models[CatalogIndex(<<i, oneM>>) + 1] = ModelInfo(i, oneM)
      BY <2>2, SlotIs
    <3> QED BY <2>2, <3>1, Zenon
  <2> HIDE DEF info
  <2>4. /\ info.key = <<i, oneM>> /\ info.kiro = KiroModel(i, oneM)
        /\ info.id = Anthropic(i, oneM) /\ info.aliases = Aliases(i, oneM)
    BY <2>3 DEF ModelInfo
  <2>5. \A alias \in Aliases(i, oneM) : Resolve(alias, FALSE).key = <<i, oneM>>
    BY <2>2, AliasesLeadBack
  <2>6. Anthropic(i, oneM) \in Aliases(i, oneM)
    BY Zenon DEF Aliases
  <2>7. SupportsKiroModel(resolved.kiro)
    <3>1. oneM \in BOOLEAN
      BY <2>2, SoldIs, RowsAre
    <3> QED BY <2>2, <3>1, ListedIsKnown, Zenon
  <2>8. (Rows[resolved.key[1]].tier = "both" /\ (request.beta \/ request.model.suffix))
          => resolved.key[2]
    <3>1. resolved.key[1] = i
      BY <2>2, Pair
    <3>2. request.beta \/ request.model.suffix => Wants1m(request.model, request.beta)
      BY Zenon DEF Wants1m
    <3> QED BY <2>2, <3>1, <3>2, Zenon DEF oneM
  <2>9. effort \in {NoEffort} \cup ToSet(resolved.levels)
    <3>1. Rows[i].effort \in {Full, Standard, <<>>}
      BY <2>2, RowsAre
    <3> QED BY <2>1, <2>2, <3>1, EffortIs
  <2> QED BY <2>2, <2>3, <2>4, <2>5, <2>6, <2>7, <2>8, <2>9, ListedIsKnown, Zenon DEF info
<1> QED BY <1>1, RoutingInvariance, PTL
=============================================================================

------------------------ MODULE MCResponseTranslator ------------------------
(***************************************************************************)
(* The response translator over a five-letter alphabet: tags of two        *)
(* characters that share the first, as "<thinking>" and "</thinking>" do,  *)
(* and stop sequences that may lie across deltas, tags and blocks.         *)
(***************************************************************************)
EXTENDS ResponseTranslator

MCCharacters == {"a", "b", "<", "t", "/"}
MCOpenTag  == <<"<", "t">>
MCCloseTag == <<"<", "/">>

\* Every piece of a tag and of a stop sequence, and some that hold several.
MCTexts == {<<c>> : c \in MCCharacters} \cup
  {<<"a", "b">>, <<"b", "<">>, <<"<", "t", "a">>, <<"a", "<", "/">>,
   <<"<", "t", "b", "<", "/", "a">>}

MCThoughts == {<<>>, <<"b", "b">>}

OneStop  == <<<<"a", "b">>>>
NoStop   == <<>>

\* One delta that ends a thought and goes on in text.
ThoughtThenText == {<<"a">>, <<"<", "t", "b", "b", "b", "b", "<", "/", "a">>}
=============================================================================

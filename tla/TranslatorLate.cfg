\* A budget of four characters, and deltas that end a thought and go on in text.
SPECIFICATION Spec
CONSTANTS
  Characters <- MCCharacters
  OpenTag <- MCOpenTag
  CloseTag <- MCCloseTag
  StopSequences <- NoStop
  Budget = 1
  Texts <- ThoughtThenText
  Thoughts <- MCThoughts
  Opaques = {1}
  MaxEvents = 4
INVARIANT NothingAfterStop

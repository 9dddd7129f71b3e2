\* One stop sequence of two characters, a budget of eight characters, and five
\* upstream events of every kind.
SPECIFICATION Spec
CONSTANTS
  Characters <- MCCharacters
  OpenTag <- MCOpenTag
  CloseTag <- MCCloseTag
  StopSequences <- OneStop
  Budget = 2
  Texts <- MCTexts
  Thoughts <- MCThoughts
  Opaques = {1, 6}
  MaxEvents = 5
INVARIANTS StreamInStep ChargedUntilStop TextIsCut

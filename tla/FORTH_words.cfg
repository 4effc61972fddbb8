\* Sources of a few characters of each of six alphabets.
CONSTANTS
  Limits <- Sources
  Names = {"p", "q"}
  Numbers <- SmallNumbers
  Undefined = Undefined
  NaN = NaN
  Text = Text
  Variable = Variable
SPECIFICATION Spec
INVARIANTS
  PlaceholdersAreAwaited
  TokensCoverText
PROPERTIES
  CompiledWordsStay
  BodiesAreClosed
  SavedContextsStay
  RunEnds
CHECK_DEADLOCK FALSE

SPECIFICATION MCSpec
CONSTANTS
  a = a
  b = b
  link = link
  up = up
  Files = {a, b}
  Linked = link
  Outside = up
  Order <- MCOrder
  Tests = {a}
  Inits = {b}
  bad = bad
  good = good
  mixed = mixed
  Contents = {bad, good, mixed}
  Empty = bad
  Satisfies <- MCSatisfies
  AsText <- MCAsText
  Texts = {bad, good}
  Intents <- MCIntents
  Dashed = {b}
  Tried = {a, link, up}
  Patches <- MCPatches
  Edited = {a, b, link}
  MaxEdits = 1
  None = None
  Missing = Missing
INVARIANT ReadyIsVerified
PROPERTY RestoreKeepsText
CHECK_DEADLOCK FALSE

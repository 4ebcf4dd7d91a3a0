\* Two spellings of one UUID give two objects.
SPECIFICATION UuidSpec
CONSTANTS
  Digits = {"24A0", "0009"}
  Lettered = {"24A0"}
  Padded = {"0009"}
  MaxMade = 3
INVARIANT Singletons

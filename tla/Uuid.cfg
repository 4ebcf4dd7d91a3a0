\* One UUID with letters among its digits, one that begins with a zero.
SPECIFICATION UuidSpec
CONSTANTS
  Digits = {"24A0", "0009"}
  Lettered = {"24A0"}
  Padded = {"0009"}
  MaxMade = 3
INVARIANT UuidTypeOK
INVARIANT DenotesWhatIsSpelled
INVARIANT SpellingKeepsObject
INVARIANT TestedSpellingsAgree

SPECIFICATION Spec
CONSTANTS
  Precision = 2
  Word = 8192
  Numbers <- MCNumbers
  Tags <- MCTags
  Sums <- MCSums
  Floats <- MCFloats
INVARIANTS IntegersTravel FloatsNearest FloatsShort

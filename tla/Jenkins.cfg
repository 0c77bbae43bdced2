SPECIFICATION Spec
CONSTANTS
  Top = 36
  Memory <- MCMemory
  Pointers = {4, 5, 6, 7}
  Lengths = {0, 1, 2, 3, 4, 5, 6, 7, 8, 9, 10, 11, 12, 13, 14, 15, 16, 23, 24, 25}
INVARIANTS
  HashOfKey
  ReadsInWords
PROPERTY MixReversible

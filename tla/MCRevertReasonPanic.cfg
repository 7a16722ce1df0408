CONSTANTS
  a = a
  b = b
  e2 = e2
  zh = zh
  Chars = {a, zh}
  Width <- ThreeByteWidth
  MaxLength = 4
  MaxChars = 6

SPECIFICATION Spec
INVARIANT DecodeNeverPanics

CONSTANTS
  a = a
  b = b
  e2 = e2
  zh = zh
  Chars = {a, e2}
  Width <- TwoByteWidth
  MaxLength = 4
  MaxChars = 6

SPECIFICATION Spec
INVARIANT DecodeMatchesReference

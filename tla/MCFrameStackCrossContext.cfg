CONSTANTS
  r = r
  c = c
  x = x
  n1 = n1
  n2 = n2
  k = k
  d = d
  Addr <- MCAddr
  Internal = {x}
  CrossSpace = x
  Root = r
  Keys = {k}
  Vals = {0, 1}
  Datas = {d}
  Amounts = {0, 1}
  NewContracts = {n1, n2}
  InitStorage <- MCInitStorage
  InitBalance <- MCInitBalance
  MaxDepth = 2
  MaxFrames = 3
  MaxOps = 4
  CrossVmEnabled = TRUE

SPECIFICATION Spec
INVARIANT ContextInherited
CHECK_DEADLOCK FALSE

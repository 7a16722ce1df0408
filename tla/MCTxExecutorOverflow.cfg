CONSTANTS
  s1 = s1
  s2 = s2
  c1 = c1
  c2 = c2
  Addr <- MCAddr
  Senders <- MCSenders
  InitCode <- MCInitCode
  InitBalance <- MCInitBalance
  ContractAddress <- MCContractAddress
  W = 6
  TxGas = 2
  TxCreateGas = 3
  TxDataZeroGas = 1
  TxDataNonZeroGas = 2
  StartNonce = 0
  Gases = {3, 24}
  GasPrices = {0}
  Values = {0, 1}
  Datas <- MCDatas
  MaxNonce = 2
  MaxTxs = 1
  ChargeGasModes = {TRUE}
  RealExecModes = {FALSE}
  GasManModes = {TRUE}
  GasRequireds = {0, 10}

SPECIFICATION Spec
INVARIANT NoOverflowPanic
CHECK_DEADLOCK FALSE

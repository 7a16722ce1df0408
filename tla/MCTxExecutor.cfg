CONSTANTS
  s1 = s1
  s2 = s2
  c1 = c1
  c2 = c2
  Addr <- MCAddr
  Senders <- MCSenders
  InitCode <- MCInitCode
  InitBalance <- MCInitBalance
  ContractAddress <- MCContractAddress
  W = 6
  TxGas = 2
  TxCreateGas = 3
  TxDataZeroGas = 1
  TxDataNonZeroGas = 2
  StartNonce = 0
  Gases = {3, 8}
  GasPrices = {1, 2}
  Values = {0, 1}
  Datas <- MCDatas
  MaxNonce = 2
  MaxTxs = 2
  ChargeGasModes = {TRUE}
  RealExecModes = {TRUE}
  GasManModes = {FALSE}
  GasRequireds = {0}

SPECIFICATION Spec
INVARIANT TypeOK
INVARIANT ValueConserved
INVARIANT FeeMatchesCharge
INVARIANT ChargeBounds
INVARIANT NonceDiscipline
INVARIANT DbFaultLeavesOnlyCharge
CHECK_DEADLOCK FALSE

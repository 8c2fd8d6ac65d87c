CONSTANTS
  a = a
  b = b
  c = c
  treasury = treasury
  nobody = nobody
  Dao = treasury
  Users = {a, b, c}
  None = nobody
  Simings = {a}
  MaxProxyDepth = 2
  MaxAdores = 1
  QiPerYang = 2
  Fee = 1
  Intervals = 2
  WithdrawInterval = 1
  ReturnPeriod = 1
  DeclinePeriod = 1
  MinDelegation = 1
  MinUpdate = 1
  Percent100 = 2
  StartAdoring = 2
  SimingReward = 1
  FundReward = 1
  InitProxy <- MCInitProxy
  InitAdored <- MCInitAdored
  InitYang = 3
  InitQi = 5
  Amounts = {0, 3}
  Shares = {0, 2, 3}
  Percents = {0, 1}
  MaxOps = 3
  MaxBlocks = 3
SPECIFICATION Spec
INVARIANT AdoresAccountForQi
CHECK_DEADLOCK FALSE

CONSTANTS
  a = a
  b = b
  c = c
  treasury = treasury
  nobody = nobody
  Dao = treasury
  Users = {a}
  None = nobody
  Simings = {a}
  MaxProxyDepth = 2
  MaxAdores = 1
  QiPerYang = 2
  Fee = 1
  Intervals = 2
  WithdrawInterval = 1
  ReturnPeriod = 1
  DeclinePeriod = 1
  MinDelegation = 1
  MinUpdate = 1
  Percent100 = 2
  StartAdoring = 9
  SimingReward = 1
  FundReward = 1
  InitProxy <- MCInitProxyAlone
  InitAdored = {}
  InitYang = 3
  InitQi = 6
  Amounts = {1, 3, 5}
  Shares = {0}
  Percents = {2}
  MaxOps = 4
  MaxBlocks = 3
SPECIFICATION Spec
INVARIANT PaysNoMore
CHECK_DEADLOCK FALSE

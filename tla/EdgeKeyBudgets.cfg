SPECIFICATION MCSpec
CONSTANTS
  NoLabel = NoLabel
  NoReq = NoReq
  l1 = l1
  l2 = l2
  Codes <- MCCodes
  Payable <- MCPayable
  Derived <- MCDerived
  MaxScopes = 2
  MaxUses = 3
  PressMs = 0
  LabelMs = 0
  RefusedMax = 0
  LongIs32 = FALSE
  Wrap = 16
  Held = 2
  MaxLive = 2
  Labels = {}
  Requests <- AllStored
  Grants <- AllBudgets
  Ranges <- NoRanges
  MaxLinks = 6
  MaxNow = 3
  MaxSalts = 1
  BackupAt = {}
INVARIANTS
  TypeOK
  NothingStartsWhileOwed
  FreeRunIsRecorded
  FulfilledBudgetsEnd
  BudgetsMatchChain
  SettleEndsEveryBudget
PROPERTIES
  UseWasAnnounced
  OpensOnVerifiedHead
  LedgerKept
  LifetimeIsKept

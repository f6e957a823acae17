SPECIFICATION Spec
CONSTANTS
  NoLabel = NoLabel
  NoReq = NoReq
  l1 = l1
  l2 = l2
  Codes <- MCCodes
  Payable <- MCPayable
  Derived <- MCDerived
  MaxScopes = 2
  MaxUses = 3
  PressMs = 0
  LabelMs = 0
  RefusedMax = 0
  LongIs32 = FALSE
  Wrap = 3
  Held = 2
  MaxLive = 1
  Labels = {}
  Requests <- JustStored1
  Grants <- GrantOne
  Ranges <- NoRanges
  MaxLinks = 4
  MaxNow = 4
  MaxSalts = 1
  BackupAt = {}
PROPERTIES
  LifetimeIsKept

SPECIFICATION Spec
CONSTANTS
  NoLabel = NoLabel
  NoReq = NoReq
  l1 = l1
  l2 = l2
  Codes <- MCCodes
  Payable <- MCPayable
  Derived <- MCDerived
  MaxScopes = 2
  MaxUses = 3
  PressMs = 0
  LabelMs = 0
  RefusedMax = 0
  LongIs32 = FALSE
  Wrap = 16
  Held = 2
  MaxLive = 1
  Labels = {l1}
  Requests <- JustAgent1
  Grants <- GrantOdd
  Ranges <- SomeRanges
  MaxLinks = 3
  MaxNow = 2
  MaxSalts = 2
  BackupAt = {2}
INVARIANTS
  DebtIsTheUnpaidUse
  OnlyNarrowBudgetsOpen
PROPERTIES
  PickupHasNoGap
  NoSecondHistory

CONSTANTS
  None = None
  MaxSecret = 2
  MaxDay = 2
  MaxJobs = 2
  Keystore = {TRUE, FALSE}
  Users = {u1}
  Addrs = {a1}
  Nil = Nil
  RingSize = 2
  READ_BATCH = 2
  Before = {0, 1, 4}
  MaxLinks = 1
  MaxSyncs = 2
  MaxEvents = 2
SPECIFICATION MCSpec
INVARIANTS OnlyALateHelloOutlives SessionSecretIsStored AckMeansPaired RevokedStaysGone
           LastSeenHolds PassedIsTheKeys NoFalseAlarm OkIsSigned EditsAreSeen OnlyTheKeysLinks
PROPERTY NoOlderSecretAgain
CHECK_DEADLOCK FALSE

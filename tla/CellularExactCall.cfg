\* Two sessions that use the modem one after the other.
CONSTANTS
  Equipment = {m1}
  Lease = {s1, s2}
  Operation = {o1}
  Target = {t1}
  NoLease = NoLease
  Unowned = Unowned
  CallWaiting = FALSE
  ArmingDuration = 2
  LeaseDuration = 1
  HangupRetryBase = 1
  HangupRetryMaximum = 1
  HeartbeatTimeout = 1
  RenewEvery = 1
SPECIFICATION CSpec
PROPERTIES
  HangupEndsExactCall

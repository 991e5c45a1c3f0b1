\* A hangup that ended unconfirmed, then the late answer to the start.
CONSTANTS
  Equipment = {m1}
  Lease = {s1}
  Operation = {o1}
  Target = {t1}
  NoLease = NoLease
  Unowned = Unowned
  CallWaiting = FALSE
  ArmingDuration = 3
  LeaseDuration = 2
  HangupRetryBase = 1
  HangupRetryMaximum = 1
  HeartbeatTimeout = 2
  RenewEvery = 1
SPECIFICATION CSpec
PROPERTIES
  NoRenewalAfterHangup

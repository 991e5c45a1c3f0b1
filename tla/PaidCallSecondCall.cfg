\* An answer that a second call interferes with.
CONSTANTS
  Equipment = {m1}
  Lease = {l1}
  Operation = {o1}
  Target = {t1}
  NoLease = NoLease
  CallWaiting = TRUE
  ArmingDuration = 2
  LeaseDuration = 1
  HangupRetryBase = 1
  HangupRetryMaximum = 2
SPECIFICATION Spec
INVARIANTS
  PaidCallAlwaysLeased

\* One modem, competing leases, operations and targets, with call waiting,
\* and the watchdog under crashes, failed hangups and replaced targets.
CONSTANTS
  Equipment = {m1}
  Lease = {l1, l2}
  Operation = {o1, o2}
  Target = {t1, t2}
  NoLease = NoLease
  CallWaiting = TRUE
  ArmingDuration = 3
  LeaseDuration = 2
  HangupRetryBase = 1
  HangupRetryMaximum = 2
SPECIFICATION FairSpec
INVARIANTS
  StartedOncePerLease
PROPERTIES
  ExpiredNeverRevived
  ExpiredLeaseEnds

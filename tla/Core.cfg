\* Calls: one session, every interleaving of its start, renewals and hangups,
\* with SMS, SIM and scan operations and changes of the card.
\* Exits: two lines, one of which cannot be moved, an automatic selection and an
\* operator.
CONSTANTS
  Equipment = {m1}
  Lease = {s1}
  Operation = {o1}
  Target = {t1, t2}
  NoLease = NoLease
  Unowned = Unowned
  CallWaiting = FALSE
  ArmingDuration = 2
  LeaseDuration = 2
  HangupRetryBase = 1
  HangupRetryMaximum = 1
  HeartbeatTimeout = 1
  RenewEvery = 1
  Line = {line1, line2}
  Failing = line1
  Selection = {x1}
  UserApply = {u1}
  First = First
  NoOne = NoOne
  MaxRevision = 2
  MaxAttempts = 2
  MaxGeneration = 2
SYMMETRY TargetSymmetry
SPECIFICATION MCSpec
INVARIANTS
  CoreStateOK
  ReadyMeansUnstarted
  CanceledNeverPublished
  
  

  
  
CHECK_DEADLOCK FALSE

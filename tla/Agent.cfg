\* Calls: two modems and cards, one lease identity: locks, scans and holds across
\* modems.  Messages: one message of two parts, two Agents, two requests at a
\* time.  Link: two connections and two requests at a time.
CONSTANTS
  Equipment = {m1, m2}
  Lease = {l1}
  Operation = {o1}
  Target = {t1, t2}
  NoLease = NoLease
  CallWaiting = FALSE
  ArmingDuration = 2
  LeaseDuration = 1
  HangupRetryBase = 1
  HangupRetryMaximum = 2
  Message = {s1}
  SmsRequest = {p1, p2}
  SmsAgent = {a1, a2}
  Nothing = Nothing
  Parts = 2
  PrivatePort = FALSE
  Conn = {c1, c2}
  Request = {q1, q2}
  HostOperation = {h1}
  NoConn = NoConn
  NoHost = NoHost
  Update = Update
  Slots = 1
  MaxToken = 2
SYMMETRY ModemSymmetry
SPECIFICATION MCSpec
INVARIANTS
  AgentTypeOK
  PaidCallAlwaysLeased
  LockHolderInv
  NoAuxiliaryOnPaidCall
  SentOnce
  RevokedStaysOut
  MaintenanceExcludes
  WorkIsOwned
PROPERTIES
  ImplementsHold
  DeletionIsFinal
CHECK_DEADLOCK FALSE

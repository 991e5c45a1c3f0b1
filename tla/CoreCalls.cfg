CONSTANTS
  Ring = {r1}
  Operation = {o1, o2}
  NoRing = NoRing
  NoClaim = NoClaim
  Session = {s1, s2}
  NoSession = NoSession
  MaxLoan = 2
  Quota = 2
  Flush = 2
  Limits = {2}
  MaxProcess = 2
SPECIFICATION MCSpec
INVARIANTS
  CoreTypeOK
  RevokedPeerIsClosed
  AudioIsOwned
  EveryByteCharged
  StreamsOnCurrentBearer
PROPERTIES
  
  ClaimsEnd
  AudioReleased
  CallsAdmittedAgain
CHECK_DEADLOCK FALSE

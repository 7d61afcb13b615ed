SPECIFICATION Spec
CONSTANTS
  t1 = t1
  t2 = t2
  a1 = a1
  a2 = a2
  a3 = a3
  o1 = o1
  o2 = o2
  e1 = e1
  Turn = {t1, t2}
  Attempt = {a1, a2, a3}
  Operation = {o1, o2}
  Effect = {e1}
  NoAttempt = NoAttempt
  NoTurn = NoTurn
  NoOperation = NoOperation
  MaxTurnAttempts = 2
  MaxDurableSequence = 7
  LeaseTTL = 1
  ReservationTTL = 3
  Authority = "usage"
  ReservationAware = TRUE
SYMMETRY Symmetry
CHECK_DEADLOCK FALSE
INVARIANTS
  SingleOwner
  NoStaleCommit
  ReceiptsMatchLog
  CommercialOutcome
  ReleaseProvesEmpty
PROPERTIES
  LiveLeaseRespected
  ImplementsLifecycle

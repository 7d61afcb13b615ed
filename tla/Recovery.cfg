SPECIFICATION RecoverySpec
CONSTANTS
  t1 = t1
  t2 = t2
  a1 = a1
  a2 = a2
  a3 = a3
  o1 = o1
  Turn = {t1, t2}
  Attempt = {a1, a2, a3}
  Operation = {o1}
  Effect = {}
  NoAttempt = NoAttempt
  NoTurn = NoTurn
  NoOperation = NoOperation
  MaxTurnAttempts = 2
  MaxDurableSequence = 6
  LeaseTTL = 1
  ReservationTTL = 2
  Authority = "review"
  ReservationAware = TRUE
  ScanLimit = 1
  BatchLimit = 1
  SweepLimit = 1
CHECK_DEADLOCK FALSE
PROPERTIES
  StuckTurnsRetire
  QueuedTurnsMove
  ExpiredHoldsEnd
